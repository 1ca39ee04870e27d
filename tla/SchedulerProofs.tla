---------------------------- MODULE SchedulerProofs ----------------------------
(***************************************************************************)
(* The scheduler, for every number of requests and blocks, every block size, *)
(* every budget and every setting of chunked prefill, LPM and same-step      *)
(* reuse.                                                                  *)
(***************************************************************************)
EXTENDS Scheduler, BlockManagerProofs

-----------------------------------------------------------------------------
(* Lists                                                                   *)

LEMMA MinExists ==
    ASSUME NEW S, S \subseteq Nat, S # {}
    PROVE  \E m \in S : \A x \in S : m <= x
<1>1. IsWellFoundedOn(OpToRel(<, Nat), Nat)
  BY NatLessThanWellFounded
<1>2. \E x \in S : \A y \in S : ~(<<y, x>> \in OpToRel(<, Nat))
  BY <1>1, WFMin
<1>3. PICK m \in S : \A y \in S : ~(y < m)
  BY <1>2 DEF OpToRel
<1>4. \A y \in S : y \in Nat /\ m \in Nat /\ m <= y
  BY <1>3
<1>. QED
  BY <1>4

(* A set of numbers that has 0, and each number after one it has.            *)
LEMMA Ascend ==
    ASSUME NEW G, 0 \in G, NEW L \in Nat, \A n \in 1 .. L : n - 1 \in G => n \in G
    PROVE  L \in G
<1> DEFINE Bad == {n \in Nat : n <= L /\ n \notin G}
<1>1. ASSUME Bad # {} PROVE FALSE
  <2>1. PICK m \in Bad : \A x \in Bad : m <= x
    BY <1>1, MinExists
  <2>2. m # 0
    BY <2>1
  <2>3. m \in 1 .. L /\ m - 1 \in Nat /\ m - 1 \notin Bad
    BY <2>1, <2>2
  <2>. QED
    BY <2>1, <2>3
<1>. QED
  BY <1>1

(* The function that Filter is defined by.                                  *)
FilterStep(f, q, S, n) ==
    IF n = 0 THEN <<>>
    ELSE IF q[n] \in S THEN Append(f[n - 1], q[n]) ELSE f[n - 1]

LEMMA FilterExists ==
    ASSUME NEW q, Len(q) \in Nat, NEW S
    PROVE  \E f : f = [n \in 0 .. Len(q) |-> FilterStep(f, q, S, n)]
<1> DEFINE Upto(m) == \E f : f = [n \in 0 .. m |-> FilterStep(f, q, S, n)]
           Bad == {m \in Nat : ~Upto(m)}
<1>1. ASSUME Bad # {} PROVE FALSE
  <2>1. PICK m \in Bad : \A x \in Bad : m <= x
    BY <1>1, MinExists
  <2>2. CASE m = 0
    <3> DEFINE g == [n \in 0 .. 0 |-> <<>>]
    <3>1. g = [n \in 0 .. 0 |-> FilterStep(g, q, S, n)]
      BY DEF FilterStep
    <3>. QED
      BY <2>1, <2>2, <3>1
  <2>3. CASE m # 0
    <3>1. m - 1 \in Nat /\ Upto(m - 1)
      BY <2>1, <2>3
    <3>2. PICK f : f = [n \in 0 .. m - 1 |-> FilterStep(f, q, S, n)]
      BY <3>1
    <3> DEFINE g == [n \in 0 .. m |-> FilterStep(f, q, S, n)]
    <3>3. ASSUME NEW n \in 0 .. m - 1 PROVE g[n] = f[n]
      <4>1. f[n] = FilterStep(f, q, S, n)
        BY <3>2
      <4>. QED
        BY <3>1, <4>1
    <3>4. ASSUME NEW n \in 0 .. m PROVE g[n] = FilterStep(g, q, S, n)
      <4>1. g[n] = FilterStep(f, q, S, n)
        OBVIOUS
      <4>2. n # 0 => g[n - 1] = f[n - 1]
        <5>1. n # 0 => n - 1 \in 0 .. m - 1
          BY <3>1
        <5>. QED
          BY <3>3, <5>1
      <4>. HIDE DEF g
      <4>. QED
        BY <4>1, <4>2 DEF FilterStep
    <3>5. g = [n \in 0 .. m |-> FilterStep(g, q, S, n)]
      BY <3>4
    <3>. QED
      BY <2>1, <3>5
  <2>. QED
    BY <2>2, <2>3
<1>. QED
  BY <1>1

LEMMA FilterUnfolded ==
    ASSUME NEW q, Len(q) \in Nat, NEW S
    PROVE  \E f : /\ \A n \in 0 .. Len(q) : f[n] = FilterStep(f, q, S, n)
                  /\ Filter(q, S) = f[Len(q)]
<1> DEFINE f == CHOOSE f : f = [n \in 0 .. Len(q) |->
                    IF n = 0 THEN <<>>
                    ELSE IF q[n] \in S THEN Append(f[n - 1], q[n]) ELSE f[n - 1]]
<1>1. f = [n \in 0 .. Len(q) |->
               IF n = 0 THEN <<>>
               ELSE IF q[n] \in S THEN Append(f[n - 1], q[n]) ELSE f[n - 1]]
  <2>1. \E h : h = [n \in 0 .. Len(q) |->
               IF n = 0 THEN <<>>
               ELSE IF q[n] \in S THEN Append(h[n - 1], q[n]) ELSE h[n - 1]]
    BY FilterExists DEF FilterStep
  <2>. QED
    BY <2>1
<1>2. Filter(q, S) = f[Len(q)]
  BY DEF Filter
<1>. HIDE DEF f
<1>3. \A n \in 0 .. Len(q) : f[n] = FilterStep(f, q, S, n)
  BY <1>1 DEF FilterStep
<1>. QED
  BY <1>2, <1>3

(* What Filter keeps, and what it may not keep twice.                       *)
LEMMA FilterFacts ==
    ASSUME NEW T, NEW q \in Seq(T), NEW S
    PROVE  /\ Filter(q, S) \in Seq(T)
           /\ Range(Filter(q, S)) = Range(q) \cap S
           /\ IsInjective(q) => IsInjective(Filter(q, S))
<1>1. PICK L \in Nat : L = Len(q) /\ DOMAIN q = 1 .. L
  OBVIOUS
<1>2. PICK f : /\ \A n \in 0 .. L : f[n] = FilterStep(f, q, S, n)
               /\ Filter(q, S) = f[L]
  BY <1>1, FilterUnfolded
<1> DEFINE Seen(n) == {q[i] : i \in 1 .. n}
           Ok(n) == /\ f[n] \in Seq(T)
                    /\ Range(f[n]) = Seen(n) \cap S
                    /\ IsInjective(q) => IsInjective(f[n])
           G == {n \in Nat : Ok(n)}
<1>3. Ok(0)
  <2>1. f[0] = <<>>
    BY <1>1, <1>2 DEF FilterStep
  <2>2. Seen(0) = {}
    OBVIOUS
  <2>. QED
    BY <2>1, <2>2 DEF Range, IsInjective
<1>4. ASSUME NEW n \in 1 .. L, Ok(n - 1) PROVE Ok(n)
  <2>1. f[n] = IF q[n] \in S THEN Append(f[n - 1], q[n]) ELSE f[n - 1]
    BY <1>1, <1>2 DEF FilterStep
  <2>2. Seen(n) = Seen(n - 1) \cup {q[n]} /\ q[n] \in T
    BY <1>1
  <2>3. IsInjective(q) => q[n] \notin Seen(n - 1)
    BY <1>1 DEF IsInjective
  <2> DEFINE g == f[n - 1]
             h == f[n]
             A == Seen(n - 1)
             B == Seen(n)
  <2>4. /\ g \in Seq(T) /\ Range(g) = A \cap S /\ (IsInjective(q) => IsInjective(g))
        /\ h = (IF q[n] \in S THEN Append(g, q[n]) ELSE g)
        /\ B = A \cup {q[n]} /\ (IsInjective(q) => q[n] \notin A)
    BY <1>4, <2>1, <2>2, <2>3
  <2>. HIDE DEF g, h, A, B, Seen
  <2>5. /\ h \in Seq(T) /\ Range(h) = B \cap S
        /\ IsInjective(q) => IsInjective(h)
    <3>1. CASE q[n] \in S
      BY <2>2, <2>4, <3>1, AppendFacts
    <3>2. CASE q[n] \notin S
      BY <2>4, <3>2
    <3>. QED
      BY <3>1, <3>2
  <2>. QED
    BY <2>5 DEF g, h, A, B
<1>5. Ok(L)
  <2>a. Ok(0) /\ \A n \in 1 .. L : Ok(n - 1) => Ok(n)
    BY <1>3, <1>4
  <2>. HIDE DEF Ok
  <2>1. 0 \in G /\ \A n \in 1 .. L : n - 1 \in G => n \in G
    BY <1>1, <2>a
  <2>. HIDE DEF G
  <2>2. L \in G
    BY <1>1, <2>1, Ascend
  <2>. QED
    BY <2>2 DEF G
<1>6. Seen(L) = Range(q)
  BY <1>1 DEF Range
<1>. QED
  BY <1>2, <1>5, <1>6

LEMMA FilterLengths ==
    ASSUME NEW T, NEW q \in Seq(T), NEW S, NEW R, S \cap R = {}
    PROVE  Len(Filter(q, S)) + Len(Filter(q, R)) <= Len(q)
<1>1. PICK L \in Nat : L = Len(q) /\ DOMAIN q = 1 .. L
  OBVIOUS
<1>2. PICK f : /\ \A n \in 0 .. L : f[n] = FilterStep(f, q, S, n)
               /\ Filter(q, S) = f[L]
  BY <1>1, FilterUnfolded
<1>3. PICK g : /\ \A n \in 0 .. L : g[n] = FilterStep(g, q, R, n)
               /\ Filter(q, R) = g[L]
  BY <1>1, FilterUnfolded
<1> DEFINE Ok(n) == f[n] \in Seq(T) /\ g[n] \in Seq(T) /\ Len(f[n]) + Len(g[n]) <= n
           G == {n \in Nat : Ok(n)}
<1>4. Ok(0)
  <2>1. f[0] = <<>> /\ g[0] = <<>>
    BY <1>1, <1>2, <1>3 DEF FilterStep
  <2>. QED
    BY <2>1
<1>5. ASSUME NEW n \in 1 .. L, Ok(n - 1) PROVE Ok(n)
  <2>1. /\ f[n] = IF q[n] \in S THEN Append(f[n - 1], q[n]) ELSE f[n - 1]
        /\ g[n] = IF q[n] \in R THEN Append(g[n - 1], q[n]) ELSE g[n - 1]
    BY <1>1, <1>2, <1>3 DEF FilterStep
  <2>2. q[n] \in T /\ ~(q[n] \in S /\ q[n] \in R)
    BY <1>1
  <2> DEFINE a == f[n - 1]
             b == g[n - 1]
             c == f[n]
             d == g[n]
  <2>3. /\ a \in Seq(T) /\ b \in Seq(T) /\ Len(a) + Len(b) <= n - 1
        /\ c = (IF q[n] \in S THEN Append(a, q[n]) ELSE a)
        /\ d = (IF q[n] \in R THEN Append(b, q[n]) ELSE b)
    BY <1>5, <2>1
  <2>. HIDE DEF a, b, c, d
  <2>4. /\ Append(a, q[n]) \in Seq(T) /\ Len(Append(a, q[n])) = Len(a) + 1
        /\ Append(b, q[n]) \in Seq(T) /\ Len(Append(b, q[n])) = Len(b) + 1
        /\ Len(a) \in Nat /\ Len(b) \in Nat
    BY <2>2, <2>3
  <2>6. Len(a) + Len(b) <= n - 1 /\ a \in Seq(T) /\ b \in Seq(T) /\ n \in Nat
    BY <2>3
  <2>5. c \in Seq(T) /\ d \in Seq(T) /\ Len(c) + Len(d) <= n
    <3>1. CASE q[n] \in S
      <4>1. c = Append(a, q[n]) /\ d = b
        BY <2>2, <2>3, <3>1
      <4>. QED
        BY <2>4, <2>6, <4>1
    <3>2. CASE q[n] \notin S /\ q[n] \in R
      <4>1. c = a /\ d = Append(b, q[n])
        BY <2>3, <3>2
      <4>. QED
        BY <2>4, <2>6, <4>1
    <3>3. CASE q[n] \notin S /\ q[n] \notin R
      <4>1. c = a /\ d = b
        BY <2>3, <3>3
      <4>. QED
        BY <2>4, <2>6, <4>1
    <3>. QED
      BY <3>1, <3>2, <3>3
  <2>. QED
    BY <2>5 DEF c, d
<1>6. Ok(L)
  <2>a. Ok(0) /\ \A n \in 1 .. L : Ok(n - 1) => Ok(n)
    BY <1>4, <1>5
  <2>. HIDE DEF Ok
  <2>1. 0 \in G /\ \A n \in 1 .. L : n - 1 \in G => n \in G
    BY <1>1, <2>a
  <2>. HIDE DEF G
  <2>2. L \in G
    BY <1>1, <2>1, Ascend
  <2>. QED
    BY <2>2 DEF G
<1>. QED
  BY <1>1, <1>2, <1>3, <1>6

(* The ranking lists each waiting request once.                              *)
LEMMA RankFacts ==
    ASSUME waiting \in Seq(Seqs), NEW initial \in [Seqs -> Seq(BlockIds)]
    PROVE  /\ RankWaiting(initial) \in Seq(Seqs)
           /\ Range(RankWaiting(initial)) \subseteq Range(waiting)
           /\ IsInjective(waiting) => IsInjective(RankWaiting(initial))
<1> DEFINE D == DOMAIN waiting
           P(i, j) == i # j /\ Before(i, j, initial)
           Below(j) == {i \in D : P(i, j)}
           rank == [j \in D |-> Cardinality(Below(j)) + 1]
           index(r) == CHOOSE j \in D : Cardinality({i \in D : i # j /\ Before(i, j, initial)}) + 1 = r
           ranked == RankWaiting(initial)
<1>1. PICK L \in Nat : L = Len(waiting) /\ D = 1 .. L
  OBVIOUS
<1>2. IsFiniteSet(D) /\ Cardinality(D) = L
  <2>. HIDE DEF D
  <2>1. IsFiniteSet(1 .. L) /\ Cardinality(1 .. L) = L
    BY FS_Interval
  <2>. QED
    BY <1>1, <2>1
<1>3. PICK len \in [D -> Nat] : \A i \in D : len[i] = Len(initial[waiting[i]])
  <2>1. \A i \in D : Len(initial[waiting[i]]) \in Nat
    <3>1. \A i \in D : initial[waiting[i]] \in Seq(BlockIds)
      BY <1>1
    <3>. QED
      BY <3>1
  <2> DEFINE len == [i \in D |-> Len(initial[waiting[i]])]
  <2>2. len \in [D -> Nat]
    BY <2>1
  <2>. QED
    BY <2>2
<1>4. \A i, j \in D : P(i, j) <=>
        i # j /\ (IF EnableLpm /\ len[i] # len[j] THEN len[i] > len[j] ELSE i < j)
  BY <1>3 DEF Before
<1>. HIDE DEF P
<1>a. \A i \in D : len[i] \in Nat /\ i \in Nat
  BY <1>1, <1>3
<1>5. \A i, j \in D : i # j => P(i, j) \/ P(j, i)
  <2>. SUFFICES ASSUME NEW i \in D, NEW j \in D, i # j PROVE P(i, j) \/ P(j, i)
    OBVIOUS
  <2>1. PICK m \in Nat, n \in Nat : m = len[i] /\ n = len[j]
    BY <1>a
  <2>2. i \in Nat /\ j \in Nat
    BY <1>a
  <2>3. /\ P(i, j) <=> (IF EnableLpm /\ m # n THEN m > n ELSE i < j)
        /\ P(j, i) <=> (IF EnableLpm /\ n # m THEN n > m ELSE j < i)
    BY <1>4, <2>1
  <2>4. CASE EnableLpm /\ m # n
    BY <2>2, <2>3, <2>4
  <2>5. CASE ~(EnableLpm /\ m # n)
    BY <2>2, <2>3, <2>5
  <2>. QED
    BY <2>4, <2>5
<1>6. \A i, j, k \in D : P(i, j) /\ P(j, k) => P(i, k)
  <2>. SUFFICES ASSUME NEW i \in D, NEW j \in D, NEW k \in D, P(i, j), P(j, k)
                PROVE  P(i, k)
    OBVIOUS
  <2>1. PICK m \in Nat, n \in Nat, o \in Nat : m = len[i] /\ n = len[j] /\ o = len[k]
    BY <1>a
  <2>2. i \in Nat /\ j \in Nat /\ k \in Nat
    BY <1>a
  <2>3. /\ i # j /\ (IF EnableLpm /\ m # n THEN m > n ELSE i < j)
        /\ j # k /\ (IF EnableLpm /\ n # o THEN n > o ELSE j < k)
        /\ P(i, k) <=> i # k /\ (IF EnableLpm /\ m # o THEN m > o ELSE i < k)
    BY <1>4, <2>1
  <2>4. CASE EnableLpm
    <3>1. m >= n /\ n >= o
      BY <2>3, <2>4
    <3>2. CASE m = o
      <4>1. m = n /\ n = o /\ i < j /\ j < k
        BY <2>3, <2>4, <3>1, <3>2
      <4>. QED
        BY <2>2, <2>3, <3>2, <4>1
    <3>3. CASE m # o
      BY <2>1, <2>3, <2>4, <3>1, <3>3
    <3>. QED
      BY <3>2, <3>3
  <2>5. CASE ~EnableLpm
    BY <2>2, <2>3, <2>5
  <2>. QED
    BY <2>4, <2>5
<1>7. \A i \in D : ~P(i, i)
  BY <1>4
<1>8. \A j \in D : IsFiniteSet(Below(j)) /\ Cardinality(Below(j)) \in 0 .. L - 1
  <2>. SUFFICES ASSUME NEW j \in D
                PROVE  IsFiniteSet(Below(j)) /\ Cardinality(Below(j)) \in 0 .. L - 1
    OBVIOUS
  <2>1. IsFiniteSet(D \ {j}) /\ Cardinality(D \ {j}) = L - 1
    BY <1>2, FS_RemoveElement
  <2>2. Below(j) \in SUBSET (D \ {j})
    BY <1>7
  <2>. HIDE DEF Below
  <2>3. IsFiniteSet(Below(j)) /\ Cardinality(Below(j)) <= L - 1
    BY <2>1, <2>2, FS_Subset
  <2>. QED
    BY <2>3, FS_CardinalityType
<1>9. \A i, j \in D : P(i, j) => rank[i] < rank[j]
  <2>. SUFFICES ASSUME NEW i \in D, NEW j \in D, P(i, j) PROVE rank[i] < rank[j]
    OBVIOUS
  <2>1. i \notin Below(i) /\ Below(i) \cup {i} \in SUBSET Below(j)
    BY <1>6, <1>7
  <2>2. rank[i] = Cardinality(Below(i)) + 1 /\ rank[j] = Cardinality(Below(j)) + 1
    OBVIOUS
  <2>. HIDE DEF Below, rank
  <2>3. Cardinality(Below(i) \cup {i}) = Cardinality(Below(i)) + 1
    BY <1>8, <2>1, FS_AddElement
  <2>4. Cardinality(Below(i) \cup {i}) <= Cardinality(Below(j))
    BY <1>8, <2>1, FS_Subset
  <2>. QED
    BY <1>8, <2>2, <2>3, <2>4
<1>10. rank \in [D -> D]
  <2>. SUFFICES ASSUME NEW j \in D PROVE Cardinality(Below(j)) + 1 \in D
    OBVIOUS
  <2>1. Cardinality(Below(j)) \in 0 .. L - 1
    BY <1>8
  <2>. HIDE DEF Below
  <2>. QED
    BY <1>1, <2>1
<1>11. \A j \in D : rank[j] = Cardinality({i \in D : i # j /\ Before(i, j, initial)}) + 1
  BY DEF P
<1>. HIDE DEF rank, Below
<1>12. rank \in Injection(D, D)
  <2>1. \A i, j \in D : i # j => rank[i] # rank[j]
    <3>1. \A i \in D : rank[i] \in Nat
      BY <1>1, <1>10
    <3>. QED
      BY <1>5, <1>9, <3>1
  <2>. QED
    BY <1>10, <2>1 DEF Injection, IsInjective
<1>13. \A r \in D : \E j \in D : rank[j] = r
  <2>1. rank \in Surjection(D, D)
    BY <1>2, <1>12, FS_Injection
  <2>. QED
    BY <2>1 DEF Surjection
<1>14. \A r \in D : index(r) \in D /\ rank[index(r)] = r
  BY <1>11, <1>13
<1>15. ranked = [r \in D |-> waiting[index(r)]]
  BY DEF RankWaiting
<1>. HIDE DEF index, ranked
<1>16. ranked \in Seq(Seqs) /\ DOMAIN ranked = D
  BY <1>1, <1>14, <1>15
<1>17. Range(ranked) \subseteq Range(waiting)
  BY <1>14, <1>15 DEF Range
<1>18. IsInjective(waiting) => IsInjective(ranked)
  <2>. SUFFICES ASSUME IsInjective(waiting), NEW a \in D, NEW b \in D, ranked[a] = ranked[b]
                PROVE  a = b
    BY <1>16 DEF IsInjective
  <2>1. index(a) = index(b)
    BY <1>14, <1>15 DEF IsInjective
  <2>. QED
    BY <1>14, <2>1
<1>. QED
  BY <1>16, <1>17, <1>18 DEF ranked

-----------------------------------------------------------------------------
(* Sums                                                                    *)

(* What Total counts.                                                       *)
Points(f) == {w \in Seqs \X (1 .. MaxLen) : w[2] <= f[w[1]]}

LEMMA ProductFinite ==
    ASSUME NEW S, IsFiniteSet(S), NEW n \in Nat
    PROVE  IsFiniteSet(S \X (1 .. n))
<1> DEFINE X(m) == S \X (1 .. m)
           G == {m \in Nat : IsFiniteSet(X(m))}
<1>1. 0 \in G
  <2>1. X(0) = {}
    OBVIOUS
  <2>. QED
    BY <2>1, FS_EmptySet
<1>2. ASSUME NEW m \in 1 .. n, m - 1 \in G PROVE m \in G
  <2> DEFINE h == [x \in S |-> <<x, m>>]
             T == {<<x, m>> : x \in S}
  <2>1. h \in Surjection(S, T)
    BY DEF Surjection
  <2>. HIDE DEF h
  <2>2. IsFiniteSet(T)
    BY <2>1, FS_Surjection
  <2>3. X(m) = X(m - 1) \cup T
    <3>1. 1 .. m = (1 .. m - 1) \cup {m}
      OBVIOUS
    <3>. HIDE DEF T
    <3>2. S \X ((1 .. m - 1) \cup {m}) = (S \X (1 .. m - 1)) \cup T
      BY DEF T
    <3>. QED
      BY <3>1, <3>2
  <2>4. IsFiniteSet(X(m - 1)) /\ m \in Nat
    BY <1>2
  <2>5. PICK A, B : A = X(m - 1) /\ B = T
    OBVIOUS
  <2>6. IsFiniteSet(A) /\ IsFiniteSet(B) /\ X(m) = A \cup B
    BY <2>2, <2>3, <2>4, <2>5
  <2>. HIDE DEF X, T
  <2>7. IsFiniteSet(A \cup B)
    BY <2>6, FS_Union
  <2>. QED
    BY <2>4, <2>6, <2>7
<1>. HIDE DEF G
<1>3. n \in G
  BY <1>1, <1>2, Ascend
<1>. QED
  BY <1>3 DEF G

LEMMA TotalType ==
    ASSUME NEW f
    PROVE  IsFiniteSet(Points(f)) /\ Total(f) = Cardinality(Points(f)) /\ Total(f) \in Nat
<1>1. IsFiniteSet(Seqs \X (1 .. MaxLen))
  BY ProductFinite, BlockManagerAssumption
<1>2. Points(f) \in SUBSET (Seqs \X (1 .. MaxLen))
  BY DEF Points
<1>3. IsFiniteSet(Points(f))
  BY <1>1, <1>2, FS_Subset
<1>4. Total(f) = Cardinality(Points(f))
  BY DEF Total, Points
<1>. QED
  BY <1>3, <1>4, FS_CardinalityType

LEMMA TotalMonotone ==
    ASSUME NEW f \in [Seqs -> Nat], NEW g \in [Seqs -> Nat], \A s \in Seqs : f[s] <= g[s]
    PROVE  Total(f) <= Total(g)
<1>1. Points(f) \in SUBSET Points(g)
  <2>1. ASSUME NEW w \in Points(f) PROVE w \in Points(g)
    <3>1. w[1] \in Seqs /\ w[2] \in Nat /\ w[2] <= f[w[1]] /\ w \in Seqs \X (1 .. MaxLen)
      BY DEF Points
    <3>2. f[w[1]] \in Nat /\ g[w[1]] \in Nat /\ f[w[1]] <= g[w[1]]
      BY <3>1
    <3>3. w[2] <= g[w[1]]
      BY <3>1, <3>2
    <3>. QED
      BY <3>1, <3>3 DEF Points
  <2>. QED
    BY <2>1
<1>2. IsFiniteSet(Points(g))
  BY TotalType
<1>. QED
  BY <1>1, <1>2, TotalType, FS_Subset

(* One request takes more, or less.                                         *)
LEMMA TotalUpdate ==
    ASSUME NEW f \in [Seqs -> 0 .. MaxLen], NEW g \in [Seqs -> 0 .. MaxLen], NEW s \in Seqs,
           \A q \in Seqs \ {s} : g[q] = f[q]
    PROVE  Total(g) + f[s] = Total(f) + g[s]
<1> DEFINE Rest == {w \in Points(f) : w[1] # s}
           Column(n) == {s} \X (1 .. n)
<1>1. MaxLen \in Nat /\ f[s] \in 0 .. MaxLen /\ g[s] \in 0 .. MaxLen
  BY BlockManagerAssumption
<1>2. Rest = {w \in Points(g) : w[1] # s}
  BY DEF Points
<1>3. Points(f) = Rest \cup Column(f[s]) /\ Rest \cap Column(f[s]) = {}
  BY <1>1 DEF Points
<1>4. Points(g) = Rest \cup Column(g[s]) /\ Rest \cap Column(g[s]) = {}
  <2>. HIDE DEF Rest
  <2>1. {w \in Points(g) : w[1] # s} \cup Column(g[s]) = Points(g)
    BY <1>1 DEF Points
  <2>2. \A w \in Column(g[s]) : w[1] = s
    OBVIOUS
  <2>. QED
    BY <1>2, <2>1, <2>2
<1>5. ASSUME NEW n \in Nat
      PROVE  IsFiniteSet(Column(n)) /\ Cardinality(Column(n)) = n
  <2> DEFINE h == [i \in 1 .. n |-> <<s, i>>]
  <2>1. h \in Bijection(1 .. n, Column(n))
    <3>1. h \in [1 .. n -> Column(n)]
      OBVIOUS
    <3>2. \A i, j \in 1 .. n : h[i] = h[j] => i = j
      OBVIOUS
    <3>3. \A w \in Column(n) : \E i \in 1 .. n : h[i] = w
      OBVIOUS
    <3>. HIDE DEF h, Column
    <3>. QED
      BY <3>1, <3>2, <3>3 DEF Bijection, Injection, Surjection, IsInjective
  <2>2. IsFiniteSet(1 .. n) /\ Cardinality(1 .. n) = n
    <3>1. 1 \in Int /\ n \in Int
      OBVIOUS
    <3>. HIDE DEF h, Column, Rest
    <3>2. IsFiniteSet(1 .. n) /\ Cardinality(1 .. n) = IF 1 > n THEN 0 ELSE n - 1 + 1
      BY <3>1, FS_Interval
    <3>. QED
      BY <3>2
  <2>. HIDE DEF h
  <2>3. ExistsBijection(1 .. n, Column(n))
    BY <2>1 DEF ExistsBijection
  <2>. HIDE DEF Column
  <2>. QED
    BY <2>2, <2>3, FS_Bijection
<1>6. IsFiniteSet(Rest)
  <2>1. Rest \in SUBSET Points(f)
    OBVIOUS
  <2>. QED
    BY <2>1, TotalType, FS_Subset
<1>7. PICK m \in Nat, n \in Nat : m = f[s] /\ n = g[s]
  BY <1>1
<1>. HIDE DEF Rest, Column
<1>8. Cardinality(Points(f)) = Cardinality(Rest) + m
  <2>1. /\ Cardinality(Rest \cup Column(m)) =
             Cardinality(Rest) + Cardinality(Column(m)) - Cardinality({})
        /\ Cardinality(Column(m)) = m
    BY <1>3, <1>5, <1>6, <1>7, FS_Union
  <2>. QED
    BY <1>3, <1>6, <1>7, <2>1, FS_EmptySet, FS_CardinalityType
<1>9. Cardinality(Points(g)) = Cardinality(Rest) + n
  <2>1. /\ Cardinality(Rest \cup Column(n)) =
             Cardinality(Rest) + Cardinality(Column(n)) - Cardinality({})
        /\ Cardinality(Column(n)) = n
    BY <1>4, <1>5, <1>6, <1>7, FS_Union
  <2>. QED
    BY <1>4, <1>6, <1>7, <2>1, FS_EmptySet, FS_CardinalityType
<1>10. Cardinality(Rest) \in Nat
  BY <1>6, FS_CardinalityType
<1>. QED
  BY <1>7, <1>8, <1>9, <1>10, TotalType

LEMMA TotalZero == Total([s \in Seqs |-> 0]) = 0
<1>1. Points([s \in Seqs |-> 0]) = {}
  BY DEF Points
<1>. QED
  BY <1>1, TotalType, FS_EmptySet

(* One for each member of a set.                                            *)
LEMMA TotalOnes ==
    ASSUME NEW S \in SUBSET Seqs, MaxLen >= 1
    PROVE  Total([s \in Seqs |-> IF s \in S THEN 1 ELSE 0]) = Cardinality(S)
<1> DEFINE f == [s \in Seqs |-> IF s \in S THEN 1 ELSE 0]
           h == [s \in S |-> <<s, 1>>]
<1>1. Points(f) = {<<s, 1>> : s \in S}
  BY BlockManagerAssumption DEF Points
<1>2. h \in Bijection(S, {<<s, 1>> : s \in S})
  BY DEF Bijection, Injection, Surjection, IsInjective
<1>. HIDE DEF h, f
<1>3. ExistsBijection(S, Points(f))
  BY <1>1, <1>2 DEF ExistsBijection
<1>4. IsFiniteSet(S)
  BY FS_Subset, BlockManagerAssumption
<1>5. Total(f) = Cardinality(S)
  BY <1>3, <1>4, FS_Bijection, TotalType
<1>. QED
  BY <1>5 DEF f

(* A list that names nobody twice is as long as the set it names.            *)
LEMMA InjectiveLength ==
    ASSUME NEW T, NEW q \in Seq(T), IsInjective(q)
    PROVE  IsFiniteSet(Range(q)) /\ Cardinality(Range(q)) = Len(q)
<1>1. PICK n \in Nat : n = Len(q) /\ DOMAIN q = 1 .. n
  OBVIOUS
<1>2. q \in Bijection(1 .. n, Range(q))
  BY <1>1 DEF Bijection, Injection, Surjection, IsInjective, Range
<1>3. ExistsBijection(1 .. n, Range(q))
  BY <1>2 DEF ExistsBijection
<1>4. IsFiniteSet(1 .. n) /\ Cardinality(1 .. n) = n
  BY FS_Interval
<1>. QED
  BY <1>1, <1>3, <1>4, FS_Bijection

LEMMA ConcatFacts ==
    ASSUME NEW T, NEW q \in Seq(T), NEW r \in Seq(T)
    PROVE  /\ q \o r \in Seq(T) /\ Len(q \o r) = Len(q) + Len(r)
           /\ \A i \in 1 .. Len(q) : (q \o r)[i] = q[i]
           /\ \A i \in 1 .. Len(r) : (q \o r)[Len(q) + i] = r[i]
           /\ Range(q \o r) = Range(q) \cup Range(r)
           /\ IsInjective(q) /\ IsInjective(r) /\ Range(q) \cap Range(r) = {}
                => IsInjective(q \o r)
<1> DEFINE u == q \o r
<1>1. PICK m \in Nat, n \in Nat : m = Len(q) /\ n = Len(r)
  OBVIOUS
<1>2. u \in Seq(T) /\ Len(u) = m + n
  BY <1>1
<1>3. /\ \A i \in 1 .. m : u[i] = q[i]
      /\ \A i \in 1 .. n : u[m + i] = r[i]
  BY <1>1
<1>4. DOMAIN u = 1 .. m + n /\ DOMAIN q = 1 .. m /\ DOMAIN r = 1 .. n
  BY <1>1, <1>2
<1>. HIDE DEF u
<1>5. \A i \in 1 .. m + n : (i \in 1 .. m /\ u[i] = q[i])
                              \/ (i - m \in 1 .. n /\ u[i] = r[i - m])
  <2>. SUFFICES ASSUME NEW i \in 1 .. m + n, i \notin 1 .. m
                PROVE  i - m \in 1 .. n /\ u[i] = r[i - m]
    BY <1>3
  <2>1. i - m \in 1 .. n /\ m + (i - m) = i
    OBVIOUS
  <2>. QED
    BY <1>3, <2>1
<1>6. Range(u) = Range(q) \cup Range(r)
  <2>1. Range(u) \subseteq Range(q) \cup Range(r)
    BY <1>4, <1>5 DEF Range
  <2>2. Range(q) \subseteq Range(u)
    BY <1>3, <1>4 DEF Range
  <2>3. Range(r) \subseteq Range(u)
    <3>1. \A i \in 1 .. n : m + i \in 1 .. m + n
      OBVIOUS
    <3>. QED
      BY <1>3, <1>4, <3>1 DEF Range
  <2>. QED
    BY <2>1, <2>2, <2>3
<1>7. ASSUME IsInjective(q), IsInjective(r), Range(q) \cap Range(r) = {}
      PROVE  IsInjective(u)
  <2>. SUFFICES ASSUME NEW i \in 1 .. m + n, NEW j \in 1 .. m + n, u[i] = u[j] PROVE i = j
    BY <1>4 DEF IsInjective
  <2>1. /\ \A k \in 1 .. m : q[k] \in Range(q)
        /\ \A k \in 1 .. n : r[k] \in Range(r)
    BY <1>4 DEF Range
  <2>2. CASE i \in 1 .. m /\ j \in 1 .. m
    BY <1>3, <1>4, <1>7, <2>2 DEF IsInjective
  <2>3. CASE i - m \in 1 .. n /\ u[i] = r[i - m] /\ j - m \in 1 .. n /\ u[j] = r[j - m]
    <3>1. i - m = j - m
      BY <1>4, <1>7, <2>3 DEF IsInjective
    <3>. QED
      BY <3>1
  <2>4. CASE i \in 1 .. m /\ u[i] = q[i] /\ j - m \in 1 .. n /\ u[j] = r[j - m]
    BY <1>7, <2>1, <2>4
  <2>5. CASE i - m \in 1 .. n /\ u[i] = r[i - m] /\ j \in 1 .. m /\ u[j] = q[j]
    BY <1>7, <2>1, <2>5
  <2>. QED
    BY <1>5, <2>2, <2>3, <2>4, <2>5
<1>. QED
  BY <1>1, <1>2, <1>3, <1>6, <1>7 DEF u

(* The tail of a queue, and a request put before its head.                   *)
LEMMA FrontFacts ==
    ASSUME NEW T, NEW q \in Seq(T), q # <<>>, IsInjective(q)
    PROVE  /\ Last(q) \in T /\ Last(q) \in Range(q)
           /\ Front(q) \in Seq(T) /\ Len(Front(q)) = Len(q) - 1
           /\ IsInjective(Front(q)) /\ Range(Front(q)) = Range(q) \ {Last(q)}
<1>1. Last(q) = q[Len(q)] /\ Front(q) = DropLast(q)
  BY DEF Last, Front, DropLast
<1>. QED
  BY <1>1, DropLastFacts

LEMMA PrependFacts ==
    ASSUME NEW T, NEW q \in Seq(T), NEW x \in T
    PROVE  /\ <<x>> \o q \in Seq(T) /\ Len(<<x>> \o q) = Len(q) + 1
           /\ Range(<<x>> \o q) = Range(q) \cup {x}
           /\ IsInjective(q) /\ x \notin Range(q) => IsInjective(<<x>> \o q)
<1> DEFINE p == <<x>>
<1>1. p \in Seq(T) /\ Len(p) = 1 /\ Range(p) = {x} /\ IsInjective(p)
  BY DEF Range, IsInjective
<1>. HIDE DEF p
<1>2. /\ p \o q \in Seq(T) /\ Len(p \o q) = Len(p) + Len(q)
      /\ \A i \in 1 .. Len(p) : (p \o q)[i] = p[i]
      /\ \A i \in 1 .. Len(q) : (p \o q)[Len(p) + i] = q[i]
      /\ Range(p \o q) = Range(p) \cup Range(q)
      /\ IsInjective(p) /\ IsInjective(q) /\ Range(p) \cap Range(q) = {} => IsInjective(p \o q)
  BY <1>1, ConcatFacts, Zenon
<1>3. Len(q) \in Nat
  OBVIOUS
<1>. QED
  BY <1>1, <1>2, <1>3 DEF p

-----------------------------------------------------------------------------
(* The invariant                                                           *)

Scheduling ==
    pc \in {"chunk", "commit", "admit", "freeze", "claim", "allocate", "decode"}
Processing == pc \in {"run", "sample", "stop", "advance"}
InBatch == Scheduling \/ Processing

(* Where the engine may be, and what it may be waiting for.                  *)
PhaseInv ==
    /\ pc \in {"commit", "admit"} => SameStep
    /\ pc \in {"freeze", "claim", "allocate"} => ~SameStep
    /\ pc \in {"idle", "preempt"} => step = EmptyStep
    /\ call.op = "claim" =>
        \/ pc = "admit" /\ call.seq = Last(step.admitted).seq
        \/ pc = "claim" /\ step.at > 1 /\ call.seq = step.admitted[step.at - 1].seq
    /\ call.op = "fill" =>
        \/ /\ pc \in {"commit", "allocate"}
           /\ step.prefill # <<>> /\ call.seq = step.prefill[Len(step.prefill)]
        \/ pc = "decode" /\ step.at > 1 /\ call.seq = step.decode[step.at - 1]
    /\ call.op = "release" =>
        \/ pc = "preempt" /\ status[call.seq] = "WAITING"
        \/ pc = "sample" /\ status[call.seq] = "FINISHED"

(* 1 if there is a chunked request, which counts as active.                  *)
Chunked == IF chunked_req = NoSeq THEN 0 ELSE 1

QueueInv ==
    /\ IsInjective(waiting) /\ IsInjective(running)
    /\ \A s \in Seqs : s \in Range(waiting) <=> status[s] = "WAITING"
    /\ \A s \in Range(running) : status[s] = "RUNNING"
    /\ chunked_req # NoSeq =>
        status[chunked_req] = "RUNNING" /\ chunked_req \notin Range(running)
    /\ \A s \in Seqs : status[s] = "RUNNING" =>
        s \in Range(running) \/ s = chunked_req \/ s \in Range(step.prefill)
    /\ Len(running) + Chunked <= MaxNumSeqs

(* The admitted requests that have been allocated are the first ones.       *)
Allocated ==
    IF pc = "admit" THEN Len(step.admitted) - 1
    ELSE IF pc \in {"freeze", "claim", "chunk"} THEN 0
    ELSE IF pc = "allocate" THEN step.at - 1
    ELSE Len(step.admitted)
ChunkWaits == pc \in {"freeze", "claim", "chunk"}
(* 1 if the chunk is in prefill.                                            *)
ChunkRows == IF step.chunk = NoSeq \/ ChunkWaits THEN 0 ELSE 1

AtInv ==
    /\ pc \in {"freeze", "chunk", "commit", "admit"} => step.at = 1
    /\ pc \in {"claim", "allocate"} => step.at \in 1 .. Len(step.admitted) + 1
    /\ pc = "decode" => step.at \in 1 .. Len(step.decode) + 1
    /\ pc = "sample" => step.at \in 1 .. Len(step.rows) + 1
    /\ pc = "stop" => step.at \in 1 .. Len(step.rows)
    /\ pc = "chunk" /\ SameStep => step.admitted = <<>>
    /\ pc = "admit" => step.admitted # <<>>

(* What is in the batch.                                                    *)
DecodeInv ==
    /\ Scheduling => step.decode = running
    /\ InBatch =>
        /\ IsInjective(step.decode)
        /\ \A s \in Range(step.decode) : s \in Range(running) \/ status[s] = "FINISHED"
        /\ Range(running) \subseteq Range(step.decode)
        /\ Len(running) <= Len(step.decode)
ChunkInv ==
    InBatch =>
        /\ step.chunk # NoSeq =>
            /\ step.chunk \in Seqs
            /\ \/ step.chunk = chunked_req
               \/ chunked_req = NoSeq /\ status[step.chunk] = "FINISHED"
            /\ step.chunk \notin Range(step.decode)
        /\ Scheduling => step.chunk \in {NoSeq, chunked_req}
        /\ step.chunk = NoSeq =>
            step.chunk_tokens = 0 /\ (chunked_req # NoSeq => step.admitted = <<>> /\ step.ranked = <<>>)
        /\ Scheduling => step.active = Len(running) + Chunked
        /\ Len(step.decode) + (IF step.chunk = NoSeq THEN 0 ELSE 1) + Len(step.admitted)
                <= MaxNumSeqs
        /\ Scheduling => step.active + Len(step.admitted) <= MaxNumSeqs
PrefillInv ==
    InBatch =>
        /\ Len(step.prefill) = ChunkRows + Allocated
        /\ ChunkRows = 1 => step.prefill[1] = step.chunk
        /\ \A i \in 1 .. Allocated : step.prefill[ChunkRows + i] = step.admitted[i].seq

(* The requests that are still to be admitted, and the admitted ones.       *)
RankedInv ==
    InBatch =>
        /\ IsInjective(step.ranked)
        /\ Scheduling => \A i \in DOMAIN step.ranked :
            /\ status[step.ranked[i]] = "WAITING"
            /\ \A j \in DOMAIN step.admitted : step.admitted[j].seq # step.ranked[i]
AdmittedInv ==
    InBatch =>
        /\ \A i, j \in DOMAIN step.admitted :
            i # j => step.admitted[i].seq # step.admitted[j].seq
        /\ \A i \in DOMAIN step.admitted :
            LET a == step.admitted[i] IN
            /\ a.new >= 1
            /\ Len(a.plan) * BlockSize + a.new <= SeqLen(a.seq)
            /\ a.seq \notin Range(step.decode) /\ a.seq # step.chunk
            /\ i > Allocated => status[a.seq] = "WAITING"
            /\ i <= Allocated => status[a.seq] \in {"RUNNING", "FINISHED"}

(* At most one row stops before the end of its sequence: the last prefill.   *)
PartialInv ==
    Scheduling \/ pc = "run" =>
        /\ \A i \in DOMAIN step.admitted : i < Len(step.admitted) \/ step.ranked # <<>> =>
            LET a == step.admitted[i] IN Len(a.plan) * BlockSize + a.new = SeqLen(a.seq)
        /\ step.chunk # NoSeq /\ (step.admitted # <<>> \/ step.ranked # <<>>) =>
            num_cached_tokens[step.chunk] + step.chunk_tokens = SeqLen(step.chunk)
LastPartialInv ==
    Processing => \A i \in 1 .. Len(step.prefill) - 1 :
        Unfinished(step.prefill[i]) =>
            ContextEnd(step.prefill[i]) >= num_prompt_tokens[step.prefill[i]]

(* s holds nothing.                                                         *)
Fresh(s) ==
    block_table[s] = <<>> /\ num_cached_tokens[s] = 0 /\ num_new_tokens[s] = 0
Releasing(s) == call.op = "release" /\ call.seq = s

(* The i-th admitted request holds its plan, or is about to.                 *)
Claimed(i) ==
    \/ pc = "admit" /\ i = Len(step.admitted)
    \/ pc = "claim" /\ i < step.at
    \/ pc \in {"chunk", "allocate"} /\ i > Allocated
HoldsPlan(a) ==
    /\ num_new_tokens[a.seq] = 0
    /\ num_cached_tokens[a.seq] = Len(block_table[a.seq]) * BlockSize
    /\ IF call.op = "claim" /\ call.seq = a.seq
         THEN Len(block_table[a.seq]) + Len(call.plan) = Len(a.plan)
         ELSE Len(block_table[a.seq]) = Len(a.plan)

HoldingInv ==
    /\ \A s \in Seqs : status[s] \in {"new", "FINISHED"} => Fresh(s) \/ Releasing(s)
    /\ \A s \in Seqs : status[s] = "WAITING" =>
        \/ Fresh(s) \/ Releasing(s)
        \/ \E i \in DOMAIN step.admitted : Claimed(i) /\ step.admitted[i].seq = s
    /\ Scheduling => \A i \in DOMAIN step.admitted :
        Claimed(i) => HoldsPlan(step.admitted[i])
    /\ \A s \in Seqs : status[s] = "RUNNING" =>
        block_table[s] # <<>> \/ (call.op = "fill" /\ call.seq = s)

(* The decode rows from here on are still to get their token.                *)
DecodeFrom ==
    IF pc = "decode" THEN step.at
    ELSE IF Scheduling THEN 1 ELSE Len(step.decode) + 1

TokensInv ==
    /\ \A s \in Seqs : num_prompt_tokens[s] <= SeqLen(s)
    /\ \A s \in Seqs : status[s] = "RUNNING" => num_cached_tokens[s] < SeqLen(s)
    /\ \A s \in Seqs : num_new_tokens[s] > 0 =>
        \/ s \in Range(step.prefill)
        \/ \E i \in DOMAIN step.decode : i < DecodeFrom /\ step.decode[i] = s
    /\ Scheduling \/ pc = "run" =>
        /\ \A i \in DOMAIN step.decode :
            i < DecodeFrom => num_new_tokens[step.decode[i]] = 1 /\ DecodeReady(step.decode[i])
        /\ \A i \in 1 .. Allocated :
            LET a == step.admitted[i] IN
            /\ num_new_tokens[a.seq] = a.new
            /\ num_cached_tokens[a.seq] = Len(a.plan) * BlockSize
        /\ step.chunk # NoSeq =>
            /\ step.chunk_tokens >= 1
            /\ num_cached_tokens[step.chunk] + step.chunk_tokens <= SeqLen(step.chunk)
            /\ ChunkRows = 1 => num_new_tokens[step.chunk] = step.chunk_tokens

(* postprocess() gives each row that reached its end one token.              *)
RowsLeft ==
    {i \in DOMAIN step.rows : IF pc = "stop" THEN i > step.at ELSE i >= step.at}
RowsInv ==
    pc \in {"sample", "stop", "advance"} =>
        /\ IsInjective(step.rows)
        /\ Range(step.rows) \subseteq Range(Scheduled)
        /\ pc = "stop" => status[step.rows[step.at]] = "RUNNING"
        /\ pc = "advance" => step.at > Len(step.rows)
        /\ \A i \in RowsLeft : status[step.rows[i]] = "RUNNING"
        /\ \A s \in Range(Scheduled) :
            \/ status[s] = "FINISHED"
            \/ status[s] = "RUNNING" /\ (ContextEnd(s) < SeqLen(s)
                                          \/ \E i \in RowsLeft : step.rows[i] = s)

(* The tokens that are planned for s and not given to it yet.                *)
Pending(s) ==
    IF ChunkWaits /\ s = step.chunk THEN step.chunk_tokens
    ELSE IF \E i \in DecodeFrom .. Len(step.decode) : step.decode[i] = s THEN 1
    ELSE IF \E i \in Allocated + 1 .. Len(step.admitted) : step.admitted[i].seq = s
      THEN step.admitted[CHOOSE i \in Allocated + 1 .. Len(step.admitted) :
                             step.admitted[i].seq = s].new
      ELSE 0
Coming == [s \in Seqs |-> num_new_tokens[s] + Pending(s)]
Need == [s \in Seqs |-> NumBlocksToAppend(s, Coming[s])]

(* The free blocks that will be claimed.                                    *)
Planned ==
    (IF call.op = "claim" THEN Range(call.plan) ELSE {})
        \cup UNION {Range(step.admitted[i].plan) : i \in {j \in DOMAIN step.admitted :
                        pc = "freeze" \/ (pc = "claim" /\ j >= step.at)}}
ToClaim == {b \in Planned : IsFree(b)}

BudgetInv ==
    Scheduling \/ pc = "run" =>
        /\ Total(Coming) + step.token_budget = MaxNumBatchedTokens
        /\ \A s \in Seqs : num_cached_tokens[s] + Coming[s] <= SeqLen(s)
ReserveInv ==
    Scheduling =>
        /\ Total(Need) + Cardinality(ToClaim)
               + (IF pc = "freeze" THEN step.free_budget ELSE 0) <= Len(free_block_ids)
        /\ pc \in {"commit", "admit"} \/ (pc = "chunk" /\ SameStep) =>
                step.reserved = DecodeBlocks

(* The plans of the snapshot that are not claimed yet.                       *)
PlansInv ==
    /\ pc = "freeze" => \A i \in DOMAIN step.ranked :
           PlanIsCurrent(step.ranked[i], step.initial[step.ranked[i]])
    /\ pc \in {"freeze", "claim"} => \A i \in DOMAIN step.admitted :
           pc = "freeze" \/ i >= step.at =>
               PlanIsCurrent(step.admitted[i].seq, step.admitted[i].plan)

SchedInv ==
    /\ EvictionInv /\ SchedTypeOK /\ PhaseInv /\ QueueInv /\ AtInv /\ DecodeInv
    /\ ChunkInv /\ PrefillInv /\ RankedInv /\ AdmittedInv /\ PartialInv
    /\ LastPartialInv /\ HoldingInv /\ TokensInv /\ RowsInv /\ BudgetInv /\ ReserveInv /\ PlansInv

-----------------------------------------------------------------------------
(* Between two batches                                                     *)

(* Nothing is claimed of a batch when there is none.                        *)
LEMMA NoBatch ==
    ASSUME pc' \in {"idle", "preempt", "raised"}
    PROVE  /\ DecodeInv' /\ ChunkInv' /\ PrefillInv' /\ RankedInv' /\ AdmittedInv'
           /\ PartialInv' /\ LastPartialInv' /\ RowsInv' /\ BudgetInv' /\ ReserveInv' /\ PlansInv'
           /\ ~Scheduling' /\ ~Processing'
<1>1. ~Scheduling' /\ ~Processing' /\ ~InBatch'
  BY DEF Scheduling, Processing, InBatch
<1>2. DecodeInv' /\ ChunkInv' /\ PrefillInv' /\ RankedInv' /\ AdmittedInv'
  BY <1>1 DEF InBatch, DecodeInv, ChunkInv, PrefillInv, RankedInv, AdmittedInv
<1>3. PartialInv' /\ LastPartialInv' /\ BudgetInv'
  BY <1>1 DEF PartialInv, LastPartialInv, BudgetInv
<1>4. RowsInv' /\ ReserveInv' /\ PlansInv'
  BY <1>1 DEF RowsInv, ReserveInv, PlansInv
<1>. QED
  BY <1>1, <1>2, <1>3, <1>4

(* A step that leaves the block manager alone.                              *)
LEMMA StillEviction ==
    ASSUME EvictionInv, UNCHANGED bmVars
    PROVE  EvictionInv' /\ TypeOK'
<1>1. EvictionInv'
  BY NextEviction
<1>. QED
  BY <1>1 DEF EvictionInv, CallsInv, CacheInv, PoolInv

LEMMA AddKeeps ==
    ASSUME SchedInv, NEW s \in Seqs, Add(s)
    PROVE  SchedInv'
<1>1. /\ pc = "idle" /\ pc' = "idle" /\ call = NoCall /\ UNCHANGED bmVars
      /\ status[s] = "new" /\ status' = [status EXCEPT ![s] = "WAITING"]
      /\ waiting' = Append(waiting, s)
      /\ UNCHANGED <<num_prompt_tokens, running, chunked_req, kv, step>>
  BY DEF Add, At
<1>a. /\ EvictionInv /\ SchedTypeOK /\ PhaseInv /\ QueueInv /\ AtInv /\ HoldingInv /\ TokensInv
      /\ step = EmptyStep
  BY <1>1 DEF SchedInv, PhaseInv
<1>b. call' = call /\ block_table' = block_table /\ num_cached_tokens' = num_cached_tokens
      /\ num_new_tokens' = num_new_tokens /\ token_ids' = token_ids
  BY <1>1 DEF bmVars, seqVars
<1>2. EvictionInv' /\ TypeOK'
  BY <1>1, <1>a, StillEviction
<1>3. status' \in [Seqs -> Statuses] /\ waiting' \in Seq(Seqs)
  BY <1>1, <1>a DEF SchedTypeOK, Statuses
<1>4. SchedTypeOK'
  BY <1>1, <1>2, <1>3, <1>a DEF SchedTypeOK
<1>5. /\ status'[s] = "WAITING" /\ \A q \in Seqs \ {s} : status'[q] = status[q]
      /\ status \in [Seqs -> Statuses]
  BY <1>1, <1>a DEF SchedTypeOK
<1>6. PhaseInv'
  BY <1>1, <1>a, <1>b DEF PhaseInv, NoCall
<1>7. QueueInv'
  <2>1. s \notin Range(waiting) /\ s \notin Range(running) /\ s # chunked_req
    <3>1. s # NoSeq
      BY SchedulerAssumption
    <3>. QED
      BY <1>1, <1>a, <3>1 DEF QueueInv
  <2>2. /\ IsInjective(waiting') /\ Range(waiting') = Range(waiting) \cup {s}
    BY <1>1, <1>a, <2>1, AppendFacts DEF SchedTypeOK, QueueInv
  <2>3. chunked_req \in Seqs \cup {NoSeq} /\ Range(running) \subseteq Seqs
    BY <1>a DEF SchedTypeOK, Range
  <2>. QED
    BY <1>1, <1>5, <1>a, <2>1, <2>2, <2>3 DEF QueueInv, Chunked
<1>8. AtInv'
  BY <1>1 DEF AtInv
<1>9. HoldingInv'
  <2>1. \A q \in Seqs : (Fresh(q) <=> Fresh(q)') /\ (Releasing(q) <=> Releasing(q)')
    BY <1>b DEF Fresh, Releasing
  <2>2. ~Scheduling' /\ \A i : ~Claimed(i)
    BY <1>1 DEF Scheduling, Claimed
  <2>. QED
    BY <1>1, <1>5, <1>a, <1>b, <2>1, <2>2 DEF HoldingInv
<1>10. TokensInv'
  BY <1>1, <1>5, <1>a, <1>b DEF TokensInv, DecodeFrom, Scheduling, SeqLen
<1>. QED
  BY <1>1, <1>2, <1>4, <1>6, <1>7, <1>8, <1>9, <1>10, NoBatch DEF SchedInv

(* The engine goes to a place outside the loops of a step, or an exception   *)
(* leaves it.                                                              *)
LEMMA LeavesKeep ==
    ASSUME SchedInv, call = NoCall, UNCHANGED <<bmVars, schedVars, step>>,
           \/ pc = "idle" /\ pc' = "preempt"
           \/ pc = "decode" /\ pc' = "raised"
    PROVE  SchedInv'
<1>1. /\ EvictionInv /\ SchedTypeOK /\ PhaseInv /\ QueueInv /\ AtInv /\ HoldingInv /\ TokensInv
  BY DEF SchedInv
<1>2. /\ UNCHANGED <<status, num_prompt_tokens, waiting, running, chunked_req, kv, step>>
      /\ UNCHANGED <<block_table, num_cached_tokens, num_new_tokens, token_ids, call>>
  BY DEF schedVars, bmVars, seqVars
<1>3. EvictionInv' /\ TypeOK'
  BY <1>1, StillEviction
<1>4. SchedTypeOK'
  BY <1>1, <1>2, <1>3 DEF SchedTypeOK, Phases
<1>5. PhaseInv'
  BY <1>1, <1>2 DEF PhaseInv, NoCall
<1>6. QueueInv'
  BY <1>1, <1>2 DEF QueueInv, Chunked
<1>7. AtInv'
  BY DEF AtInv
<1>8. HoldingInv'
  <2>1. \A q \in Seqs : (Fresh(q) <=> Fresh(q)') /\ (Releasing(q) <=> Releasing(q)')
    BY <1>2 DEF Fresh, Releasing
  <2>2. ~Scheduling' /\ \A i : ~Claimed(i)
    BY DEF Scheduling, Claimed
  <2>. QED
    BY <1>1, <1>2, <2>1, <2>2 DEF HoldingInv
<1>9. TokensInv'
  <2>1. PICK n \in Nat : n = Len(step.decode) /\ DOMAIN step.decode = 1 .. n
    BY <1>1 DEF SchedTypeOK, Step
  <2>2. ~Scheduling' /\ pc' # "decode" /\ pc' # "run" /\ DecodeFrom' = n + 1
    BY <1>2, <2>1 DEF Scheduling, DecodeFrom
  <2>3. ASSUME NEW q \in Seqs, num_new_tokens'[q] > 0
        PROVE  \/ q \in Range(step'.prefill)
               \/ \E i \in DOMAIN step'.decode : i < DecodeFrom' /\ step'.decode[i] = q
    <3>1. CASE q \in Range(step.prefill)
      BY <1>2, <3>1
    <3>2. CASE \E i \in DOMAIN step.decode : step.decode[i] = q
      BY <1>2, <2>1, <2>2, <3>2
    <3>. QED
      BY <1>1, <1>2, <2>3, <3>1, <3>2 DEF TokensInv
  <2>4. /\ \A q \in Seqs : num_prompt_tokens'[q] <= SeqLen(q)'
        /\ \A q \in Seqs : status'[q] = "RUNNING" => num_cached_tokens'[q] < SeqLen(q)'
    BY <1>1, <1>2 DEF TokensInv, SeqLen
  <2>. QED
    BY <2>2, <2>3, <2>4 DEF TokensInv
<1>. QED
  BY <1>3, <1>4, <1>5, <1>6, <1>7, <1>8, <1>9, NoBatch DEF SchedInv

LEMMA StutterKeeps ==
    ASSUME SchedInv, UNCHANGED vars
    PROVE  SchedInv'
<1>1. /\ EvictionInv /\ SchedTypeOK /\ PhaseInv /\ QueueInv /\ AtInv /\ DecodeInv
      /\ ChunkInv /\ PrefillInv /\ RankedInv /\ AdmittedInv /\ PartialInv
      /\ LastPartialInv /\ HoldingInv /\ TokensInv /\ RowsInv /\ BudgetInv /\ ReserveInv /\ PlansInv
  BY DEF SchedInv
<1>2. /\ UNCHANGED <<status, num_prompt_tokens, waiting, running, chunked_req, kv, pc, step>>
      /\ UNCHANGED <<block_table, num_cached_tokens, num_new_tokens, token_ids, call>>
      /\ UNCHANGED bmVars
      /\ UNCHANGED <<blocks, free_block_ids, used_block_ids, hash_to_block_id>>
  BY DEF vars, schedVars, bmVars, seqVars, poolVars
<1>3. EvictionInv' /\ TypeOK'
  BY <1>1, <1>2, StillEviction
<1>4. SchedTypeOK'
  BY <1>1, <1>2, <1>3 DEF SchedTypeOK
<1>5. /\ Scheduling' = Scheduling /\ Processing' = Processing /\ InBatch' = InBatch
      /\ Allocated' = Allocated /\ ChunkWaits' = ChunkWaits /\ ChunkRows' = ChunkRows
      /\ Chunked' = Chunked /\ DecodeFrom' = DecodeFrom
  BY <1>2 DEF Scheduling, Processing, InBatch, Allocated, ChunkWaits, ChunkRows, Chunked,
              DecodeFrom
<1>6. PhaseInv' /\ QueueInv' /\ AtInv'
  BY <1>1, <1>2, <1>5 DEF PhaseInv, QueueInv, AtInv
<1>7. DecodeInv' /\ ChunkInv' /\ PrefillInv'
  BY <1>1, <1>2, <1>5 DEF DecodeInv, ChunkInv, PrefillInv
<1>8. RankedInv' /\ AdmittedInv' /\ PartialInv' /\ LastPartialInv'
  BY <1>1, <1>2, <1>5 DEF RankedInv, AdmittedInv, PartialInv, LastPartialInv, SeqLen, Unfinished,
                          ContextEnd
<1>9. HoldingInv'
  BY <1>1, <1>2, <1>5 DEF HoldingInv, Fresh, Releasing, Claimed, HoldsPlan
<1>10. TokensInv'
  BY <1>1, <1>2, <1>5 DEF TokensInv, SeqLen, DecodeReady
<1>11. RowsInv'
  BY <1>1, <1>2, <1>5 DEF RowsInv, RowsLeft, Scheduled, ContextEnd, SeqLen
<1>12. Coming' = Coming
  BY <1>2, <1>5 DEF Coming, Pending
<1>13. Need' = Need /\ ToClaim' = ToClaim /\ DecodeBlocks' = DecodeBlocks
  BY <1>2, <1>12 DEF Need, ToClaim, Planned, IsFree, NumBlocksToAppend, DecodeBlocks, BlocksDue
<1>14. BudgetInv' /\ ReserveInv'
  BY <1>1, <1>2, <1>5, <1>12, <1>13 DEF BudgetInv, ReserveInv, Total, SeqLen
<1>15. PlansInv'
  <2>1. \A s, plan : PlanIsCurrent(s, plan)' = PlanIsCurrent(s, plan)
    BY <1>2 DEF PlanIsCurrent, ClaimedPrefixValid, Stores, BlockHash, SeqBlock, Prefix, LineageOf,
                TableAt, IsUsed, IsFree, SeqLen, NumSeqBlocks, Owner, OwnerIn, Resident
  <2>. QED
    BY <1>1, <1>2, <2>1 DEF PlansInv
<1>. QED
  BY <1>3, <1>4, <1>6, <1>7, <1>8, <1>9, <1>10, <1>11, <1>14, <1>15 DEF SchedInv

-----------------------------------------------------------------------------
(* From one loop of schedule() to the next                                 *)

LEMMA PhaseKeeps ==
    ASSUME SchedInv, call = NoCall, UNCHANGED <<bmVars, schedVars>>,
           step' \in Step,
           UNCHANGED <<step.decode, step.token_budget, step.free_budget, step.reserved,
                       step.chunk, step.chunk_tokens, step.ranked, step.initial, step.active,
                       step.admitted, step.prefill>>,
           Scheduling, Scheduling' \/ pc' = "run", pc' # "freeze", pc' \in Phases,
           Allocated' = Allocated, ChunkRows' = ChunkRows, DecodeFrom' = DecodeFrom,
           step.chunk # NoSeq => ChunkWaits' = ChunkWaits,
           \A i \in DOMAIN step.admitted : Claimed(i)' <=> Claimed(i),
           Planned' \subseteq Planned,
           PhaseInv', AtInv', LastPartialInv', PlansInv',
           pc' \in {"commit", "admit"} \/ (pc' = "chunk" /\ SameStep) =>
               step.reserved = DecodeBlocks
    PROVE  SchedInv'
<1>1. /\ EvictionInv /\ SchedTypeOK /\ PhaseInv /\ QueueInv /\ AtInv /\ DecodeInv
      /\ ChunkInv /\ PrefillInv /\ RankedInv /\ AdmittedInv /\ PartialInv /\ HoldingInv
      /\ TokensInv /\ RowsInv /\ BudgetInv /\ ReserveInv /\ PlansInv
  BY DEF SchedInv
<1>2. /\ UNCHANGED <<status, num_prompt_tokens, waiting, running, chunked_req, kv>>
      /\ UNCHANGED <<block_table, num_cached_tokens, num_new_tokens, token_ids, call>>
      /\ UNCHANGED bmVars
      /\ UNCHANGED <<blocks, free_block_ids, used_block_ids, hash_to_block_id>>
  BY DEF schedVars, bmVars, seqVars, poolVars
<1>3. EvictionInv' /\ TypeOK'
  BY <1>1, <1>2, StillEviction
<1>4. SchedTypeOK'
  BY <1>1, <1>2, <1>3 DEF SchedTypeOK
<1>5. InBatch /\ InBatch' /\ Chunked' = Chunked
  BY <1>2 DEF Processing, InBatch, Chunked
<1>6. QueueInv'
  BY <1>1, <1>2, <1>5 DEF QueueInv
<1>7. DecodeInv' /\ ChunkInv' /\ PrefillInv'
  BY <1>1, <1>2, <1>5 DEF DecodeInv, ChunkInv, PrefillInv
<1>8. RankedInv' /\ AdmittedInv' /\ PartialInv'
  BY <1>1, <1>2, <1>5 DEF RankedInv, AdmittedInv, PartialInv, SeqLen
<1>9. HoldingInv'
  <2>1. \A q \in Seqs : (Fresh(q)' <=> Fresh(q)) /\ (Releasing(q)' <=> Releasing(q))
    BY <1>2 DEF Fresh, Releasing
  <2>2. \A i \in DOMAIN step.admitted : HoldsPlan(step.admitted[i])' <=> HoldsPlan(step.admitted[i])
    BY <1>2 DEF HoldsPlan
  <2>. QED
    BY <1>1, <1>2, <2>1, <2>2 DEF HoldingInv
<1>10. TokensInv'
  BY <1>1, <1>2, <1>5 DEF TokensInv, SeqLen, DecodeReady
<1>11. RowsInv'
  BY DEF RowsInv, Scheduling
<1>12. Coming' = Coming
  <2>1. ASSUME NEW s \in Seqs PROVE Pending(s)' = Pending(s)
    <3>1. (ChunkWaits /\ s = step.chunk) <=> (ChunkWaits /\ s = step.chunk)'
      BY SchedulerAssumption
    <3>. QED
      BY <1>2, <3>1 DEF Pending
  <2>. QED
    BY <1>2, <2>1 DEF Coming
<1>13. Need' = Need /\ DecodeBlocks' = DecodeBlocks /\ ToClaim' \subseteq ToClaim
  BY <1>2, <1>12 DEF Need, ToClaim, IsFree, NumBlocksToAppend, DecodeBlocks, BlocksDue
<1>14. BudgetInv'
  BY <1>1, <1>2, <1>5, <1>12 DEF BudgetInv, Total, SeqLen
<1>15. ReserveInv'
  <2>1. Cardinality(ToClaim') <= Cardinality(ToClaim) /\ Cardinality(ToClaim') \in Nat
        /\ Cardinality(ToClaim) \in Nat
    <3>1. ToClaim \in SUBSET BlockIds /\ ToClaim' \in SUBSET ToClaim /\ IsFiniteSet(BlockIds)
      <4>1. ToClaim \subseteq Range(free_block_ids) /\ free_block_ids \in Seq(BlockIds)
        BY <1>1 DEF ToClaim, IsFree, SchedTypeOK, TypeOK
      <4>2. IsFiniteSet(BlockIds)
        BY BlockManagerAssumption, FS_Interval DEF BlockIds
      <4>. QED
        BY <1>13, <4>1, <4>2 DEF Range
    <3>. QED
      BY <3>1, FS_Subset, FS_CardinalityType
  <2>2. /\ Total(Need) \in Nat /\ step.free_budget \in Nat /\ Len(free_block_ids) \in Nat
        /\ free_block_ids' = free_block_ids /\ step'.reserved = step.reserved
    <3>1. Total(Need) \in Nat
      BY TotalType
    <3>2. step.free_budget \in Nat
      BY <1>1 DEF SchedTypeOK, Step
    <3>3. Len(free_block_ids) \in Nat
      BY <1>1 DEF SchedTypeOK, TypeOK
    <3>. QED
      BY <1>2, <3>1, <3>2, <3>3
  <2>3. Total(Need)' = Total(Need)
    BY <1>13 DEF Total
  <2>4. Total(Need) + Cardinality(ToClaim)
          + (IF pc = "freeze" THEN step.free_budget ELSE 0) <= Len(free_block_ids)
    BY <1>1 DEF ReserveInv
  <2>5. Total(Need) + Cardinality(ToClaim)' + 0 <= Len(free_block_ids)
    BY <2>1, <2>2, <2>4
  <2>. QED
    BY <1>13, <2>2, <2>3, <2>5 DEF ReserveInv
<1>. QED
  BY <1>3, <1>4, <1>6, <1>7, <1>8, <1>9, <1>10, <1>11, <1>14, <1>15 DEF SchedInv

LEMMA CommitEndKeeps ==
    ASSUME SchedInv, CommitEnd
    PROVE  SchedInv'
<1>1. /\ pc = "commit" /\ pc' = "decode" /\ call = NoCall
      /\ UNCHANGED <<bmVars, schedVars>> /\ step' = step
  BY DEF CommitEnd, At, Goto
<1>2. /\ SchedTypeOK /\ PhaseInv /\ AtInv /\ RowsInv /\ PlansInv
  BY DEF SchedInv
<1>3. call' = call /\ step \in Step
  BY <1>1, <1>2 DEF bmVars, SchedTypeOK
<1>4. step.at = 1 /\ Len(step.decode) \in Nat
  BY <1>1, <1>2, <1>3 DEF AtInv, Step
<1>5. Scheduling /\ Scheduling' /\ ~Processing'
  BY <1>1 DEF Scheduling, Processing
<1>6. Allocated' = Allocated /\ ChunkRows' = ChunkRows /\ DecodeFrom' = DecodeFrom
      /\ ChunkWaits' = ChunkWaits
  BY <1>1, <1>4, <1>5 DEF Allocated, ChunkRows, DecodeFrom, ChunkWaits
<1>7. \A i : Claimed(i)' <=> Claimed(i)
  BY <1>1 DEF Claimed
<1>8. Planned' \subseteq Planned
  BY <1>1, <1>3 DEF Planned
<1>9. PhaseInv' /\ PlansInv' /\ LastPartialInv'
  BY <1>1, <1>2, <1>3, <1>5 DEF PhaseInv, PlansInv, LastPartialInv, NoCall
<1>10. AtInv'
  BY <1>1, <1>4 DEF AtInv
<1>. QED
  BY <1>1, <1>3, <1>5, <1>6, <1>7, <1>8, <1>9, <1>10, PhaseKeeps DEF Phases

LEMMA FreezeEndKeeps ==
    ASSUME SchedInv, FreezeEnd
    PROVE  SchedInv'
<1>1. /\ pc = "freeze" /\ pc' = "claim" /\ call = NoCall
      /\ UNCHANGED <<bmVars, schedVars>> /\ step' = step
  BY DEF FreezeEnd, At, Goto
<1>2. /\ SchedTypeOK /\ PhaseInv /\ AtInv /\ RowsInv /\ PlansInv
  BY DEF SchedInv
<1>3. call' = call /\ step \in Step
  BY <1>1, <1>2 DEF bmVars, SchedTypeOK
<1>4. step.at = 1 /\ Len(step.decode) \in Nat /\ Len(step.admitted) \in Nat
      /\ DOMAIN step.admitted = 1 .. Len(step.admitted)
  BY <1>1, <1>2, <1>3 DEF AtInv, Step
<1>5. Scheduling /\ Scheduling' /\ ~Processing'
  BY <1>1 DEF Scheduling, Processing
<1>6. Allocated' = Allocated /\ ChunkRows' = ChunkRows /\ DecodeFrom' = DecodeFrom
      /\ ChunkWaits' = ChunkWaits
  BY <1>1, <1>4, <1>5 DEF Allocated, ChunkRows, DecodeFrom, ChunkWaits
<1>7. \A i \in DOMAIN step.admitted : Claimed(i)' <=> Claimed(i)
  BY <1>1, <1>4 DEF Claimed
<1>8. Planned' \subseteq Planned
  BY <1>1, <1>3, <1>4 DEF Planned
<1>9. PhaseInv' /\ LastPartialInv'
  BY <1>1, <1>2, <1>3, <1>5 DEF PhaseInv, LastPartialInv, NoCall
<1>10. AtInv'
  BY <1>1, <1>4 DEF AtInv
<1>11. PlansInv'
  <2>1. \A s, plan : PlanIsCurrent(s, plan)' = PlanIsCurrent(s, plan)
    BY <1>1 DEF PlanIsCurrent, ClaimedPrefixValid, Stores, BlockHash, SeqBlock, Prefix, LineageOf,
                TableAt, IsUsed, IsFree, SeqLen, NumSeqBlocks, Owner, OwnerIn, Resident,
                bmVars, poolVars, seqVars
  <2>. QED
    BY <1>1, <1>2, <2>1 DEF PlansInv
<1>. QED
  BY <1>1, <1>3, <1>5, <1>6, <1>7, <1>8, <1>9, <1>10, <1>11, PhaseKeeps DEF Phases

(* The loop over the frozen plans ends.                                     *)
LEMMA FrozenClaimEndKeeps ==
    ASSUME SchedInv, FrozenClaim, step.at > Len(step.admitted)
    PROVE  SchedInv'
<1>1. /\ pc = "claim" /\ pc' = "chunk" /\ call = NoCall
      /\ UNCHANGED <<bmVars, schedVars>> /\ step' = [step EXCEPT !.at = 1]
  BY DEF FrozenClaim, At, Goto
<1>2. /\ SchedTypeOK /\ PhaseInv /\ AtInv /\ RowsInv /\ PlansInv
  BY DEF SchedInv
<1>3. call' = call /\ step \in Step
  BY <1>1, <1>2 DEF bmVars, SchedTypeOK
<1>a. /\ step' \in Step /\ step'.at = 1
      /\ UNCHANGED <<step.decode, step.token_budget, step.free_budget, step.reserved,
                     step.chunk, step.chunk_tokens, step.ranked, step.initial, step.active,
                     step.admitted, step.prefill, step.rows>>
  BY <1>1, <1>3 DEF Step
<1>4. /\ Len(step.decode) \in Nat /\ Len(step.admitted) \in Nat /\ step.at \in Nat
      /\ DOMAIN step.admitted = 1 .. Len(step.admitted)
  BY <1>1, <1>2, <1>3 DEF Step
<1>5. Scheduling /\ Scheduling' /\ ~Processing'
  BY <1>1 DEF Scheduling, Processing
<1>6. Allocated' = Allocated /\ ChunkRows' = ChunkRows /\ DecodeFrom' = DecodeFrom
      /\ ChunkWaits' = ChunkWaits
  BY <1>1, <1>a, <1>4, <1>5 DEF Allocated, ChunkRows, DecodeFrom, ChunkWaits
<1>7. \A i \in DOMAIN step.admitted : Claimed(i)' <=> Claimed(i)
  BY <1>1, <1>a, <1>4 DEF Claimed, Allocated
<1>8. Planned' \subseteq Planned
  BY <1>1, <1>3, <1>a, <1>4 DEF Planned
<1>9. PhaseInv' /\ LastPartialInv' /\ PlansInv'
  BY <1>1, <1>2, <1>3, <1>5 DEF PhaseInv, LastPartialInv, NoCall, PlansInv
<1>10. AtInv'
  BY <1>1, <1>2, <1>a DEF AtInv, PhaseInv
<1>b. ~SameStep
  BY <1>1, <1>2 DEF PhaseInv
<1>. QED
  BY <1>1, <1>a, <1>5, <1>6, <1>7, <1>8, <1>9, <1>10, <1>b, PhaseKeeps DEF Phases

LEMMA FrozenAllocateEndKeeps ==
    ASSUME SchedInv, FrozenAllocate, step.at > Len(step.admitted)
    PROVE  SchedInv'
<1>1. /\ pc = "allocate" /\ pc' = "decode" /\ call = NoCall
      /\ UNCHANGED <<bmVars, schedVars>> /\ step' = [step EXCEPT !.at = 1]
  BY DEF FrozenAllocate, At, Goto
<1>2. /\ SchedTypeOK /\ PhaseInv /\ AtInv /\ RowsInv /\ PlansInv
  BY DEF SchedInv
<1>3. call' = call /\ step \in Step
  BY <1>1, <1>2 DEF bmVars, SchedTypeOK
<1>a. /\ step' \in Step /\ step'.at = 1
      /\ UNCHANGED <<step.decode, step.token_budget, step.free_budget, step.reserved,
                     step.chunk, step.chunk_tokens, step.ranked, step.initial, step.active,
                     step.admitted, step.prefill, step.rows>>
  BY <1>1, <1>3 DEF Step
<1>4. /\ Len(step.decode) \in Nat /\ Len(step.admitted) \in Nat /\ step.at \in Nat
      /\ DOMAIN step.admitted = 1 .. Len(step.admitted) /\ step.at = Len(step.admitted) + 1
  <2>1. /\ Len(step.decode) \in Nat /\ Len(step.admitted) \in Nat /\ step.at \in Nat
        /\ DOMAIN step.admitted = 1 .. Len(step.admitted)
    BY <1>3 DEF Step
  <2>2. step.at \in 1 .. Len(step.admitted) + 1
    BY <1>1, <1>2 DEF AtInv
  <2>. QED
    BY <2>1, <2>2
<1>5. Scheduling /\ Scheduling' /\ ~Processing'
  BY <1>1 DEF Scheduling, Processing
<1>6. Allocated' = Allocated /\ ChunkRows' = ChunkRows /\ DecodeFrom' = DecodeFrom
      /\ ChunkWaits' = ChunkWaits
  BY <1>1, <1>a, <1>4, <1>5 DEF Allocated, ChunkRows, DecodeFrom, ChunkWaits
<1>7. \A i \in DOMAIN step.admitted : Claimed(i)' <=> Claimed(i)
  BY <1>1, <1>a, <1>4 DEF Claimed, Allocated
<1>8. Planned' \subseteq Planned
  BY <1>1, <1>3, <1>a, <1>4 DEF Planned
<1>9. PhaseInv' /\ LastPartialInv' /\ PlansInv'
  BY <1>1, <1>2, <1>3, <1>5 DEF PhaseInv, LastPartialInv, NoCall, PlansInv
<1>10. AtInv'
  BY <1>1, <1>a, <1>4 DEF AtInv
<1>. QED
  BY <1>1, <1>a, <1>5, <1>6, <1>7, <1>8, <1>9, <1>10, PhaseKeeps DEF Phases

(* There is no chunk to append.                                             *)
LEMMA NoChunkKeeps ==
    ASSUME SchedInv, ChunkAppend, step.chunk = NoSeq
    PROVE  SchedInv'
<1>1. /\ pc = "chunk" /\ pc' = (IF SameStep THEN "commit" ELSE "allocate") /\ call = NoCall
      /\ UNCHANGED <<bmVars, schedVars>> /\ step' = step
  BY DEF ChunkAppend, At, Goto
<1>2. /\ SchedTypeOK /\ PhaseInv /\ AtInv /\ RowsInv /\ PlansInv /\ ReserveInv
  BY DEF SchedInv
<1>3. call' = call /\ step \in Step
  BY <1>1, <1>2 DEF bmVars, SchedTypeOK
<1>4. step.at = 1 /\ Len(step.decode) \in Nat /\ Len(step.admitted) \in Nat
      /\ DOMAIN step.admitted = 1 .. Len(step.admitted)
      /\ (SameStep => step.admitted = <<>>) /\ (SameStep => Len(step.admitted) = 0)
  <2>1. /\ Len(step.decode) \in Nat /\ Len(step.admitted) \in Nat
        /\ DOMAIN step.admitted = 1 .. Len(step.admitted)
    BY <1>3 DEF Step
  <2>2. step.at = 1 /\ (SameStep => step.admitted = <<>>)
    BY <1>1, <1>2 DEF AtInv
  <2>. QED
    BY <2>1, <2>2
<1>5. Scheduling /\ Scheduling' /\ ~Processing'
  BY <1>1 DEF Scheduling, Processing
<1>6. Allocated' = Allocated /\ ChunkRows' = ChunkRows /\ DecodeFrom' = DecodeFrom
  BY <1>1, <1>4, <1>5 DEF Allocated, ChunkRows, DecodeFrom
<1>7. \A i \in DOMAIN step.admitted : Claimed(i)' <=> Claimed(i)
  BY <1>1, <1>4 DEF Claimed, Allocated
<1>8. Planned' \subseteq Planned
  BY <1>1, <1>3 DEF Planned
<1>9. PhaseInv' /\ PlansInv' /\ LastPartialInv'
  BY <1>1, <1>2, <1>3, <1>5, SchedulerAssumption DEF PhaseInv, PlansInv, LastPartialInv, NoCall
<1>10. AtInv'
  BY <1>1, <1>4 DEF AtInv
<1>11. pc' \in {"commit", "admit"} => step.reserved = DecodeBlocks
  BY <1>1, <1>2, <1>5 DEF ReserveInv
<1>12. pc' \in {"commit", "allocate"}
  BY <1>1
<1>. QED
  BY <1>1, <1>3, <1>5, <1>6, <1>7, <1>8, <1>9, <1>10, <1>11, <1>12, PhaseKeeps DEF Phases

(* The types of what a batch is made of.                                    *)
LEMMA BatchTypes ==
    ASSUME SchedInv
    PROVE  /\ step \in Step /\ TypeOK
           /\ step.decode \in Seq(Seqs) /\ step.prefill \in Seq(Seqs)
           /\ step.ranked \in Seq(Seqs) /\ step.rows \in Seq(Seqs)
           /\ step.chunk \in Seqs \cup {NoSeq} /\ step.chunk_tokens \in Nat
           /\ step.token_budget \in Nat /\ step.free_budget \in Nat
           /\ step.at \in Nat /\ Len(step.admitted) \in Nat /\ Len(step.decode) \in Nat
           /\ Len(step.prefill) \in Nat /\ Len(step.rows) \in Nat
           /\ DOMAIN step.admitted = 1 .. Len(step.admitted)
           /\ DOMAIN step.prefill = 1 .. Len(step.prefill)
           /\ DOMAIN step.decode = 1 .. Len(step.decode)
           /\ \A i \in 1 .. Len(step.admitted) :
                /\ step.admitted[i].seq \in Seqs /\ step.admitted[i].new \in Nat
                /\ step.admitted[i].plan \in Seq(BlockIds)
                /\ Len(step.admitted[i].plan) \in Nat
           /\ Allocated \in 0 .. Len(step.admitted) /\ ChunkRows \in {0, 1}
           /\ status \in [Seqs -> Statuses] /\ num_prompt_tokens \in [Seqs -> 1 .. MaxLen]
           /\ waiting \in Seq(Seqs) /\ running \in Seq(Seqs)
           /\ chunked_req \in Seqs \cup {NoSeq} /\ NoSeq \notin Seqs
<1>1. SchedTypeOK /\ AtInv
  BY DEF SchedInv
<1>2. step \in Step /\ TypeOK
  BY <1>1 DEF SchedTypeOK
<1>3. /\ step.decode \in Seq(Seqs) /\ step.prefill \in Seq(Seqs)
      /\ step.ranked \in Seq(Seqs) /\ step.rows \in Seq(Seqs)
      /\ step.chunk \in Seqs \cup {NoSeq} /\ step.chunk_tokens \in Nat
      /\ step.token_budget \in Nat /\ step.free_budget \in Nat /\ step.at \in Nat
      /\ step.admitted \in Seq([seq : Seqs, plan : Seq(BlockIds), new : Nat])
  BY <1>2 DEF Step
<1>4. /\ Len(step.admitted) \in Nat /\ Len(step.decode) \in Nat
      /\ Len(step.prefill) \in Nat /\ Len(step.rows) \in Nat
      /\ DOMAIN step.admitted = 1 .. Len(step.admitted)
      /\ DOMAIN step.prefill = 1 .. Len(step.prefill)
      /\ DOMAIN step.decode = 1 .. Len(step.decode)
  BY <1>3
<1>5. ASSUME NEW i \in 1 .. Len(step.admitted)
      PROVE  /\ step.admitted[i].seq \in Seqs /\ step.admitted[i].new \in Nat
             /\ step.admitted[i].plan \in Seq(BlockIds) /\ Len(step.admitted[i].plan) \in Nat
  <2> DEFINE Admission == [seq : Seqs, plan : Seq(BlockIds), new : Nat]
  <2>2. step.admitted \in Seq(Admission)
    BY <1>3
  <2>. HIDE DEF Admission
  <2>3. step.admitted[i] \in Admission
    BY <2>2
  <2>1. step.admitted[i] \in [seq : Seqs, plan : Seq(BlockIds), new : Nat]
    BY <2>3 DEF Admission
  <2>. QED
    BY <2>1
<1>6. Allocated \in 0 .. Len(step.admitted)
  <2>1. CASE pc = "admit"
    <3>1. step.admitted # <<>>
      BY <1>1, <2>1 DEF AtInv
    <3>2. Len(step.admitted) # 0
      BY <1>3, <3>1
    <3>. QED
      BY <1>4, <2>1, <3>2 DEF Allocated
  <2>2. CASE pc = "allocate"
    <3>1. step.at \in 1 .. Len(step.admitted) + 1
      BY <1>1, <2>2 DEF AtInv
    <3>. QED
      BY <1>4, <2>2, <3>1 DEF Allocated
  <2>. QED
    BY <1>4, <2>1, <2>2 DEF Allocated
<1>7. ChunkRows \in {0, 1}
  BY DEF ChunkRows
<1>8. /\ status \in [Seqs -> Statuses] /\ num_prompt_tokens \in [Seqs -> 1 .. MaxLen]
      /\ waiting \in Seq(Seqs) /\ running \in Seq(Seqs)
      /\ chunked_req \in Seqs \cup {NoSeq} /\ NoSeq \notin Seqs
  BY <1>1, SchedulerAssumption DEF SchedTypeOK
<1>. QED
  BY <1>2, <1>3, <1>4, <1>5, <1>6, <1>7, <1>8

(* Granting an admission leaves prefill a sequence of requests.             *)
LEMMA PrefillGrows ==
    ASSUME SchedInv, NEW i \in 1 .. Len(step.admitted)
    PROVE  /\ step \in Step /\ step.admitted[i].seq \in Seqs
           /\ Append(step.prefill, step.admitted[i].seq) \in Seq(Seqs)
<1>1. /\ step \in Step /\ step.admitted[i].seq \in Seqs
      /\ step.prefill \in Seq(Seqs)
  BY BatchTypes
<1>. QED
  BY <1>1

(* Which rows are in prefill.                                               *)
LEMMA PrefillRows ==
    ASSUME SchedInv, InBatch
    PROVE  /\ \A i \in 1 .. Len(step.prefill) :
                \/ ChunkRows = 1 /\ i = 1 /\ step.prefill[i] = step.chunk
                   /\ step.chunk # NoSeq
                \/ i - ChunkRows \in 1 .. Allocated
                   /\ step.prefill[i] = step.admitted[i - ChunkRows].seq
           /\ IsInjective(step.prefill)
           /\ Range(step.prefill) \cap Range(step.decode) = {}
           /\ \A i \in 1 .. Allocated : step.admitted[i].seq \in Range(step.prefill)
           /\ ChunkRows = 1 => step.chunk \in Range(step.prefill)
<1>1. PrefillInv /\ AdmittedInv /\ ChunkInv
  BY DEF SchedInv
<1>2. PICK A \in Nat, N \in Nat, c \in {0, 1} :
        A = Allocated /\ N = Len(step.admitted) /\ c = ChunkRows /\ A <= N
  BY BatchTypes
<1>3. /\ Len(step.prefill) = c + A /\ (c = 1 => step.prefill[1] = step.chunk)
      /\ \A i \in 1 .. A : step.prefill[c + i] = step.admitted[i].seq
  BY <1>1, <1>2 DEF PrefillInv
<1>4. c = 1 => step.chunk # NoSeq
  BY <1>2 DEF ChunkRows
<1>5. \A i \in 1 .. c + A :
        \/ c = 1 /\ i = 1 /\ step.prefill[i] = step.chunk /\ step.chunk # NoSeq
        \/ i - c \in 1 .. A /\ step.prefill[i] = step.admitted[i - c].seq
  <2>. SUFFICES ASSUME NEW i \in 1 .. c + A, ~(c = 1 /\ i = 1)
                PROVE  i - c \in 1 .. A /\ step.prefill[i] = step.admitted[i - c].seq
    BY <1>3, <1>4
  <2>1. i - c \in 1 .. A /\ c + (i - c) = i
    OBVIOUS
  <2>. QED
    BY <1>3, <2>1
<1>6. /\ DOMAIN step.admitted = 1 .. N /\ DOMAIN step.prefill = 1 .. c + A
  BY <1>2, <1>3, BatchTypes
<1>7. /\ \A i, j \in 1 .. N : i # j => step.admitted[i].seq # step.admitted[j].seq
      /\ \A i \in 1 .. N :
            step.admitted[i].seq \notin Range(step.decode) /\ step.admitted[i].seq # step.chunk
      /\ step.chunk # NoSeq => step.chunk \notin Range(step.decode)
  BY <1>1, <1>6 DEF AdmittedInv, ChunkInv
<1>8. IsInjective(step.prefill)
  <2>. SUFFICES ASSUME NEW i \in 1 .. c + A, NEW j \in 1 .. c + A,
                       step.prefill[i] = step.prefill[j]
                PROVE  i = j
    BY <1>6 DEF IsInjective
  <2>1. CASE c = 1 /\ i = 1
    <3>1. ~(j - c \in 1 .. A /\ step.prefill[j] = step.admitted[j - c].seq)
      BY <1>2, <1>3, <1>7, <2>1
    <3>. QED
      BY <1>5, <2>1, <3>1
  <2>2. CASE c = 1 /\ j = 1
    <3>1. ~(i - c \in 1 .. A /\ step.prefill[i] = step.admitted[i - c].seq)
      BY <1>2, <1>3, <1>7, <2>2
    <3>. QED
      BY <1>5, <2>2, <3>1
  <2>3. CASE ~(c = 1 /\ i = 1) /\ ~(c = 1 /\ j = 1)
    <3>1. /\ i - c \in 1 .. A /\ step.prefill[i] = step.admitted[i - c].seq
          /\ j - c \in 1 .. A /\ step.prefill[j] = step.admitted[j - c].seq
      BY <1>5, <2>3
    <3>2. PICK x \in 1 .. A, y \in 1 .. A : x = i - c /\ y = j - c
      BY <3>1
    <3>3. x \in 1 .. N /\ y \in 1 .. N
      BY <1>2
    <3>5. /\ step.prefill[i] = step.admitted[x].seq /\ step.prefill[j] = step.admitted[y].seq
          /\ step.prefill[i] = step.prefill[j]
      BY <3>1, <3>2
    <3>4. x = y
      BY <1>7, <3>3, <3>5
    <3>. QED
      BY <3>2, <3>4
  <2>. QED
    BY <2>1, <2>2, <2>3
<1>9. Range(step.prefill) \cap Range(step.decode) = {}
  <2>. SUFFICES ASSUME NEW i \in 1 .. c + A PROVE step.prefill[i] \notin Range(step.decode)
    BY <1>6 DEF Range
  <2>1. CASE step.prefill[i] = step.chunk /\ step.chunk # NoSeq
    BY <1>7, <2>1
  <2>2. CASE i - c \in 1 .. A /\ step.prefill[i] = step.admitted[i - c].seq
    <3>1. i - c \in 1 .. N
      BY <1>2, <2>2
    <3>. QED
      BY <1>7, <2>2, <3>1
  <2>. QED
    BY <1>5, <2>1, <2>2
<1>10. \A i \in 1 .. A : step.admitted[i].seq \in Range(step.prefill)
  <2>1. \A i \in 1 .. A : c + i \in 1 .. c + A
    OBVIOUS
  <2>. QED
    BY <1>3, <1>6, <2>1 DEF Range
<1>11. c = 1 => step.chunk \in Range(step.prefill)
  BY <1>3, <1>6 DEF Range
<1>. QED
  BY <1>2, <1>3, <1>5, <1>8, <1>9, <1>10, <1>11

LEMMA ScheduleEndKeeps ==
    ASSUME SchedInv, ScheduleEnd
    PROVE  SchedInv'
<1>1. /\ pc = "decode" /\ pc' = "run" /\ call = NoCall /\ step.at > Len(step.decode)
      /\ UNCHANGED <<bmVars, schedVars>> /\ step' = step
  BY DEF ScheduleEnd, At, Goto
<1>2. /\ SchedTypeOK /\ PhaseInv /\ AtInv /\ PartialInv /\ TokensInv /\ AdmittedInv
  BY DEF SchedInv
<1>3. /\ call' = call /\ step \in Step
      /\ UNCHANGED <<status, num_prompt_tokens, num_cached_tokens, num_new_tokens, token_ids>>
  BY <1>1, <1>2 DEF bmVars, seqVars, schedVars, SchedTypeOK
<1>4. step.at = Len(step.decode) + 1
  <2>1. step.at \in 1 .. Len(step.decode) + 1 /\ Len(step.decode) \in Nat
    BY <1>1, <1>2, BatchTypes DEF AtInv
  <2>. QED
    BY <1>1, <2>1
<1>5. Scheduling /\ Processing' /\ ~Scheduling' /\ InBatch
  BY <1>1 DEF Scheduling, Processing, InBatch
<1>6. /\ Allocated' = Allocated /\ ChunkRows' = ChunkRows /\ DecodeFrom' = DecodeFrom
      /\ ChunkWaits' = ChunkWaits
  BY <1>1, <1>4, <1>5 DEF Allocated, ChunkRows, DecodeFrom, ChunkWaits
<1>7. \A i \in DOMAIN step.admitted : Claimed(i)' <=> Claimed(i)
  BY <1>1 DEF Claimed
<1>8. Planned' \subseteq Planned
  BY <1>1, <1>3 DEF Planned
<1>9. PhaseInv' /\ PlansInv' /\ AtInv'
  BY <1>1, <1>2, <1>3 DEF PhaseInv, PlansInv, NoCall, AtInv
<1>10. LastPartialInv'
  <2>. SUFFICES ASSUME NEW i \in 1 .. Len(step.prefill) - 1
                PROVE  ContextEnd(step.prefill[i]) >= num_prompt_tokens[step.prefill[i]]
    BY <1>1, <1>3 DEF LastPartialInv, Unfinished, ContextEnd
  <2>1. PICK N \in Nat, c \in {0, 1} :
            N = Len(step.admitted) /\ c = ChunkRows /\ Len(step.prefill) = c + N
    BY <1>1, <1>5, BatchTypes DEF SchedInv, PrefillInv, Allocated
  <2>2. Allocated = N /\ DOMAIN step.admitted = 1 .. N
    BY <1>1, <2>1, BatchTypes DEF Allocated
  <2>3. step.prefill[i] \in Seqs
    BY BatchTypes, <2>1
  <2>4. ContextEnd(step.prefill[i]) = SeqLen(step.prefill[i])
    <3>1. CASE c = 1 /\ i = 1 /\ step.prefill[i] = step.chunk /\ step.chunk # NoSeq
      <4>1. step.admitted # <<>>
        BY <2>1, <3>1
      <4>2. num_cached_tokens[step.chunk] + step.chunk_tokens = SeqLen(step.chunk)
        BY <1>2, <1>5, <3>1, <4>1 DEF PartialInv
      <4>3. num_new_tokens[step.chunk] = step.chunk_tokens
        BY <1>2, <1>5, <2>1, <3>1 DEF TokensInv
      <4>. QED
        BY <3>1, <4>2, <4>3 DEF ContextEnd
    <3>2. CASE i - c \in 1 .. N /\ step.prefill[i] = step.admitted[i - c].seq
      <4>1. PICK j \in 1 .. N : j = i - c /\ j < N
        BY <2>1, <3>2
      <4>2. PICK a : a = step.admitted[j] /\ step.prefill[i] = a.seq
        BY <3>2, <4>1
      <4>3. Len(a.plan) * BlockSize + a.new = SeqLen(a.seq)
        BY <1>2, <1>5, <2>1, <2>2, <4>1, <4>2 DEF PartialInv
      <4>4. num_new_tokens[a.seq] = a.new /\ num_cached_tokens[a.seq] = Len(a.plan) * BlockSize
        BY <1>2, <1>5, <2>2, <4>1, <4>2 DEF TokensInv
      <4>. QED
        BY <4>2, <4>3, <4>4 DEF ContextEnd
    <3>. QED
      BY <1>5, <2>1, <2>2, <3>1, <3>2, PrefillRows
  <2>5. num_prompt_tokens[step.prefill[i]] <= SeqLen(step.prefill[i])
    BY <1>2, <2>3 DEF TokensInv
  <2>6. num_prompt_tokens[step.prefill[i]] \in Nat /\ SeqLen(step.prefill[i]) \in Nat
    <3>1. num_prompt_tokens[step.prefill[i]] \in 1 .. MaxLen /\ MaxLen \in Nat
      BY <2>3, BatchTypes, BlockManagerAssumption
    <3>2. SeqLen(step.prefill[i]) \in 1 .. MaxLen
      BY <2>3, BatchTypes DEF TypeOK
    <3>. QED
      BY <3>1, <3>2
  <2>. QED
    BY <2>4, <2>5, <2>6
<1>. QED
  BY <1>1, <1>3, <1>5, <1>6, <1>7, <1>8, <1>9, <1>10, PhaseKeeps DEF Phases

-----------------------------------------------------------------------------
(* The iterations of the calls of BlockManager                             *)

(* What a step of a call leaves as it was.                                  *)
LEMMA CallFrame ==
    ASSUME SchedInv, BlockManagerStep
    PROVE  /\ EvictionInv' /\ SchedTypeOK' /\ QueueInv' /\ AtInv' /\ DecodeInv' /\ ChunkInv'
           /\ PrefillInv' /\ RankedInv' /\ AdmittedInv'
           /\ UNCHANGED <<status, num_prompt_tokens, waiting, running, chunked_req, pc, step,
                          token_ids>>
           /\ Scheduling' = Scheduling /\ Processing' = Processing /\ InBatch' = InBatch
           /\ Allocated' = Allocated /\ ChunkWaits' = ChunkWaits /\ ChunkRows' = ChunkRows
           /\ Chunked' = Chunked /\ DecodeFrom' = DecodeFrom
           /\ \A i : Claimed(i)' = Claimed(i)
           /\ \A s : SeqLen(s)' = SeqLen(s) /\ Pending(s)' = Pending(s)
<1>1. /\ EvictionInv /\ SchedTypeOK /\ QueueInv /\ AtInv /\ DecodeInv
      /\ ChunkInv /\ PrefillInv /\ RankedInv /\ AdmittedInv
  BY DEF SchedInv
<1>2. /\ CallStep
      /\ UNCHANGED <<status, num_prompt_tokens, waiting, running, chunked_req, kv, pc, step>>
  BY DEF BlockManagerStep, schedVars
<1>3. token_ids' = token_ids
  BY <1>2 DEF CallStep, ClaimBlock, FillBlock, ReleaseBlock
<1>4. EvictionInv'
  BY <1>1, <1>2, NextEviction DEF Next
<1>5. TypeOK'
  BY <1>4 DEF EvictionInv, CallsInv, CacheInv, PoolInv
<1>6. SchedTypeOK'
  BY <1>1, <1>2, <1>5 DEF SchedTypeOK
<1>7. /\ Scheduling' = Scheduling /\ Processing' = Processing /\ InBatch' = InBatch
      /\ Allocated' = Allocated /\ ChunkWaits' = ChunkWaits /\ ChunkRows' = ChunkRows
      /\ Chunked' = Chunked /\ DecodeFrom' = DecodeFrom
  BY <1>2 DEF Scheduling, Processing, InBatch, Allocated, ChunkWaits, ChunkRows, Chunked,
              DecodeFrom
<1>8. \A i : Claimed(i)' = Claimed(i)
  BY <1>2, <1>7 DEF Claimed
<1>9. \A s : SeqLen(s)' = SeqLen(s) /\ Pending(s)' = Pending(s)
  BY <1>2, <1>3, <1>7 DEF SeqLen, Pending
<1>10. QueueInv' /\ AtInv'
  BY <1>1, <1>2, <1>7 DEF QueueInv, AtInv
<1>11. DecodeInv' /\ ChunkInv' /\ PrefillInv'
  BY <1>1, <1>2, <1>7 DEF DecodeInv, ChunkInv, PrefillInv
<1>12. RankedInv' /\ AdmittedInv'
  BY <1>1, <1>2, <1>7, <1>9 DEF RankedInv, AdmittedInv
<1>. QED
  BY <1>2, <1>3, <1>4, <1>6, <1>7, <1>8, <1>9, <1>10, <1>11, <1>12

(* Whoever has tokens scheduled is running, unless it is being released.     *)
LEMMA ScheduledRuns ==
    ASSUME SchedInv, NEW s \in Seqs, num_new_tokens[s] > 0, ~Releasing(s)
    PROVE  status[s] = "RUNNING"
<1>1. HoldingInv /\ status[s] \in Statuses
  BY BatchTypes DEF SchedInv
<1>2. ~Fresh(s)
  BY DEF Fresh
<1>3. ASSUME NEW i \in DOMAIN step.admitted, Claimed(i), step.admitted[i].seq = s PROVE FALSE
  <2>1. Scheduling
    BY <1>3 DEF Claimed, Scheduling
  <2>2. HoldsPlan(step.admitted[i])
    BY <1>1, <1>3, <2>1 DEF HoldingInv
  <2>. QED
    BY <1>3, <2>2 DEF HoldsPlan
<1>. QED
  BY <1>1, <1>2, <1>3 DEF HoldingInv, Statuses

LEMMA ReleaseKeeps ==
    ASSUME SchedInv, ReleaseBlock, BlockManagerStep
    PROVE  SchedInv'
<1>1. /\ PoolInv /\ TypeOK /\ PhaseInv /\ LastPartialInv /\ HoldingInv /\ TokensInv /\ RowsInv
  BY DEF SchedInv, EvictionInv, CallsInv, CacheInv, PoolInv
<1>2. PICK s \in Seqs :
        /\ call.op = "release" /\ call.seq = s
        /\ \A q \in Seqs \ {s} :
             block_table'[q] = block_table[q] /\ ContextEnd(q)' = ContextEnd(q)
        /\ \/ Len(block_table[s]) = 1 /\ call' = NoCall
           \/ Len(block_table[s]) # 1 /\ call' = call
  BY <1>1, ReleaseUnfolded
<1>3. /\ num_cached_tokens' = (IF Len(block_table[s]) = 1
                                 THEN [num_cached_tokens EXCEPT ![s] = 0] ELSE num_cached_tokens)
      /\ num_new_tokens' = (IF Len(block_table[s]) = 1
                                 THEN [num_new_tokens EXCEPT ![s] = 0] ELSE num_new_tokens)
      /\ block_table' = [block_table EXCEPT ![s] = SubSeq(@, 1, Len(block_table[s]) - 1)]
  BY <1>2 DEF ReleaseBlock
<1>4. /\ \A q \in Seqs \ {s} : /\ num_cached_tokens'[q] = num_cached_tokens[q]
                               /\ num_new_tokens'[q] = num_new_tokens[q]
      /\ num_cached_tokens'[s] \in {0, num_cached_tokens[s]}
      /\ num_new_tokens'[s] \in {0, num_new_tokens[s]}
  BY <1>1, <1>3 DEF TypeOK
<1>5. call' = NoCall => Fresh(s)'
  <2>1. SubSeq(block_table[s], 1, 0) = <<>>
    BY <1>1 DEF TypeOK
  <2>. SUFFICES ASSUME call' = NoCall PROVE Fresh(s)'
    OBVIOUS
  <2>2. Len(block_table[s]) = 1
    BY <1>2 DEF NoCall
  <2>3. block_table'[s] = SubSeq(block_table[s], 1, 0)
    BY <1>1, <1>3, <2>2 DEF TypeOK
  <2>4. num_cached_tokens'[s] = 0 /\ num_new_tokens'[s] = 0
    BY <1>1, <1>3, <2>2 DEF TypeOK
  <2>. QED
    BY <2>1, <2>3, <2>4 DEF Fresh
<1>6. status[s] \in {"WAITING", "FINISHED"} /\ pc \in {"preempt", "sample"}
  BY <1>1, <1>2 DEF PhaseInv
<1>7. \A q \in Seqs \ {s} : (Fresh(q)' <=> Fresh(q)) /\ ~Releasing(q)
  BY <1>2, <1>4 DEF Fresh, Releasing
<1>8. Fresh(s)' \/ Releasing(s)'
  BY <1>2, <1>5 DEF Releasing
<1>9. PhaseInv'
  BY <1>1, <1>2, CallFrame DEF PhaseInv, NoCall
<1>10. HoldingInv'
  <2>1. ~Scheduling' /\ \A i : ~Claimed(i)'
    BY <1>6, CallFrame DEF Scheduling, Claimed
  <2>2. \A i : ~Claimed(i)
    BY <1>6 DEF Claimed
  <2>3. \A q \in Seqs : status'[q] \in {"new", "FINISHED", "WAITING"} => Fresh(q)' \/ Releasing(q)'
    BY <1>1, <1>7, <1>8, <2>2, CallFrame DEF HoldingInv
  <2>4. \A q \in Seqs : status'[q] = "RUNNING" => block_table'[q] # <<>>
    BY <1>1, <1>2, <1>6, CallFrame DEF HoldingInv
  <2>. QED
    BY <2>1, <2>3, <2>4 DEF HoldingInv
<1>11. TokensInv'
  <2>1. \A q \in Seqs : num_prompt_tokens'[q] <= SeqLen(q)'
    BY <1>1, CallFrame DEF TokensInv
  <2>2. \A q \in Seqs : status'[q] = "RUNNING" => num_cached_tokens'[q] < SeqLen(q)'
    BY <1>1, <1>4, <1>6, CallFrame DEF TokensInv
  <2>3. \A q \in Seqs : num_new_tokens'[q] > 0 => num_new_tokens[q] > 0
    BY <1>4
  <2>4. ~Scheduling' /\ pc' # "run"
    BY <1>6, CallFrame DEF Scheduling
  <2>5. /\ step' = step /\ DecodeFrom' = DecodeFrom
    BY CallFrame
  <2>. QED
    BY <1>1, <2>1, <2>2, <2>3, <2>4, <2>5 DEF TokensInv
<1>12. LastPartialInv'
  <2>. SUFFICES ASSUME Processing, NEW i \in 1 .. Len(step.prefill) - 1,
                       NEW q, q = step.prefill[i], status[q] # "FINISHED"
                PROVE  ContextEnd(q)' >= num_prompt_tokens[q]
    BY CallFrame DEF LastPartialInv, Unfinished, ContextEnd
  <2>1. q \in Seqs
    BY BatchTypes
  <2>2. q # s
    BY <1>1, <1>2 DEF PhaseInv, Processing
  <2>3. ContextEnd(q) >= num_prompt_tokens[q]
    BY <1>1 DEF LastPartialInv, Unfinished
  <2>. QED
    BY <1>2, <2>1, <2>2, <2>3
<1>13. RowsInv'
  <2>1. Scheduled' = Scheduled /\ RowsLeft' = RowsLeft
    BY CallFrame DEF Scheduled, RowsLeft
  <2>2. \A q \in Range(Scheduled) : status[q] # "FINISHED" => q \in Seqs
    <3>1. Scheduled \in Seq(Seqs)
      BY BatchTypes DEF Scheduled
    <3>. QED
      BY <3>1 DEF Range
  <2>3. pc = "sample" => status[s] = "FINISHED"
    BY <1>1, <1>2 DEF PhaseInv
  <2>4. \A q \in Range(Scheduled) : pc = "sample" /\ status[q] # "FINISHED" =>
            ContextEnd(q)' = ContextEnd(q) /\ SeqLen(q)' = SeqLen(q)
    BY <1>2, <2>2, <2>3, CallFrame
  <2>. QED
    BY <1>1, <1>6, <2>1, <2>4, CallFrame DEF RowsInv
<1>14. PartialInv' /\ BudgetInv' /\ ReserveInv' /\ PlansInv'
  BY <1>6, CallFrame DEF PartialInv, BudgetInv, ReserveInv, PlansInv, Scheduling
<1>. QED
  BY <1>9, <1>10, <1>11, <1>12, <1>13, <1>14, CallFrame DEF SchedInv

-----------------------------------------------------------------------------
(* The blocks that are due                                                 *)

LEMMA CeilDivSmall ==
    ASSUME NEW n \in Nat, NEW d \in Nat \ {0}
    PROVE  CeilDiv(n, d) \in Nat /\ CeilDiv(n, d) <= n
<1>1. CeilDiv(n, d) \in Nat /\ (n < CeilDiv(n, d) => n * d < n)
  BY CeilDivFacts
<1>2. n <= n * d /\ n * d \in Nat
  BY MulFacts
<1>. QED
  BY <1>1, <1>2

LEMMA AppendType ==
    ASSUME TypeOK, NEW s \in Seqs, NEW n \in Nat, num_cached_tokens[s] + n <= SeqLen(s)
    PROVE  NumBlocksToAppend(s, n) \in 0 .. MaxLen
<1>1. PICK L \in Nat, c \in Nat, m \in 1 .. MaxLen :
        L = Len(block_table[s]) /\ c = num_cached_tokens[s] + n /\ m = SeqLen(s)
  BY DEF TypeOK
<1>2. MaxLen \in Nat /\ BlockSize \in Nat \ {0}
  BY BlockManagerAssumption
<1>3. PICK k \in Nat : k = CeilDiv(c, BlockSize) /\ k <= c
  BY <1>1, <1>2, CeilDivSmall
<1>4. NumBlocksToAppend(s, n) = IF k - L > 0 THEN k - L ELSE 0
  BY <1>1, <1>3 DEF NumBlocksToAppend
<1>. QED
  BY <1>1, <1>2, <1>3, <1>4

(* What is planned for a request and not given to it yet.                   *)
LEMMA PendingFacts ==
    ASSUME SchedInv, InBatch, NEW s \in Seqs
    PROVE  /\ Pending(s) \in Nat
           /\ ChunkWaits /\ s = step.chunk => Pending(s) = step.chunk_tokens
           /\ \A i \in DecodeFrom .. Len(step.decode) :
                i >= 1 /\ step.decode[i] = s => Pending(s) = 1
           /\ \A i \in Allocated + 1 .. Len(step.admitted) :
                step.admitted[i].seq = s => Pending(s) = step.admitted[i].new
           /\ \/ ChunkWaits /\ s = step.chunk
              \/ \E i \in DecodeFrom .. Len(step.decode) : step.decode[i] = s
              \/ \E i \in Allocated + 1 .. Len(step.admitted) : step.admitted[i].seq = s
              \/ Pending(s) = 0
<1>1. AdmittedInv /\ ChunkInv
  BY DEF SchedInv
<1>2. PICK A \in Nat, N \in Nat, D \in Nat :
        A = Allocated /\ N = Len(step.admitted) /\ A <= N /\ D = Len(step.decode)
  BY BatchTypes
<1>3. DecodeFrom \in Nat /\ DecodeFrom >= 1
  <2>1. CASE pc = "decode"
    <3>1. step.at \in 1 .. Len(step.decode) + 1
      BY <2>1 DEF SchedInv, AtInv
    <3>. QED
      BY <1>2, <2>1, <3>1 DEF DecodeFrom
  <2>2. CASE pc # "decode"
    BY <1>2, <2>2 DEF DecodeFrom
  <2>. QED
    BY <2>1, <2>2
<1>4. DOMAIN step.admitted = 1 .. N /\ DOMAIN step.decode = 1 .. D
  BY <1>2, BatchTypes
<1>5. /\ \A i, j \in 1 .. N : i # j => step.admitted[i].seq # step.admitted[j].seq
      /\ \A i \in 1 .. N :
            step.admitted[i].seq \notin Range(step.decode) /\ step.admitted[i].seq # step.chunk
      /\ s = step.chunk => s \notin Range(step.decode)
  BY <1>1, <1>4, BatchTypes DEF AdmittedInv, ChunkInv
<1>6. \A i \in 1 .. D : step.decode[i] \in Range(step.decode)
  BY <1>4 DEF Range
<1> DEFINE Todo(i) == i \in A + 1 .. N /\ step.admitted[i].seq = s
           Rest == \E i \in DecodeFrom .. D : step.decode[i] = s
           pick == CHOOSE i \in A + 1 .. N : step.admitted[i].seq = s
<1>7. Pending(s) = IF ChunkWaits /\ s = step.chunk THEN step.chunk_tokens
                   ELSE IF Rest THEN 1
                   ELSE IF \E i : Todo(i) THEN step.admitted[pick].new ELSE 0
  BY <1>2 DEF Pending
<1>8. \A i : Todo(i) => pick = i /\ i \in 1 .. N
  <2>. SUFFICES ASSUME NEW i, Todo(i) PROVE pick = i /\ i \in 1 .. N
    OBVIOUS
  <2>1. pick \in A + 1 .. N /\ step.admitted[pick].seq = s
    OBVIOUS
  <2>2. \A j \in A + 1 .. N : j \in 1 .. N
    OBVIOUS
  <2>3. pick \in 1 .. N /\ i \in 1 .. N /\ step.admitted[i].seq = step.admitted[pick].seq
    BY <2>1, <2>2
  <2>. QED
    BY <1>5, <2>3
<1>. HIDE DEF pick
<1>9. \A i : Todo(i) => /\ s \notin Range(step.decode) /\ s # step.chunk
                        /\ step.admitted[i].new \in Nat
  BY <1>2, <1>5, <1>8, BatchTypes
<1>10. \A i \in DecodeFrom .. D : i >= 1 /\ step.decode[i] = s => s # step.chunk
  BY <1>3, <1>5, <1>6
<1>11. \A i \in A + 1 .. N : step.admitted[i].seq = s => Pending(s) = step.admitted[i].new
  <2>. SUFFICES ASSUME NEW i \in A + 1 .. N, Todo(i) PROVE Pending(s) = step.admitted[i].new
    OBVIOUS
  <2>1. pick = i /\ s \notin Range(step.decode) /\ s # step.chunk
    BY <1>8, <1>9
  <2>2. ~Rest
    <3>1. \A j \in DecodeFrom .. D : j \in 1 .. D
      BY <1>3
    <3>. QED
      BY <1>6, <2>1, <3>1
  <2>. QED
    BY <1>7, <2>1, <2>2
<1>12. Pending(s) \in Nat
  <2>1. step.chunk_tokens \in Nat
    BY BatchTypes
  <2>2. (\E i : Todo(i)) => step.admitted[pick].new \in Nat
    BY <1>8, <1>9
  <2>. QED
    BY <1>7, <2>1, <2>2
<1>. QED
  BY <1>2, <1>7, <1>10, <1>11, <1>12

LEMMA NeedTypes ==
    ASSUME SchedInv, Scheduling \/ pc = "run"
    PROVE  /\ Coming \in [Seqs -> 0 .. MaxLen] /\ Need \in [Seqs -> 0 .. MaxLen]
           /\ \A s \in Seqs :
                /\ Coming[s] = num_new_tokens[s] + Pending(s)
                /\ Need[s] = NumBlocksToAppend(s, Coming[s])
                /\ num_cached_tokens[s] + Coming[s] <= SeqLen(s)
<1>1. InBatch
  BY DEF InBatch, Processing
<1>2. TypeOK /\ BudgetInv
  BY BatchTypes DEF SchedInv
<1>3. ASSUME NEW s \in Seqs
      PROVE  /\ Coming[s] = num_new_tokens[s] + Pending(s)
             /\ num_cached_tokens[s] + Coming[s] <= SeqLen(s)
             /\ Coming[s] \in 0 .. MaxLen
  <2>1. Coming[s] = num_new_tokens[s] + Pending(s)
    BY DEF Coming
  <2>2. num_cached_tokens[s] + Coming[s] <= SeqLen(s)
    BY <1>2 DEF BudgetInv
  <2>3. /\ num_new_tokens[s] \in Nat /\ num_cached_tokens[s] \in Nat /\ Pending(s) \in Nat
        /\ SeqLen(s) \in 1 .. MaxLen /\ MaxLen \in Nat
    BY <1>1, <1>2, PendingFacts, BlockManagerAssumption DEF TypeOK
  <2>. QED
    BY <2>1, <2>2, <2>3
<1>4. Coming \in [Seqs -> 0 .. MaxLen]
  <2>1. Coming = [s \in Seqs |-> Coming[s]]
    BY DEF Coming
  <2>. QED
    BY <1>3, <2>1
<1>5. ASSUME NEW s \in Seqs
      PROVE  Need[s] = NumBlocksToAppend(s, Coming[s]) /\ Need[s] \in 0 .. MaxLen
  <2>1. Need[s] = NumBlocksToAppend(s, Coming[s])
    BY DEF Need
  <2>2. Coming[s] \in Nat
    BY <1>3
  <2>. QED
    BY <1>2, <1>3, <2>1, <2>2, AppendType
<1>6. Need \in [Seqs -> 0 .. MaxLen]
  <2>1. Need = [s \in Seqs |-> Need[s]]
    BY DEF Need
  <2>. QED
    BY <1>5, <2>1
<1>. QED
  BY <1>3, <1>4, <1>5, <1>6

(* The blocks that will be claimed are free ones.                           *)
LEMMA ToClaimFinite ==
    ASSUME TypeOK
    PROVE  /\ ToClaim \subseteq BlockIds /\ IsFiniteSet(ToClaim)
           /\ Cardinality(ToClaim) \in Nat
<1>1. ToClaim \subseteq Range(free_block_ids) /\ free_block_ids \in Seq(BlockIds)
  BY DEF ToClaim, IsFree, TypeOK
<1>2. ToClaim \in SUBSET BlockIds
  BY <1>1 DEF Range
<1>3. IsFiniteSet(BlockIds)
  BY BlockManagerAssumption, FS_Interval DEF BlockIds
<1>. QED
  BY <1>2, <1>3, FS_Subset, FS_CardinalityType

(* A fill that takes a free block leaves one block less to take.             *)
LEMMA FillDue ==
    ASSUME TypeOK, NEW s \in Seqs, NEW n \in Nat, NEW k \in Nat \ {0},
           num_new_tokens[s] <= n, k = Len(block_table[s]) + 1,
           (k - 1) * BlockSize < ContextEnd(s),
           Len(block_table'[s]) = Len(block_table[s]) + 1,
           num_cached_tokens' = num_cached_tokens
    PROVE  NumBlocksToAppend(s, n)' = NumBlocksToAppend(s, n) - 1
<1>1. PICK L \in Nat, c \in Nat, m \in Nat :
        L = Len(block_table[s]) /\ c = num_cached_tokens[s] /\ m = num_new_tokens[s]
  BY DEF TypeOK
<1>2. BlockSize \in Nat \ {0}
  BY BlockManagerAssumption
<1>a. PICK t \in Nat : t = c + n
  BY <1>1
<1>3. PICK q \in Nat : q = CeilDiv(t, BlockSize)
  BY <1>2, CeilDivSmall
<1>4. (L + 1) <= q
  <2>1. PICK x \in Nat, y \in Nat : x = L * BlockSize /\ y = q * BlockSize
    BY <1>1, <1>2, <1>3, MulFacts
  <2>2. x < t
    <3>1. k - 1 = L
      BY <1>1
    <3>2. x < ContextEnd(s)
      BY <2>1, <3>1
    <3>3. ContextEnd(s) = c + m
      BY <1>1 DEF ContextEnd
    <3>. QED
      BY <1>1, <1>a, <3>2, <3>3
  <2>3. t <= y
    BY <1>2, <1>3, <2>1, CeilDivCovers
  <2>4. q <= L => y <= x
    BY <1>1, <1>2, <1>3, <2>1, MulFacts
  <2>. QED
    BY <1>1, <1>3, <2>1, <2>2, <2>3, <2>4
<1>5. NumBlocksToAppend(s, n) = IF q - L > 0 THEN q - L ELSE 0
  BY <1>1, <1>a, <1>3 DEF NumBlocksToAppend
<1>6. NumBlocksToAppend(s, n)' = IF q - (L + 1) > 0 THEN q - (L + 1) ELSE 0
  BY <1>1, <1>a, <1>3 DEF NumBlocksToAppend
<1>. QED
  BY <1>1, <1>3, <1>4, <1>5, <1>6

(* A claim brings as many tokens as it brings blocks.                       *)
LEMMA ClaimDue ==
    ASSUME TypeOK, NEW s \in Seqs, NEW n \in Nat,
           Len(block_table'[s]) = Len(block_table[s]) + 1,
           num_cached_tokens'[s] = num_cached_tokens[s] + BlockSize
    PROVE  NumBlocksToAppend(s, n)' = NumBlocksToAppend(s, n)
<1>1. PICK L \in Nat, c \in Nat :
        L = Len(block_table[s]) /\ c = num_cached_tokens[s]
  BY DEF TypeOK
<1>2. PICK B \in Nat \ {0} : B = BlockSize
  BY BlockManagerAssumption
<1>3. (c + B + n + B - 1) \div B = (c + n + B - 1) \div B + 1
  <2>1. PICK x \in Nat : x = c + n + B - 1
    BY <1>1, <1>2
  <2>2. c + B + n + B - 1 = x + B
    BY <1>1, <1>2, <2>1
  <2>3. (x + B) \div B = x \div B + 1
    BY <1>2, <2>1
  <2>. QED
    BY <2>1, <2>2, <2>3
<1>a. c + n \in Nat
  BY <1>1
<1>4. PICK q \in Nat : q = CeilDiv(c + n, B)
  BY <1>2, <1>a, CeilDivSmall
<1>5. CeilDiv(c + B + n, B) = q + 1
  BY <1>3, <1>4 DEF CeilDiv
<1>6. NumBlocksToAppend(s, n) = IF q - L > 0 THEN q - L ELSE 0
  BY <1>1, <1>2, <1>4 DEF NumBlocksToAppend
<1>7. NumBlocksToAppend(s, n)' = IF q + 1 - (L + 1) > 0 THEN q + 1 - (L + 1) ELSE 0
  BY <1>1, <1>2, <1>5 DEF NumBlocksToAppend
<1>. QED
  BY <1>1, <1>4, <1>6, <1>7

LEMMA FillKeeps ==
    ASSUME SchedInv, FillBlock, BlockManagerStep
    PROVE  SchedInv'
<1>1. /\ CacheInv /\ PoolInv /\ TypeOK /\ PhaseInv /\ LastPartialInv /\ PartialInv /\ HoldingInv
      /\ TokensInv /\ RowsInv /\ BudgetInv /\ ReserveInv /\ PlansInv /\ DecodeInv /\ FillInv
  BY DEF SchedInv, EvictionInv, CallsInv, CacheInv, PoolInv
<1>2. PICK s \in Seqs, k \in Nat \ {0}, b \in BlockIds :
        \E blk, map : FillStep(s, k, b, blk, map)
  BY <1>1, FillUnfolded
<1>3. /\ call.op = "fill" /\ call.seq = s /\ call.index = k
      /\ IF k <= Len(block_table[s])
           THEN block_table' = block_table
           ELSE /\ k = Len(block_table[s]) + 1
                /\ block_table' = [block_table EXCEPT ![s] = Append(@, b)]
      /\ \/ call' = [op |-> "fill", seq |-> s, index |-> k + 1] \/ call' = NoCall
      /\ UNCHANGED <<num_cached_tokens, num_new_tokens>>
  BY <1>2 DEF FillStep
<1>4. /\ block_table \in [Seqs -> Seq(BlockIds)] /\ Len(block_table[s]) \in Nat
      /\ free_block_ids \in Seq(BlockIds) /\ Len(free_block_ids) \in Nat
  BY <1>1 DEF TypeOK
<1>5. /\ \A q \in Seqs \ {s} : block_table'[q] = block_table[q]
      /\ block_table'[s] # <<>>
  BY <1>2, <1>3, <1>4
<1>6. /\ num_new_tokens[s] >= 1 /\ (k - 1) * BlockSize < ContextEnd(s)
  BY <1>1, <1>3 DEF FillInv
<1>7. \A q \in Seqs : ~Releasing(q) /\ ~Releasing(q)'
  BY <1>3 DEF Releasing, NoCall
<1>8. status[s] = "RUNNING"
  BY <1>1, <1>6, <1>7, ScheduledRuns DEF TypeOK
<1>9. pc \in {"commit", "allocate", "decode"} /\ Scheduling /\ ~Processing
  BY <1>1, <1>3 DEF PhaseInv, Scheduling, Processing
<1>10. PhaseInv'
  BY <1>1, <1>3, CallFrame DEF PhaseInv, NoCall
<1>11. PartialInv' /\ LastPartialInv'
  BY <1>1, <1>3, <1>9, CallFrame DEF PartialInv, LastPartialInv
<1>12. HoldingInv'
  <2>1. \A q \in Seqs \ {s} : Fresh(q)' <=> Fresh(q)
    BY <1>3, <1>5 DEF Fresh
  <2>2. \A q \in Seqs : status[q] \in {"new", "FINISHED"} => Fresh(q)'
    BY <1>1, <1>7, <1>8, <2>1 DEF HoldingInv
  <2>3. ASSUME NEW q \in Seqs, status[q] = "WAITING"
        PROVE  Fresh(q)' \/ \E i \in DOMAIN step.admitted : Claimed(i) /\ step.admitted[i].seq = q
    BY <1>1, <1>7, <1>8, <2>1, <2>3 DEF HoldingInv
  <2>4. ASSUME NEW i \in DOMAIN step.admitted, Claimed(i)
        PROVE  HoldsPlan(step.admitted[i])'
    <3>1. PICK a : a = step.admitted[i] /\ a.seq \in Seqs
      BY <2>4, BatchTypes
    <3>2. HoldsPlan(a)
      BY <1>1, <1>9, <2>4, <3>1 DEF HoldingInv
    <3>3. a.seq # s
      BY <1>6, <3>2 DEF HoldsPlan
    <3>5. block_table'[a.seq] = block_table[a.seq] /\ call'.op # "claim" /\ call.op # "claim"
      BY <1>3, <1>5, <3>1, <3>3 DEF NoCall
    <3>4. HoldsPlan(a)'
      BY <1>3, <3>2, <3>5 DEF HoldsPlan
    <3>. QED
      BY <3>1, <3>4, CallFrame
  <2>5. \A q \in Seqs : status[q] = "RUNNING" => block_table'[q] # <<>>
    BY <1>1, <1>3, <1>5 DEF HoldingInv
  <2>. QED
    BY <2>2, <2>3, <2>4, <2>5, CallFrame DEF HoldingInv
<1>13. TokensInv'
  BY <1>1, <1>3, CallFrame DEF TokensInv, DecodeReady
<1>14. RowsInv' /\ PlansInv'
  BY <1>9, CallFrame DEF RowsInv, PlansInv
<1>15. Coming' = Coming
  BY <1>3, CallFrame DEF Coming
<1>16. BudgetInv'
  BY <1>1, <1>3, <1>15, CallFrame DEF BudgetInv, Total
<1>17. ReserveInv'
  <2>1. Planned = {} /\ Planned' = {} /\ ToClaim = {} /\ ToClaim' = {}
    BY <1>3, <1>9, CallFrame DEF Planned, ToClaim, NoCall
  <2>2. Total(Need) + 0 <= Len(free_block_ids)
    <3>1. Total(Need) + Cardinality(ToClaim) + 0 <= Len(free_block_ids)
      BY <1>1, <1>9 DEF ReserveInv
    <3>2. Cardinality(ToClaim) = 0 /\ Total(Need) \in Nat
      BY <2>1, FS_EmptySet, TotalType
    <3>. QED
      BY <3>1, <3>2
  <2>3. PICK g : g = Need'
    OBVIOUS
  <2>4. \A q \in Seqs : g[q] = NumBlocksToAppend(q, Coming[q])'
    BY <1>15, <2>3 DEF Need
  <2>5. \A q \in Seqs \ {s} : g[q] = Need[q]
    <3>1. \A q \in Seqs \ {s} : \A n : NumBlocksToAppend(q, n)' = NumBlocksToAppend(q, n)
      BY <1>3, <1>5 DEF NumBlocksToAppend
    <3>. QED
      BY <1>15, <2>3, <3>1 DEF Need
  <2>6. Total(g) \in Nat /\ Total(g) <= Len(free_block_ids') /\ Len(free_block_ids') \in Nat
    <3>1. CASE k <= Len(block_table[s])
      <4>1. UNCHANGED <<free_block_ids, block_table>>
        BY <1>3, <3>1 DEF FillBlock
      <4>2. g = Need
        BY <1>3, <1>15, <2>3, <4>1 DEF Need, NumBlocksToAppend
      <4>. QED
        BY <1>4, <2>2, <4>1, <4>2, TotalType
    <3>2. CASE ~(k <= Len(block_table[s]))
      <4>1. free_block_ids' = RemoveFree(Head(free_block_ids)) /\ free_block_ids # <<>>
        BY <1>3, <3>2 DEF FillBlock, TakeFree, FillOk
      <4>2. IsFree(Head(free_block_ids))
        BY <1>1, <1>4, <4>1, TailFacts DEF IsFree, PoolInv, BlocksAccounted
      <4>3. Len(free_block_ids') = Len(free_block_ids) - 1
        BY <1>4, <4>1, <4>2, RemoveFreeLength
      <4>4. Len(block_table'[s]) = Len(block_table[s]) + 1 /\ k = Len(block_table[s]) + 1
        BY <1>3, <1>4, <3>2
      <4>5. /\ Need \in [Seqs -> 0 .. MaxLen] /\ MaxLen \in Nat
            /\ Coming[s] = num_new_tokens[s] + Pending(s) /\ Pending(s) \in Nat
            /\ Need[s] = NumBlocksToAppend(s, Coming[s])
        BY <1>9, NeedTypes, PendingFacts, BlockManagerAssumption DEF InBatch
      <4>6. num_new_tokens[s] <= Coming[s] /\ Coming[s] \in Nat
        BY <1>1, <4>5 DEF TypeOK
      <4>7. NumBlocksToAppend(s, Coming[s])' = NumBlocksToAppend(s, Coming[s]) - 1
        <5>1. PICK n \in Nat : n = Coming[s]
          BY <4>6
        <5>2. NumBlocksToAppend(s, n)' = NumBlocksToAppend(s, n) - 1
          BY <1>1, <1>3, <1>6, <4>4, <4>6, <5>1, FillDue
        <5>3. NumBlocksToAppend(s, Coming[s])' = NumBlocksToAppend(s, n)'
          BY <1>15, <5>1
        <5>. QED
          BY <5>1, <5>2, <5>3
      <4>8. g[s] = Need[s] - 1 /\ NumBlocksToAppend(s, Coming[s])' >= 0
        <5>1. NumBlocksToAppend(s, Coming[s])' >= 0
          <6>1. PICK n \in Nat : n = Coming[s]
            BY <4>6
          <6>2. NumBlocksToAppend(s, n)' >= 0
            <7>1. CeilDiv(num_cached_tokens[s] + n, BlockSize) \in Nat
              <8>1. num_cached_tokens[s] + n \in Nat
                BY <1>1, <6>1 DEF TypeOK
              <8>. QED
                BY <8>1, CeilDivSmall, BlockManagerAssumption
            <7>. QED
              BY <1>3, <1>4, <4>4, <7>1 DEF NumBlocksToAppend
          <6>. QED
            BY <1>15, <6>1, <6>2
        <5>. QED
          BY <2>4, <4>5, <4>7, <5>1
      <4>9. g \in [Seqs -> 0 .. MaxLen]
        <5>1. g[s] \in 0 .. MaxLen
          BY <2>4, <4>5, <4>7, <4>8
        <5>2. \A q \in Seqs : g[q] \in 0 .. MaxLen
          BY <2>5, <4>5, <5>1
        <5>3. g = [q \in Seqs |-> g[q]]
          BY <2>3 DEF Need
        <5>. QED
          BY <5>2, <5>3
      <4>10. Total(g) + Need[s] = Total(Need) + g[s]
        BY <2>5, <4>5, <4>9, TotalUpdate
      <4>11. Total(g) \in Nat /\ Total(Need) \in Nat /\ Need[s] \in Nat
        BY <4>5, TotalType
      <4>12. Total(g) = Total(Need) - 1
        BY <4>8, <4>10, <4>11
      <4>. QED
        BY <1>4, <2>2, <4>3, <4>11, <4>12
    <3>. QED
      BY <3>1, <3>2
  <2>7. Total(Need)' = Total(g)
    BY <2>3 DEF Total
  <2>8. pc = "commit" => DecodeBlocks' = DecodeBlocks
    <3>. SUFFICES ASSUME pc = "commit" PROVE DecodeBlocks' = DecodeBlocks
      OBVIOUS
    <3>1. s \in Range(step.prefill)
      <4>1. step.prefill # <<>> /\ s = step.prefill[Len(step.prefill)]
        BY <1>1, <1>3 DEF PhaseInv
      <4>2. DOMAIN step.prefill = 1 .. Len(step.prefill) /\ Len(step.prefill) \in DOMAIN step.prefill
        BY <4>1, BatchTypes
      <4>. QED
        BY <4>1, <4>2 DEF Range
    <3>2. s \notin Range(running)
      BY <1>1, <1>9, <3>1, PrefillRows DEF DecodeInv, InBatch
    <3>3. \A q \in Range(running) : q \in Seqs
      BY BatchTypes DEF Range
    <3>4. \A q \in Range(running) : NumBlocksToAppend(q, 1)' = NumBlocksToAppend(q, 1)
      BY <1>3, <1>5, <3>2, <3>3 DEF NumBlocksToAppend
    <3>5. running' = running
      BY CallFrame
    <3>6. [q \in Seqs |-> IF q \in Range(running) THEN NumBlocksToAppend(q, 1) ELSE 0]'
            = [q \in Seqs |-> IF q \in Range(running) THEN NumBlocksToAppend(q, 1) ELSE 0]
      BY <3>4, <3>5
    <3>. QED
      BY <3>6 DEF DecodeBlocks, BlocksDue, Total
  <2>9. Cardinality(ToClaim') = 0
    BY <2>1, FS_EmptySet
  <2>10. Total(Need)' + Cardinality(ToClaim)' + 0 <= Len(free_block_ids')
    BY <2>6, <2>7, <2>9
  <2>. QED
    BY <1>1, <1>9, <2>8, <2>10, CallFrame DEF ReserveInv
<1>. QED
  BY <1>10, <1>11, <1>12, <1>13, <1>14, <1>16, <1>17, CallFrame DEF SchedInv

(* The request whose plan is being claimed.                                 *)
LEMMA ClaimOf ==
    ASSUME SchedInv, call.op = "claim"
    PROVE  \E i \in 1 .. Len(step.admitted) :
             /\ call.seq = step.admitted[i].seq /\ Claimed(i) /\ i > Allocated
             /\ pc \in {"admit", "claim"}
             /\ pc = "admit" => i = Len(step.admitted)
             /\ pc = "claim" => i < step.at
<1>1. PhaseInv /\ AtInv
  BY DEF SchedInv
<1>2. PICK N \in Nat : N = Len(step.admitted)
  BY BatchTypes
<1>3. CASE pc = "admit" /\ call.seq = Last(step.admitted).seq
  <2>1. step.admitted # <<>> /\ N >= 1
    <3>1. step.admitted # <<>>
      BY <1>1, <1>3 DEF AtInv
    <3>2. Allocated \in 0 .. N /\ Allocated = N - 1
      BY <1>2, <1>3, BatchTypes DEF Allocated
    <3>. QED
      BY <3>1, <3>2
  <2>2. call.seq = step.admitted[N].seq
    BY <1>2, <1>3, <2>1 DEF Last
  <2>. QED
    BY <1>2, <1>3, <2>1, <2>2 DEF Claimed, Allocated
<1>4. CASE pc = "claim" /\ step.at > 1 /\ call.seq = step.admitted[step.at - 1].seq
  <2>1. step.at \in 1 .. N + 1
    BY <1>1, <1>2, <1>4 DEF AtInv
  <2>. QED
    BY <1>2, <1>4, <2>1 DEF Claimed, Allocated
<1>. QED
  BY <1>1, <1>3, <1>4 DEF PhaseInv

LEMMA ResidentAlways == EvictionInv => \A b \in BlockIds : Resident(b)
<1>. SUFFICES ASSUME EvictionInv PROVE \A b \in BlockIds : Resident(b)
  OBVIOUS
<1>1. BlocksAccounted
  BY DEF EvictionInv, CallsInv, CacheInv, PoolInv
<1>. QED
  BY <1>1, AllResident

(* A plan of a request that holds nothing stays current while the contents   *)
(* of the blocks stay.                                                     *)
LEMMA PlanKept ==
    ASSUME TypeOK, EvictionInv', SameContent, UNCHANGED <<token_ids, hash_to_block_id>>,
           NEW s \in Seqs, NEW plan \in Seq(BlockIds),
           block_table[s] = <<>>, block_table'[s] = <<>>, num_cached_tokens'[s] = 0,
           PlanIsCurrent(s, plan)
    PROVE  PlanIsCurrent(s, plan)'
<1>1. Len(block_table[s]) = 0 /\ Len(block_table'[s]) = 0 /\ Len(plan) \in Nat
      /\ BlockSize \in Nat
  BY BlockManagerAssumption
<1>2. \A b \in BlockIds : Resident(b)'
  <2>1. (\A b \in BlockIds : Resident(b))'
    BY ResidentAlways, PTL
  <2>. QED
    BY <2>1
<1>3. ClaimedPrefixValid(s)'
  BY <1>1 DEF ClaimedPrefixValid
<1> DEFINE Planned_(i) == IF i = 0 THEN None ELSE plan[i]
<1>4. \A i \in 1 .. Len(plan) :
        /\ i < NumSeqBlocks(s) /\ Owner(BlockHash(s, i)) = plan[i]
        /\ Stores(plan[i], s, i, Planned_(i - 1)) /\ plan[i] \in BlockIds
  BY <1>1 DEF PlanIsCurrent, TableAt
<1>5. \A i \in 1 .. Len(plan) :
        /\ (i < NumSeqBlocks(s))' /\ Owner(BlockHash(s, i))' = plan[i]
  BY <1>4 DEF NumSeqBlocks, SeqLen, Owner, OwnerIn, BlockHash, Prefix
<1>6. ASSUME NEW i \in 1 .. Len(plan)
      PROVE  Stores(plan[i], s, i, Planned_(i - 1))'
  <2>1. Planned_(i - 1) \in BlockIds \cup {None}
    <3>1. CASE i = 1
      BY <3>1
    <3>2. CASE i # 1
      <4>1. i - 1 \in 1 .. Len(plan) /\ i - 1 # 0
        BY <1>1, <3>2
      <4>. QED
        BY <1>4, <4>1
    <3>. QED
      BY <3>1, <3>2
  <2>2. PICK p : p = Planned_(i - 1)
    OBVIOUS
  <2>3. Stores(plan[i], s, i, p)'
    BY <1>4, <2>1, <2>2, StoresKept
  <2>. QED
    BY <2>2, <2>3
<1>7. \A i, j \in 1 .. Len(plan) : i # j => plan[i] # plan[j]
  BY DEF PlanIsCurrent
<1>. QED
  BY <1>1, <1>2, <1>3, <1>4, <1>5, <1>6, <1>7 DEF PlanIsCurrent, TableAt

LEMMA ClaimKeeps ==
    ASSUME SchedInv, ClaimBlock, BlockManagerStep
    PROVE  SchedInv'
<1>1. /\ CacheInv /\ PoolInv /\ TypeOK /\ BlocksAccounted /\ PhaseInv /\ PartialInv /\ HoldingInv
      /\ TokensInv /\ BudgetInv /\ ReserveInv /\ PlansInv /\ AdmittedInv /\ DecodeInv /\ ChunkInv
  BY DEF SchedInv, EvictionInv, CallsInv, CacheInv, PoolInv
<1>2. PICK s \in Seqs : \E plan, b : ClaimStep(s, plan, b)
  BY <1>1, ClaimUnfolded
<1>a. PICK plan, b : ClaimStep(s, plan, b)
  BY <1>2
<1>3. PICK L \in Nat, P \in Nat \ {0} : L = Len(block_table[s]) /\ P = Len(plan)
  BY <1>1, <1>a, ClaimPlace DEF TypeOK
<1>4. /\ SameContent /\ b \in BlockIds /\ b \in Range(plan)
      /\ Len(Tail(plan)) = P - 1 /\ Range(Tail(plan)) \subseteq Range(plan)
      /\ Len(block_table'[s]) = L + 1
      /\ \A q \in Seqs \ {s} : block_table'[q] = block_table[q]
      /\ num_cached_tokens'[s] = (L + 1) * BlockSize
  <2>1. b = plan[1] /\ DOMAIN plan = 1 .. P /\ DOMAIN Tail(plan) = 1 .. P - 1
        /\ \A i \in 1 .. P - 1 : Tail(plan)[i] = plan[i + 1] /\ i + 1 \in 1 .. P
    BY <1>1, <1>a, <1>3, ClaimPlace DEF ClaimStep
  <2>2. b \in Range(plan) /\ Range(Tail(plan)) \subseteq Range(plan)
    BY <1>3, <2>1 DEF Range
  <2>. QED
    BY <1>1, <1>a, <1>3, <2>2, ClaimPlace
<1>5. /\ call.op = "claim" /\ call.seq = s /\ call.plan = plan
      /\ \/ P = 1 /\ call' = NoCall
         \/ P > 1 /\ call' = [op |-> "claim", seq |-> s, plan |-> Tail(plan)]
      /\ UNCHANGED <<hash_to_block_id, token_ids, num_new_tokens, chain>>
      /\ \A q \in Seqs \ {s} : num_cached_tokens'[q] = num_cached_tokens[q]
      /\ num_cached_tokens'[s] = num_cached_tokens[s] + BlockSize
  <2>1. num_cached_tokens \in [Seqs -> Nat]
    BY <1>1 DEF TypeOK
  <2>. QED
    BY <1>a, <1>3, <2>1 DEF ClaimStep
<1>b. PICK N \in Nat : N = Len(step.admitted)
  BY BatchTypes
<1>6. PICK i0 \in 1 .. N :
        /\ N = Len(step.admitted) /\ s = step.admitted[i0].seq /\ Claimed(i0)
        /\ i0 > Allocated /\ pc \in {"admit", "claim"}
        /\ pc = "admit" => i0 = N
        /\ pc = "claim" => i0 < step.at
  BY <1>5, <1>b, ClaimOf
<1>7. /\ DOMAIN step.admitted = 1 .. N
      /\ \A i \in 1 .. N : i # i0 => step.admitted[i].seq # s
      /\ s \notin Range(step.decode) /\ s # step.chunk /\ status[s] = "WAITING"
      /\ Len(step.admitted[i0].plan) * BlockSize + step.admitted[i0].new <= SeqLen(s)
      /\ Scheduling /\ InBatch /\ ~Processing
  <2>1. Scheduling /\ InBatch /\ ~Processing
    BY <1>6 DEF Scheduling, InBatch, Processing
  <2>2. DOMAIN step.admitted = 1 .. N
    BY <1>6, BatchTypes
  <2>. QED
    BY <1>1, <1>6, <2>1, <2>2 DEF AdmittedInv
<1>8. HoldsPlan(step.admitted[i0]) /\ num_new_tokens[s] = 0
      /\ L + P = Len(step.admitted[i0].plan)
  BY <1>1, <1>3, <1>5, <1>6, <1>7 DEF HoldingInv, HoldsPlan
<1>9. \A q \in Seqs : ~Releasing(q) /\ ~Releasing(q)'
  BY <1>5 DEF Releasing, NoCall
<1>10. PhaseInv'
  BY <1>1, <1>5, CallFrame DEF PhaseInv, NoCall
<1>11. PartialInv' /\ LastPartialInv'
  <2>1. step.chunk # NoSeq => num_cached_tokens'[step.chunk] = num_cached_tokens[step.chunk]
    BY <1>5, <1>7, BatchTypes
  <2>. QED
    BY <1>1, <1>7, <2>1, CallFrame DEF PartialInv, LastPartialInv
<1>12. HoldingInv'
  <2>1. \A q \in Seqs \ {s} : Fresh(q)' <=> Fresh(q)
    BY <1>4, <1>5 DEF Fresh
  <2>2. \A q \in Seqs : status[q] \in {"new", "FINISHED"} => Fresh(q)'
    BY <1>1, <1>7, <1>9, <2>1 DEF HoldingInv
  <2>3. ASSUME NEW q \in Seqs, status[q] = "WAITING"
        PROVE  Fresh(q)' \/ \E i \in DOMAIN step.admitted : Claimed(i) /\ step.admitted[i].seq = q
    BY <1>1, <1>6, <1>7, <1>9, <2>1, <2>3 DEF HoldingInv
  <2>4. ASSUME NEW i \in DOMAIN step.admitted, Claimed(i)
        PROVE  HoldsPlan(step.admitted[i])'
    <3>1. PICK a : a = step.admitted[i] /\ a.seq \in Seqs /\ Len(a.plan) \in Nat
      BY <2>4, BatchTypes
    <3>2. HoldsPlan(a)
      BY <1>1, <1>7, <2>4, <3>1 DEF HoldingInv
    <3>3. CASE a.seq # s
      <4>1. block_table'[a.seq] = block_table[a.seq]
            /\ num_cached_tokens'[a.seq] = num_cached_tokens[a.seq]
        BY <1>4, <1>5, <3>1, <3>3
      <4>2. ~(call.op = "claim" /\ call.seq = a.seq) /\ ~(call'.op = "claim" /\ call'.seq = a.seq)
        BY <1>5, <3>3 DEF NoCall
      <4>3. HoldsPlan(a)'
        BY <1>5, <3>2, <4>1, <4>2 DEF HoldsPlan
      <4>. QED
        BY <3>1, <4>3, CallFrame
    <3>4. CASE a.seq = s
      <4>1. L + P = Len(a.plan)
        BY <1>3, <1>5, <3>2, <3>4 DEF HoldsPlan
      <4>2. IF call'.op = "claim" /\ call'.seq = s
              THEN L + 1 + Len(call'.plan) = Len(a.plan) ELSE L + 1 = Len(a.plan)
        <5>1. CASE P = 1
          <6>1. call'.op # "claim"
            BY <1>5, <5>1 DEF NoCall
          <6>. QED
            BY <4>1, <5>1, <6>1
        <5>2. CASE P > 1
          <6>1. call'.op = "claim" /\ call'.seq = s /\ call'.plan = Tail(plan)
            BY <1>5, <5>2
          <6>2. PICK r : r = Tail(plan) /\ Len(r) = P - 1
            BY <1>4
          <6>3. L + 1 + Len(r) = Len(a.plan)
            <7>1. L + 1 + (P - 1) = L + P
              OBVIOUS
            <7>. QED
              BY <4>1, <6>2, <7>1
          <6>. QED
            BY <6>1, <6>2, <6>3
        <5>3. P = 1 \/ P > 1
          BY <1>3
        <5>. QED
          BY <5>1, <5>2, <5>3, Zenon
      <4>3. num_new_tokens'[s] = 0 /\ num_cached_tokens'[s] = Len(block_table'[s]) * BlockSize
        BY <1>4, <1>5, <1>8
      <4>4. HoldsPlan(a)'
        BY <1>4, <3>4, <4>2, <4>3 DEF HoldsPlan
      <4>. QED
        BY <3>1, <4>4, CallFrame
    <3>. QED
      BY <3>3, <3>4
  <2>5. \A q \in Seqs : status[q] = "RUNNING" => block_table'[q] # <<>>
    BY <1>1, <1>4, <1>5, <1>7 DEF HoldingInv
  <2>. QED
    BY <2>2, <2>3, <2>4, <2>5, CallFrame DEF HoldingInv
<1>13. TokensInv'
  <2>1. \A i \in 1 .. Allocated : step.admitted[i].seq \in Seqs \ {s}
    <3>1. PICK A \in 0 .. N : A = Allocated
      BY <1>6, BatchTypes
    <3>2. \A i \in 1 .. A : i \in 1 .. N /\ i # i0
      BY <1>6, <3>1
    <3>. QED
      BY <1>6, <1>7, <3>1, <3>2, BatchTypes
  <2>2. \A q \in Seqs : status[q] = "RUNNING" => num_cached_tokens'[q] = num_cached_tokens[q]
    BY <1>5, <1>7
  <2>3. step.chunk # NoSeq => num_cached_tokens'[step.chunk] = num_cached_tokens[step.chunk]
    BY <1>5, <1>7, BatchTypes
  <2>4. pc # "decode" /\ DecodeFrom = 1
    BY <1>6, <1>7 DEF DecodeFrom
  <2>5. \A i \in DOMAIN step.decode : ~(i < DecodeFrom)
    BY <2>4, BatchTypes
  <2>. QED
    BY <1>1, <1>5, <1>7, <2>1, <2>2, <2>3, <2>5, CallFrame DEF TokensInv
<1>14. RowsInv'
  BY <1>6, CallFrame DEF RowsInv
<1>15. Coming' = Coming /\ Coming[s] = step.admitted[i0].new
  <2>1. Pending(s) = step.admitted[i0].new
    <3>1. i0 \in Allocated + 1 .. Len(step.admitted)
      BY <1>6, BatchTypes
    <3>. QED
      BY <1>6, <1>7, <3>1, PendingFacts
  <2>2. step.admitted[i0].new \in Nat
    BY <1>6, BatchTypes
  <2>. QED
    BY <1>5, <1>8, <2>1, <2>2, CallFrame DEF Coming
<1>16. BudgetInv'
  <2>1. PICK n \in Nat, p \in Nat : n = step.admitted[i0].new /\ p = Len(step.admitted[i0].plan)
    BY <1>6, BatchTypes
  <2>2. PICK x \in Nat, y \in Nat : x = (L + 1) * BlockSize /\ y = p * BlockSize /\ x <= y
    <3>1. PICK m \in Nat : m = L + 1 /\ m <= p
      BY <1>8, <2>1
    <3>2. BlockSize \in Nat \ {0}
      BY BlockManagerAssumption
    <3>3. m * BlockSize \in Nat /\ p * BlockSize \in Nat /\ m * BlockSize <= p * BlockSize
      BY <2>1, <3>1, <3>2, MulFacts
    <3>. QED
      BY <3>1, <3>3
  <2>3. SeqLen(s) \in Nat
    BY <1>1, BlockManagerAssumption DEF TypeOK
  <2>4. num_cached_tokens'[s] + Coming[s] <= SeqLen(s)
    <3>1. num_cached_tokens'[s] = x /\ x <= y
      BY <1>4, <2>2
    <3>2. y + n <= SeqLen(s)
      BY <1>7, <2>1, <2>2
    <3>3. Coming[s] = n
      BY <1>15, <2>1
    <3>. QED
      BY <2>3, <3>1, <3>2, <3>3
  <2>5. \A q \in Seqs : num_cached_tokens'[q] + Coming[q] <= SeqLen(q)
    BY <1>1, <1>5, <1>7, <2>4 DEF BudgetInv
  <2>. QED
    BY <1>1, <1>7, <1>15, <2>5, CallFrame DEF BudgetInv, Total
<1>17. \A q \in Seqs, n \in Nat : q # s => NumBlocksToAppend(q, n)' = NumBlocksToAppend(q, n)
  BY <1>4, <1>5 DEF NumBlocksToAppend
<1>18. Need' = Need
  <2>1. \A q \in Seqs : Coming[q] \in Nat
    BY <1>7, NeedTypes
  <2>2. ASSUME NEW q \in Seqs PROVE NumBlocksToAppend(q, Coming[q])' = NumBlocksToAppend(q, Coming[q])
    <3>1. PICK n \in Nat : n = Coming[q]
      BY <2>1
    <3>2. NumBlocksToAppend(q, n)' = NumBlocksToAppend(q, n)
      <4>1. CASE q = s
        BY <1>1, <1>3, <1>4, <1>5, <4>1, ClaimDue
      <4>2. CASE q # s
        BY <1>17, <4>2
      <4>. QED
        BY <4>1, <4>2
    <3>. QED
      BY <1>15, <3>1, <3>2
  <2>. QED
    BY <1>15, <2>2 DEF Need
<1>19. DecodeBlocks' = DecodeBlocks
  <2>1. s \notin Range(running)
    BY <1>1, <1>7 DEF DecodeInv
  <2>2. \A q \in Range(running) : q \in Seqs
    BY BatchTypes DEF Range
  <2>3. \A q \in Range(running) : NumBlocksToAppend(q, 1)' = NumBlocksToAppend(q, 1)
    BY <1>17, <2>1, <2>2
  <2>4. running' = running
    BY CallFrame
  <2>5. [q \in Seqs |-> IF q \in Range(running) THEN NumBlocksToAppend(q, 1) ELSE 0]'
          = [q \in Seqs |-> IF q \in Range(running) THEN NumBlocksToAppend(q, 1) ELSE 0]
    BY <2>3, <2>4
  <2>. QED
    BY <2>5 DEF DecodeBlocks, BlocksDue, Total
<1>20. Planned' \subseteq Planned /\ b \in Planned
  <2> DEFINE Waits == UNION {Range(step.admitted[i].plan) : i \in {j \in DOMAIN step.admitted :
                        pc = "freeze" \/ (pc = "claim" /\ j >= step.at)}}
  <2>1. Planned = Range(plan) \cup Waits
    BY <1>5 DEF Planned
  <2>2. Waits' = Waits
    BY CallFrame
  <2>3. Planned' = (IF call'.op = "claim" THEN Range(call'.plan) ELSE {}) \cup Waits
    BY <2>2 DEF Planned
  <2>4. (IF call'.op = "claim" THEN Range(call'.plan) ELSE {}) \subseteq Range(plan)
    <3>1. CASE P = 1
      <4>1. call'.op # "claim"
        BY <1>5, <3>1 DEF NoCall
      <4>. QED
        BY <4>1
    <3>2. CASE P > 1
      <4>1. call'.op = "claim" /\ call'.plan = Tail(plan)
        BY <1>5, <3>2
      <4>. QED
        BY <1>4, <4>1
    <3>. QED
      BY <1>3, <3>1, <3>2
  <2>. HIDE DEF Waits
  <2>. QED
    BY <1>4, <2>1, <2>3, <2>4
<1>21. /\ Len(free_block_ids') \in Nat /\ Len(free_block_ids) \in Nat
       /\ Cardinality(ToClaim') \in Nat /\ Cardinality(ToClaim) \in Nat
       /\ Len(free_block_ids) - Cardinality(ToClaim) <= Len(free_block_ids') - Cardinality(ToClaim')
  <2>1. /\ IsFiniteSet(ToClaim) /\ Cardinality(ToClaim) \in Nat
        /\ free_block_ids \in Seq(BlockIds) /\ Len(free_block_ids) \in Nat
    BY <1>1, ToClaimFinite DEF TypeOK
  <2>2. CASE IsFree(b)
    <3>1. free_block_ids' = RemoveFree(b)
      BY <1>5, <2>2, <1>a DEF ClaimBlock, ClaimStep, TakeFree
    <3>2. Range(free_block_ids') = Range(free_block_ids) \ {b}
          /\ Len(free_block_ids') = Len(free_block_ids) - 1 /\ Len(free_block_ids') \in Nat
      <4>1. free_block_ids' \in Seq(BlockIds)
        BY <1>1, <1>4, <2>2, <3>1, RemoveFreeFacts
      <4>. QED
        BY <1>1, <1>4, <2>1, <2>2, <3>1, <4>1, RemoveFreeFacts, RemoveFreeLength
    <3>3. ToClaim' \subseteq ToClaim \ {b} /\ b \in ToClaim
      BY <1>20, <2>2, <3>2 DEF ToClaim, IsFree
    <3>4. /\ Cardinality(ToClaim \ {b}) = Cardinality(ToClaim) - 1 /\ IsFiniteSet(ToClaim \ {b})
      BY <2>1, <3>3, FS_RemoveElement
    <3>5. Cardinality(ToClaim') <= Cardinality(ToClaim) - 1 /\ Cardinality(ToClaim') \in Nat
      BY <3>3, <3>4, FS_Subset, FS_CardinalityType
    <3>. QED
      BY <2>1, <3>2, <3>5
  <2>3. CASE ~IsFree(b)
    <3>1. free_block_ids' = free_block_ids
      BY <1>5, <2>3, <1>a DEF ClaimBlock, ClaimStep
    <3>2. ToClaim' \subseteq ToClaim
      BY <1>20, <3>1 DEF ToClaim, IsFree
    <3>3. Cardinality(ToClaim') <= Cardinality(ToClaim) /\ Cardinality(ToClaim') \in Nat
      BY <2>1, <3>2, FS_Subset, FS_CardinalityType
    <3>. QED
      BY <2>1, <3>1, <3>3
  <2>. QED
    BY <2>2, <2>3
<1>22. ReserveInv'
  <2>1. Total(Need)' = Total(Need) /\ Total(Need) \in Nat
    BY <1>18, TotalType DEF Total
  <2>2. Total(Need) + Cardinality(ToClaim) + 0 <= Len(free_block_ids)
    BY <1>1, <1>6, <1>7 DEF ReserveInv
  <2>3. Total(Need) + Cardinality(ToClaim)' + 0 <= Len(free_block_ids')
    BY <1>21, <2>1, <2>2
  <2>. QED
    BY <1>1, <1>6, <1>7, <1>19, <2>1, <2>3, CallFrame DEF ReserveInv
<1>23. PlansInv'
  <2>. SUFFICES ASSUME pc = "claim", NEW i \in DOMAIN step.admitted, i >= step.at,
                       NEW a, a = step.admitted[i]
                PROVE  PlanIsCurrent(a.seq, a.plan)'
    BY <1>6, CallFrame DEF PlansInv
  <2>1. PlanIsCurrent(a.seq, a.plan) /\ a.seq \in Seqs /\ a.plan \in Seq(BlockIds)
    BY <1>1, BatchTypes DEF PlansInv
  <2>2. i # i0 /\ step.at \in Nat /\ i \in 1 .. N
    BY <1>6, <1>7, BatchTypes
  <2>3. a.seq # s /\ ~Claimed(i) /\ status[a.seq] = "WAITING"
    <3>1. ~(i < step.at)
      BY <2>2
    <3>2. Allocated = 0
      BY DEF Allocated
    <3>. QED
      BY <1>1, <1>7, <2>2, <3>1, <3>2 DEF Claimed, AdmittedInv
  <2>4. Fresh(a.seq)
    <3>1. \A j \in 1 .. N : Claimed(j) => step.admitted[j].seq # a.seq
      BY <1>1, <1>7, <2>2, <2>3 DEF AdmittedInv
    <3>. QED
      BY <1>1, <1>7, <1>9, <2>1, <2>3, <3>1 DEF HoldingInv
  <2>5. block_table[a.seq] = <<>> /\ block_table'[a.seq] = <<>> /\ num_cached_tokens'[a.seq] = 0
    BY <1>4, <1>5, <2>1, <2>3, <2>4 DEF Fresh
  <2>6. EvictionInv'
    BY CallFrame
  <2>. QED
    BY <1>1, <1>4, <1>5, <2>1, <2>5, <2>6, PlanKept
<1>. QED
  BY <1>10, <1>11, <1>12, <1>13, <1>14, <1>16, <1>22, <1>23, CallFrame DEF SchedInv

-----------------------------------------------------------------------------
(* The calls schedule() makes                                              *)

LEMMA TotalBound ==
    ASSUME NEW f \in [Seqs -> 0 .. MaxLen], NEW s \in Seqs
    PROVE  f[s] <= Total(f) /\ Total(f) \in Nat /\ f[s] \in Nat
<1>1. PICK g : g = [f EXCEPT ![s] = 0]
  OBVIOUS
<1>2. MaxLen \in Nat
  BY BlockManagerAssumption
<1>3. /\ g \in [Seqs -> 0 .. MaxLen] /\ g[s] = 0 /\ \A q \in Seqs \ {s} : g[q] = f[q]
  BY <1>1, <1>2
<1>4. Total(g) + f[s] = Total(f) + g[s]
  BY <1>3, TotalUpdate
<1>5. Total(g) \in Nat /\ Total(f) \in Nat
  BY <1>3, TotalType
<1>. QED
  BY <1>2, <1>3, <1>4, <1>5

(* A request that is given what was planned for it may take it.              *)
LEMMA PlannedIsLegal ==
    ASSUME SchedInv, Scheduling, NEW s \in Seqs, NEW n \in Nat \ {0},
           num_new_tokens[s] = 0, Pending(s) = n, MayAppend(s, n) \/ AllocateNew(s, n)
    PROVE  Next /\ EvictionInv' /\ TypeOK'
<1>1. EvictionInv /\ TypeOK /\ ReserveInv
  BY BatchTypes DEF SchedInv
<1>2. /\ Coming[s] = n /\ Need[s] = NumBlocksToAppend(s, n)
      /\ num_cached_tokens[s] + n <= SeqLen(s)
      /\ Need \in [Seqs -> 0 .. MaxLen]
  BY NeedTypes
<1>3. NumBlocksToAppend(s, n) <= Len(free_block_ids)
  <2>1. Need[s] <= Total(Need) /\ Total(Need) \in Nat /\ Need[s] \in Nat
    BY <1>2, TotalBound
  <2>2. Cardinality(ToClaim) \in Nat /\ Len(free_block_ids) \in Nat /\ step.free_budget \in Nat
    <3>1. Cardinality(ToClaim) \in Nat /\ step.free_budget \in Nat
      BY <1>1, ToClaimFinite, BatchTypes
    <3>. QED
      BY <1>1, <3>1 DEF TypeOK
  <2>3. Total(Need) + Cardinality(ToClaim)
          + (IF pc = "freeze" THEN step.free_budget ELSE 0) <= Len(free_block_ids)
    BY <1>1 DEF ReserveInv
  <2>. QED
    BY <1>2, <2>1, <2>2, <2>3
<1>4. n \in 1 .. SeqLen(s) - num_cached_tokens[s]
  <2>1. SeqLen(s) \in Nat /\ num_cached_tokens[s] \in Nat
    BY <1>1, BlockManagerAssumption DEF TypeOK
  <2>. QED
    BY <1>2, <2>1
<1>5. CallFill(s)
  BY <1>3, <1>4 DEF CallFill
<1>6. Next
  BY <1>5 DEF Next, Call
<1>7. EvictionInv'
  BY <1>1, <1>6, NextEviction
<1>. QED
  BY <1>6, <1>7 DEF EvictionInv, CallsInv, CacheInv, PoolInv

(* The budgets do not see it: what was planned is given.                    *)
LEMMA PlannedIsGiven ==
    ASSUME SchedInv, Scheduling, Scheduling', pc # "freeze", pc' \notin {"freeze", "admit", "chunk"},
           NEW x \in Seqs, NEW n \in Nat, num_new_tokens[x] = 0,
           num_new_tokens' = [num_new_tokens EXCEPT ![x] = n],
           UNCHANGED <<num_cached_tokens, block_table, token_ids, free_block_ids, running,
                       step.token_budget, step.reserved>>,
           Pending(x) = n, Pending(x)' = 0, \A q \in Seqs \ {x} : Pending(q)' = Pending(q),
           Planned' \subseteq Planned,
           pc' = "commit" => step.reserved = DecodeBlocks
    PROVE  BudgetInv' /\ ReserveInv'
<1>1. TypeOK /\ BudgetInv /\ ReserveInv
  BY BatchTypes DEF SchedInv
<1>2. Coming' = Coming
  <2>1. num_new_tokens \in [Seqs -> Nat]
    BY <1>1 DEF TypeOK
  <2>2. /\ num_new_tokens'[x] = n /\ \A q \in Seqs \ {x} : num_new_tokens'[q] = num_new_tokens[q]
    BY <2>1
  <2>3. \A q \in Seqs : num_new_tokens'[q] + Pending(q)' = num_new_tokens[q] + Pending(q)
    BY <2>2
  <2>. QED
    BY <2>3 DEF Coming
<1>3. Need' = Need
  BY <1>2 DEF Need, NumBlocksToAppend
<1>4. DecodeBlocks' = DecodeBlocks
  BY DEF DecodeBlocks, BlocksDue, NumBlocksToAppend, Total
<1>5. BudgetInv'
  BY <1>1, <1>2 DEF BudgetInv, Total, SeqLen
<1>6. ReserveInv'
  <2>1. ToClaim' \subseteq ToClaim
    BY DEF ToClaim, IsFree
  <2>2. /\ Cardinality(ToClaim') <= Cardinality(ToClaim) /\ Cardinality(ToClaim') \in Nat
        /\ Cardinality(ToClaim) \in Nat
    BY <1>1, <2>1, ToClaimFinite, FS_Subset, FS_CardinalityType
  <2>a. Total(Need)' = Total(Need)
    BY <1>3 DEF Total
  <2>b. Total(Need) \in Nat
    BY TotalType
  <2>3. Total(Need)' = Total(Need) /\ Total(Need) \in Nat /\ Len(free_block_ids) \in Nat
    BY <1>1, <2>a, <2>b DEF TypeOK
  <2>4. Total(Need) + Cardinality(ToClaim) + 0 <= Len(free_block_ids)
    BY <1>1 DEF ReserveInv
  <2>5. Total(Need)' + Cardinality(ToClaim)' + 0 <= Len(free_block_ids')
    BY <2>2, <2>3, <2>4
  <2>. QED
    BY <1>4, <2>5 DEF ReserveInv
<1>. QED
  BY <1>5, <1>6

(* The chunk continues.                                                     *)
LEMMA ChunkKeeps ==
    ASSUME SchedInv, ChunkAppend, step.chunk # NoSeq
    PROVE  SchedInv' /\ Next
<1>1. /\ pc = "chunk" /\ pc' = (IF SameStep THEN "commit" ELSE "allocate") /\ call = NoCall
      /\ MayAppend(step.chunk, step.chunk_tokens)
      /\ step' = [step EXCEPT !.prefill = <<step.chunk>>]
      /\ UNCHANGED <<status, num_prompt_tokens, waiting, running, chunked_req, kv>>
  BY DEF ChunkAppend, At, Goto, schedVars
<1>2. /\ EvictionInv /\ SchedTypeOK /\ PhaseInv /\ QueueInv /\ AtInv /\ DecodeInv
      /\ ChunkInv /\ PrefillInv /\ RankedInv /\ AdmittedInv /\ PartialInv /\ HoldingInv
      /\ TokensInv /\ RowsInv /\ BudgetInv /\ ReserveInv /\ TypeOK
  BY BatchTypes DEF SchedInv
<1>3. PICK x \in Seqs, n \in Nat : x = step.chunk /\ n = step.chunk_tokens
  BY BatchTypes
<1>4. Scheduling /\ Scheduling' /\ InBatch /\ InBatch' /\ ~Processing /\ ~Processing'
  BY <1>1 DEF Scheduling, InBatch, Processing
<1>5. /\ x = chunked_req /\ status[x] = "RUNNING" /\ n >= 1
      /\ num_cached_tokens[x] + n <= SeqLen(x) /\ x \notin Range(step.decode)
  BY <1>2, <1>3, <1>4 DEF ChunkInv, QueueInv, TokensInv
<1>6. /\ step' \in Step /\ step'.prefill = <<x>> /\ pc' \in {"commit", "allocate"}
      /\ UNCHANGED <<step.decode, step.token_budget, step.free_budget, step.reserved,
                     step.chunk, step.chunk_tokens, step.ranked, step.initial, step.active,
                     step.admitted, step.rows, step.at>>
  <2>1. step \in Step
    BY BatchTypes
  <2>2. <<x>> \in Seq(Seqs)
    OBVIOUS
  <2>3. step' \in Step
    BY <1>1, <1>3, <2>1, <2>2 DEF Step
  <2>. QED
    BY <1>1, <1>3, <2>1, <2>3 DEF Step
<1>7. /\ num_new_tokens' = [num_new_tokens EXCEPT ![x] = n]
      /\ call' = [op |-> "fill", seq |-> x, index |-> (num_cached_tokens[x] \div BlockSize) + 1]
      /\ UNCHANGED <<poolVars, token_ids, block_table, num_cached_tokens, chain>>
      /\ UNCHANGED <<free_block_ids>>
      /\ MayAppend(x, n)
  BY <1>1, <1>3 DEF MayAppend, poolVars
<1>8. /\ step.at = 1 /\ Allocated = 0 /\ Allocated' = 0 /\ ChunkRows = 0 /\ ChunkRows' = 1
      /\ ChunkWaits /\ ~ChunkWaits' /\ DecodeFrom = 1 /\ DecodeFrom' = 1
      /\ (SameStep => step.admitted = <<>>)
  <2>1. step.at = 1 /\ (SameStep => step.admitted = <<>>)
    BY <1>1, <1>2 DEF AtInv
  <2>. QED
    BY <1>1, <1>4, <1>6, <2>1 DEF Allocated, ChunkRows, ChunkWaits, DecodeFrom
<1>9. step.prefill = <<>> /\ \A q \in Seqs : num_new_tokens[q] = 0
  <2>1. Len(step.prefill) = 0
    BY <1>2, <1>4, <1>8 DEF PrefillInv
  <2>2. step.prefill = <<>>
    BY <2>1, BatchTypes
  <2>3. ASSUME NEW q \in Seqs PROVE ~(num_new_tokens[q] > 0)
    <3>1. q \notin Range(step.prefill)
      BY <2>2 DEF Range
    <3>2. \A i \in DOMAIN step.decode : ~(i < DecodeFrom)
      BY <1>8, BatchTypes
    <3>. QED
      BY <1>2, <3>1, <3>2 DEF TokensInv
  <2>. QED
    BY <1>2, <2>2, <2>3 DEF TypeOK
<1>10. Pending(x) = n /\ Pending(x)' = 0 /\ \A q \in Seqs \ {x} : Pending(q)' = Pending(q)
  <2>1. Pending(x) = n
    BY <1>3, <1>8 DEF Pending
  <2>2. \A i \in 1 .. Len(step.admitted) : step.admitted[i].seq # x
    BY <1>2, <1>3, <1>4, BatchTypes DEF AdmittedInv
  <2>3. \A i \in 1 .. Len(step.decode) : step.decode[i] # x
    BY <1>5, BatchTypes DEF Range
  <2>4. Pending(x)' = 0
    BY <1>6, <1>8, <2>2, <2>3 DEF Pending
  <2>5. \A q \in Seqs \ {x} : Pending(q)' = Pending(q)
    BY <1>3, <1>6, <1>8 DEF Pending
  <2>. QED
    BY <2>1, <2>4, <2>5
<1>11. Next /\ EvictionInv' /\ TypeOK'
  BY <1>4, <1>5, <1>7, <1>9, <1>10, PlannedIsLegal
<1>12. SchedTypeOK'
  BY <1>1, <1>2, <1>6, <1>11 DEF SchedTypeOK, Phases
<1>13. PhaseInv' /\ AtInv'
  <2>1. AtInv'
    BY <1>1, <1>2, <1>6, <1>8, BatchTypes DEF AtInv
  <2>2. Len(step'.prefill) = 1 /\ step'.prefill[1] = x /\ step'.prefill # <<>>
    BY <1>6
  <2>3. PhaseInv'
    BY <1>1, <1>2, <1>7, <2>2 DEF PhaseInv
  <2>. QED
    BY <2>1, <2>3
<1>14. QueueInv'
  <2>1. \A q \in Seqs : q \notin Range(step.prefill)
    BY <1>9 DEF Range
  <2>. QED
    BY <1>1, <1>2, <2>1 DEF QueueInv, Chunked
<1>15. DecodeInv' /\ ChunkInv'
  BY <1>1, <1>2, <1>4, <1>6 DEF DecodeInv, ChunkInv, Chunked
<1>16. PrefillInv'
  BY <1>3, <1>6, <1>8 DEF PrefillInv
<1>17. RankedInv' /\ AdmittedInv' /\ PartialInv' /\ LastPartialInv'
  BY <1>1, <1>2, <1>4, <1>6, <1>7, <1>8 DEF RankedInv, AdmittedInv, PartialInv, LastPartialInv, SeqLen
<1>18. HoldingInv'
  <2>1. \A q \in Seqs \ {x} : Fresh(q)' <=> Fresh(q)
    BY <1>7, <1>2 DEF Fresh, TypeOK
  <2>2. \A q \in Seqs : ~Releasing(q) /\ ~Releasing(q)'
    BY <1>1, <1>7 DEF Releasing, NoCall
  <2>3. \A i \in DOMAIN step.admitted : Claimed(i)' <=> Claimed(i)
    BY <1>1, <1>6, <1>8, BatchTypes DEF Claimed
  <2>4. ASSUME NEW i \in DOMAIN step.admitted, Claimed(i)
        PROVE  HoldsPlan(step.admitted[i])'
    <3>1. PICK a : a = step.admitted[i] /\ a.seq \in Seqs \ {x}
      BY <1>2, <1>3, <1>4, BatchTypes DEF AdmittedInv
    <3>2. HoldsPlan(a)
      BY <1>2, <1>4, <2>4, <3>1 DEF HoldingInv
    <3>3. num_new_tokens'[a.seq] = num_new_tokens[a.seq]
      BY <1>2, <1>7, <3>1 DEF TypeOK
    <3>4. HoldsPlan(a)'
      BY <1>1, <1>7, <3>2, <3>3 DEF HoldsPlan, NoCall
    <3>. QED
      BY <1>6, <3>1, <3>4
  <2>5. /\ \A q \in Seqs : status[q] \in {"new", "FINISHED"} => Fresh(q)'
        /\ \A q \in Seqs : status[q] = "WAITING" =>
              Fresh(q)' \/ \E i \in DOMAIN step.admitted : Claimed(i) /\ step.admitted[i].seq = q
        /\ \A q \in Seqs : status[q] = "RUNNING" => block_table[q] # <<>>
    BY <1>1, <1>2, <1>5, <2>1, <2>2 DEF HoldingInv, NoCall
  <2>. QED
    BY <1>1, <1>4, <1>6, <1>7, <2>3, <2>4, <2>5 DEF HoldingInv
<1>19. TokensInv'
  <2>1. \A q \in Seqs : num_new_tokens'[q] > 0 => q \in Range(step'.prefill)
    <3>1. x \in Range(step'.prefill)
      BY <1>6 DEF Range
    <3>. QED
      BY <1>2, <1>7, <1>9, <3>1 DEF TypeOK
  <2>2. \A i \in DOMAIN step.decode : ~(i < 1)
    BY BatchTypes
  <2>3. num_new_tokens'[x] = n
    BY <1>2, <1>7 DEF TypeOK
  <2>. QED
    BY <1>1, <1>2, <1>3, <1>4, <1>6, <1>7, <1>8, <2>1, <2>2, <2>3 DEF TokensInv, SeqLen
<1>20. RowsInv' /\ PlansInv'
  BY <1>6 DEF RowsInv, PlansInv
<1>21. BudgetInv' /\ ReserveInv'
  <2>1. Planned' = {}
    BY <1>6, <1>7 DEF Planned
  <2>2. pc' = "commit" => step.reserved = DecodeBlocks
    BY <1>1, <1>2, <1>4 DEF ReserveInv
  <2>3. pc' \notin {"freeze", "admit", "chunk"} /\ pc # "freeze"
    BY <1>1, <1>6
  <2>4. UNCHANGED <<num_cached_tokens, block_table, token_ids, free_block_ids, running,
                       step.token_budget, step.reserved>>
    BY <1>1, <1>6, <1>7
  <2>. QED
    BY <1>4, <1>7, <1>9, <1>10, <2>1, <2>2, <2>3, <2>4, PlannedIsGiven
<1>. QED
  BY <1>11, <1>12, <1>13, <1>14, <1>15, <1>16, <1>17, <1>18, <1>19, <1>20, <1>21 DEF SchedInv

(* An admitted request is allocated.                                        *)
LEMMA AdmitKeeps ==
    ASSUME SchedInv, call = NoCall, NEW i \in 1 .. Len(step.admitted),
           i = Allocated + 1, Allocated' = i,
           \/ pc = "admit" /\ pc' = "commit"
           \/ pc = "allocate" /\ pc' = "allocate",
           Admit(step.admitted[i]), step' \in Step,
           step'.prefill = Append(step.prefill, step.admitted[i].seq),
           UNCHANGED <<step.decode, step.token_budget, step.free_budget, step.reserved,
                       step.chunk, step.chunk_tokens, step.ranked, step.initial, step.active,
                       step.admitted, step.rows>>,
           AtInv',
           \A j \in 1 .. Len(step.admitted) : Claimed(j)' <=> Claimed(j) /\ j # i
    PROVE  SchedInv' /\ Next
<1>1. /\ UNCHANGED <<num_prompt_tokens, running, chunked_req, kv>>
      /\ AllocateNew(step.admitted[i].seq, step.admitted[i].new)
      /\ status' = [status EXCEPT ![step.admitted[i].seq] = "RUNNING"]
      /\ waiting' = Removed(waiting, step.admitted[i].seq)
  BY DEF Admit
<1>2. /\ EvictionInv /\ SchedTypeOK /\ PhaseInv /\ QueueInv /\ AtInv /\ DecodeInv
      /\ ChunkInv /\ PrefillInv /\ RankedInv /\ AdmittedInv /\ PartialInv /\ HoldingInv
      /\ TokensInv /\ RowsInv /\ BudgetInv /\ ReserveInv /\ TypeOK
  BY BatchTypes DEF SchedInv
<1>3. PICK x \in Seqs, n \in Nat, m \in Nat :
        /\ x = step.admitted[i].seq /\ n = step.admitted[i].new /\ m = Len(step.admitted[i].plan)
  BY BatchTypes
<1>4. Scheduling /\ Scheduling' /\ InBatch /\ InBatch' /\ ~Processing /\ ~Processing'
  BY DEF Scheduling, InBatch, Processing
<1>a. PICK N \in Nat : N = Len(step.admitted) /\ DOMAIN step.admitted = 1 .. N
  BY BatchTypes
<1>b. /\ \A j \in 1 .. N : step.admitted[j].seq \in Seqs /\ step.admitted[j].new \in Nat
      /\ step.prefill \in Seq(Seqs) /\ Len(step.prefill) \in Nat /\ step.decode \in Seq(Seqs)
      /\ DOMAIN step.decode = 1 .. Len(step.decode) /\ Len(step.decode) \in Nat
  BY <1>a, BatchTypes
<1>5. /\ n >= 1 /\ m * BlockSize + n <= SeqLen(x) /\ x \notin Range(step.decode)
      /\ x # step.chunk /\ status[x] = "WAITING"
      /\ \A j \in 1 .. N : j # i => step.admitted[j].seq # x
  <2>1. Allocated \in 0 .. N
    BY <1>a, BatchTypes
  <2>2. i > Allocated
    BY <2>1
  <2>. QED
    BY <1>2, <1>3, <1>4, <1>a, <2>2 DEF AdmittedInv
<1>6. /\ num_new_tokens[x] = 0 /\ num_cached_tokens[x] = m * BlockSize
  <2>1. Claimed(i)
    <3>1. Allocated \in 0 .. N
      BY <1>a, BatchTypes
    <3>2. pc = "admit" => i = N
      BY <1>a DEF Allocated
    <3>. QED
      BY <1>a, <3>1, <3>2 DEF Claimed
  <2>2. HoldsPlan(step.admitted[i])
    BY <1>2, <1>4, <1>a, <2>1 DEF HoldingInv
  <2>. QED
    BY <1>3, <2>2 DEF HoldsPlan, NoCall
<1>7. /\ num_new_tokens' = [num_new_tokens EXCEPT ![x] = n]
      /\ call' = [op |-> "fill", seq |-> x, index |-> Len(block_table[x]) + 1]
      /\ UNCHANGED <<poolVars, token_ids, block_table, num_cached_tokens, chain>>
      /\ UNCHANGED <<free_block_ids>>
      /\ AllocateNew(x, n)
  BY <1>1, <1>3 DEF AllocateNew, poolVars
<1>8. /\ DecodeFrom = 1 /\ DecodeFrom' = 1 /\ ~ChunkWaits /\ ~ChunkWaits'
      /\ ChunkRows' = ChunkRows
  BY <1>4 DEF DecodeFrom, ChunkWaits, ChunkRows
<1>9. /\ status'[x] = "RUNNING" /\ \A q \in Seqs \ {x} : status'[q] = status[q]
      /\ num_new_tokens'[x] = n
      /\ \A q \in Seqs \ {x} : num_new_tokens'[q] = num_new_tokens[q]
      /\ status' \in [Seqs -> Statuses]
  BY <1>1, <1>2, <1>3, <1>7 DEF SchedTypeOK, TypeOK, Statuses
<1>10. Pending(x) = n
  <2>1. i \in Allocated + 1 .. Len(step.admitted)
    BY <1>a
  <2>. QED
    BY <1>3, <1>4, <2>1, PendingFacts
<1>11. Pending(x)' = 0
  <2>1. \A j \in i + 1 .. N : step.admitted[j].seq # x
    BY <1>5, <1>a
  <2>2. \A j \in 1 .. Len(step.decode) : step.decode[j] # x
    BY <1>5, <1>b DEF Range
  <2>. QED
    BY <1>8, <1>a, <2>1, <2>2 DEF Pending
<1>12. \A q \in Seqs \ {x} : Pending(q)' = Pending(q)
  <2>. SUFFICES ASSUME NEW q \in Seqs \ {x} PROVE Pending(q)' = Pending(q)
    OBVIOUS
  <2> DEFINE Rest == \E j \in 1 .. Len(step.decode) : step.decode[j] = q
             now == CHOOSE j \in i .. N : step.admitted[j].seq = q
             later == CHOOSE j \in i + 1 .. N : step.admitted[j].seq = q
  <2>1. Pending(q) = IF Rest THEN 1 ELSE IF \E j \in i .. N : step.admitted[j].seq = q
                     THEN step.admitted[now].new ELSE 0
    BY <1>8, <1>a DEF Pending
  <2>2. Pending(q)' = IF Rest THEN 1 ELSE IF \E j \in i + 1 .. N : step.admitted[j].seq = q
                     THEN step.admitted[later].new ELSE 0
    BY <1>8, <1>a DEF Pending
  <2>3. \A j : j \in i .. N /\ step.admitted[j].seq = q <=> j \in i + 1 .. N /\ step.admitted[j].seq = q
    BY <1>3, <1>a
  <2>4. now = later
    <3>1. (CHOOSE j : j \in i .. N /\ step.admitted[j].seq = q)
            = (CHOOSE j : j \in i + 1 .. N /\ step.admitted[j].seq = q)
      BY <2>3
    <3>. QED
      BY <3>1
  <2>. HIDE DEF now, later
  <2>5. (\E j \in i .. N : step.admitted[j].seq = q) <=> (\E j \in i + 1 .. N : step.admitted[j].seq = q)
    BY <2>3
  <2>. QED
    BY <2>1, <2>2, <2>4, <2>5
<1>13. Next /\ EvictionInv' /\ TypeOK'
  BY <1>4, <1>5, <1>6, <1>7, <1>10, PlannedIsLegal
<1>14. QueueInv' /\ waiting' \in Seq(Seqs)
  <2>1. x \in Range(waiting)
    BY <1>2, <1>5 DEF QueueInv
  <2>2. /\ waiting' \in Seq(Seqs) /\ IsInjective(waiting') /\ Range(waiting') = Range(waiting) \ {x}
    <3>1. waiting \in Seq(Seqs) /\ IsInjective(waiting) /\ waiting' = Removed(waiting, x)
      BY <1>1, <1>2, <1>3 DEF QueueInv, SchedTypeOK
    <3>2. /\ Removed(waiting, x) \in Seq(Seqs) /\ IsInjective(Removed(waiting, x))
          /\ Range(Removed(waiting, x)) = Range(waiting) \ {x}
      BY <2>1, <3>1, RemovedFacts
    <3>. QED
      BY <3>1, <3>2
  <2>3. Range(step'.prefill) = Range(step.prefill) \cup {x}
    BY <1>3, <1>b, AppendFacts
  <2>4. \A q \in Range(running) : q \in Seqs
    BY BatchTypes DEF Range
  <2>5. chunked_req \in Seqs \cup {NoSeq}
    BY BatchTypes
  <2>6. /\ IsInjective(waiting') /\ IsInjective(running')
        /\ \A s \in Seqs : s \in Range(waiting') <=> status'[s] = "WAITING"
    BY <1>1, <1>2, <1>9, <2>2 DEF QueueInv
  <2>7. /\ \A s \in Range(running) : status'[s] = "RUNNING"
        /\ chunked_req # NoSeq => status'[chunked_req] = "RUNNING" /\ chunked_req \notin Range(running)
    BY <1>2, <1>9, <2>4, <2>5 DEF QueueInv
  <2>8. \A s \in Seqs : status'[s] = "RUNNING" =>
            s \in Range(running) \/ s = chunked_req \/ s \in Range(step'.prefill)
    BY <1>2, <1>9, <2>3 DEF QueueInv
  <2>9. QueueInv'
    BY <1>1, <1>2, <2>6, <2>7, <2>8 DEF QueueInv, Chunked
  <2>. QED
    BY <2>2, <2>9
<1>15. SchedTypeOK'
  BY <1>1, <1>2, <1>9, <1>13, <1>14 DEF SchedTypeOK, Phases
<1>16. PhaseInv'
  <2>1. Len(step'.prefill) = Len(step.prefill) + 1 /\ step'.prefill[Len(step.prefill) + 1] = x
        /\ step'.prefill # <<>>
    BY <1>3, <1>b
  <2>. QED
    BY <1>2, <1>7, <2>1 DEF PhaseInv
<1>17. DecodeInv' /\ ChunkInv'
  <2>1. \A q \in Range(step.decode) : q \in Seqs
    BY <1>b DEF Range
  <2>2. DecodeInv'
    BY <1>1, <1>2, <1>4, <1>9, <2>1 DEF DecodeInv
  <2>3. step.chunk # NoSeq => status'[step.chunk] = status[step.chunk]
    BY <1>5, <1>9, BatchTypes
  <2>4. ChunkInv'
    BY <1>1, <1>2, <1>4, <2>3 DEF ChunkInv, Chunked
  <2>. QED
    BY <2>2, <2>4
<1>18. PrefillInv'
  <2>1. PICK c \in {0, 1}, A \in Nat : c = ChunkRows /\ A = Allocated /\ i = A + 1
    BY BatchTypes
  <2>2. /\ Len(step.prefill) = c + A /\ (c = 1 => step.prefill[1] = step.chunk)
        /\ \A j \in 1 .. A : step.prefill[c + j] = step.admitted[j].seq
    BY <1>2, <1>4, <2>1 DEF PrefillInv
  <2>3. /\ Len(step'.prefill) = c + i /\ step'.prefill[c + i] = x
        /\ \A j \in 1 .. c + A : step'.prefill[j] = step.prefill[j]
    BY <1>3, <1>b, <2>1, <2>2
  <2>4. c = 1 => step'.prefill[1] = step.chunk
    BY <2>1, <2>2, <2>3
  <2>5. \A j \in 1 .. i : step'.prefill[c + j] = step.admitted[j].seq
    <3>. SUFFICES ASSUME NEW j \in 1 .. i PROVE step'.prefill[c + j] = step.admitted[j].seq
      OBVIOUS
    <3>1. CASE j = i
      BY <1>3, <2>3, <3>1
    <3>2. CASE j # i
      <4>1. j \in 1 .. A /\ c + j \in 1 .. c + A
        BY <2>1, <3>2
      <4>. QED
        BY <2>2, <2>3, <4>1
    <3>. QED
      BY <3>1, <3>2
  <2>. QED
    BY <1>8, <2>1, <2>3, <2>4, <2>5 DEF PrefillInv
<1>19. RankedInv' /\ AdmittedInv'
  <2>1. \A j \in DOMAIN step.ranked : step.ranked[j] \in Seqs /\ step.ranked[j] # x
    <3>1. \A j \in DOMAIN step.ranked : step.ranked[j] # x
      BY <1>2, <1>3, <1>4, <1>a DEF RankedInv
    <3>2. step.ranked \in Seq(Seqs)
      BY BatchTypes
    <3>. QED
      BY <3>1, <3>2
  <2>2. RankedInv'
    BY <1>2, <1>4, <1>9, <2>1 DEF RankedInv
  <2>3. PICK A \in Nat : A = Allocated /\ i = A + 1
    BY BatchTypes
  <2>4. \A j \in 1 .. N : j # i => /\ status'[step.admitted[j].seq] = status[step.admitted[j].seq]
                                   /\ (j > i <=> j > A) /\ (j <= i <=> j <= A)
    <3>1. ASSUME NEW j \in 1 .. N, j # i PROVE (j > i <=> j > A) /\ (j <= i <=> j <= A)
      <4>1. i = A + 1
        BY <2>3
      <4>. QED
        BY <4>1, <2>3, <3>1
    <3>2. \A j \in 1 .. N : j # i => status'[step.admitted[j].seq] = status[step.admitted[j].seq]
      BY <1>5, <1>9, <1>b
    <3>. QED
      BY <3>1, <3>2
  <2>5. AdmittedInv'
    <3>1. /\ step'.admitted = step.admitted /\ DOMAIN step.admitted = 1 .. N
          /\ step'.decode = step.decode /\ step'.chunk = step.chunk /\ Allocated' = i
          /\ status'[x] = "RUNNING"
      BY <1>3, <1>9, <1>a
    <3>2. \A q : SeqLen(q)' = SeqLen(q)
      BY <1>7 DEF SeqLen
    <3>3. ASSUME NEW j \in 1 .. N
          PROVE  LET a == step.admitted[j] IN
                 /\ a.new >= 1 /\ Len(a.plan) * BlockSize + a.new <= SeqLen(a.seq)
                 /\ a.seq \notin Range(step.decode) /\ a.seq # step.chunk
                 /\ j > i => status'[a.seq] = "WAITING"
                 /\ j <= i => status'[a.seq] \in {"RUNNING", "FINISHED"}
      <4>1. CASE j = i
        BY <1>2, <1>3, <1>4, <1>a, <3>1, <4>1 DEF AdmittedInv
      <4>2. CASE j # i
        BY <1>2, <1>4, <1>a, <2>3, <2>4, <4>2 DEF AdmittedInv
      <4>. QED
        BY <4>1, <4>2
    <3>4. \A j, k \in 1 .. N : j # k => step.admitted[j].seq # step.admitted[k].seq
      BY <1>2, <1>4, <1>a DEF AdmittedInv
    <3>. QED
      BY <3>1, <3>2, <3>3, <3>4 DEF AdmittedInv
  <2>. QED
    BY <2>2, <2>5
<1>20. PartialInv' /\ LastPartialInv'
  BY <1>2, <1>4, <1>7 DEF PartialInv, LastPartialInv, SeqLen
<1>21. HoldingInv'
  <2>1. \A q \in Seqs \ {x} : Fresh(q)' <=> Fresh(q)
    BY <1>7, <1>9 DEF Fresh
  <2>2. \A q \in Seqs : ~Releasing(q) /\ ~Releasing(q)'
    BY <1>7 DEF Releasing, NoCall
  <2>3. \A q \in Seqs : status'[q] \in {"new", "FINISHED"} => Fresh(q)'
    BY <1>2, <1>9, <2>1, <2>2 DEF HoldingInv
  <2>4. ASSUME NEW q \in Seqs, status'[q] = "WAITING"
        PROVE  Fresh(q)' \/ \E j \in 1 .. N : Claimed(j)' /\ step.admitted[j].seq = q
    <3>1. q \in Seqs \ {x} /\ status[q] = "WAITING"
      BY <1>9, <2>4
    <3>2. Fresh(q) \/ \E j \in 1 .. N : Claimed(j) /\ step.admitted[j].seq = q
      BY <1>2, <1>a, <2>2, <3>1 DEF HoldingInv
    <3>. QED
      BY <1>3, <1>a, <2>1, <3>1, <3>2
  <2>5. ASSUME NEW j \in 1 .. N, Claimed(j)'
        PROVE  HoldsPlan(step.admitted[j])'
    <3>1. PICK a : a = step.admitted[j] /\ a.seq \in Seqs \ {x}
      BY <1>5, <1>a, <1>b, <2>5
    <3>2. HoldsPlan(a)
      BY <1>2, <1>4, <1>a, <2>5, <3>1 DEF HoldingInv
    <3>4. HoldsPlan(a)'
      BY <1>7, <1>9, <3>1, <3>2 DEF HoldsPlan, NoCall
    <3>. QED
      BY <3>1, <3>4
  <2>6. \A q \in Seqs : status'[q] = "RUNNING" => block_table[q] # <<>> \/ (call'.op = "fill" /\ call'.seq = q)
    BY <1>2, <1>7, <1>9 DEF HoldingInv, NoCall
  <2>. QED
    BY <1>7, <1>a, <2>3, <2>4, <2>5, <2>6 DEF HoldingInv
<1>22. TokensInv'
  <2>1. Range(step'.prefill) = Range(step.prefill) \cup {x}
    BY <1>3, <1>b, AppendFacts
  <2>2. \A q \in Seqs : num_new_tokens'[q] > 0 => q \in Range(step'.prefill)
    <3>1. \A j \in DOMAIN step.decode : ~(j < DecodeFrom)
      BY <1>8, <1>b
    <3>. QED
      BY <1>2, <1>9, <2>1, <3>1 DEF TokensInv
  <2>3. \A q \in Seqs : status'[q] = "RUNNING" => num_cached_tokens[q] < SeqLen(q)
    <3>1. num_cached_tokens[x] < SeqLen(x)
      <4>1. num_cached_tokens[x] \in Nat /\ SeqLen(x) \in Nat
        BY <1>2, BlockManagerAssumption DEF TypeOK
      <4>. QED
        BY <1>5, <1>6, <4>1
    <3>. QED
      BY <1>2, <1>9, <3>1 DEF TokensInv
  <2>4. \A j \in DOMAIN step.decode : ~(j < 1)
    BY <1>b
  <2>5. \A j \in 1 .. i : /\ num_new_tokens'[step.admitted[j].seq] = step.admitted[j].new
                          /\ num_cached_tokens[step.admitted[j].seq] = Len(step.admitted[j].plan) * BlockSize
    <3>. SUFFICES ASSUME NEW j \in 1 .. i, NEW a, a = step.admitted[j]
                  PROVE  num_new_tokens'[a.seq] = a.new /\ num_cached_tokens[a.seq] = Len(a.plan) * BlockSize
      OBVIOUS
    <3>1. CASE j = i
      BY <1>3, <1>6, <1>9, <3>1
    <3>2. CASE j # i
      <4>1. j \in 1 .. Allocated /\ j \in 1 .. N
        <5>1. PICK A \in Nat : A = Allocated /\ i = A + 1
          BY BatchTypes
        <5>. QED
          BY <1>a, <3>2, <5>1
      <4>2. a.seq \in Seqs \ {x}
        BY <1>5, <1>b, <3>2, <4>1
      <4>. QED
        BY <1>2, <1>4, <1>9, <4>1, <4>2 DEF TokensInv
    <3>. QED
      BY <3>1, <3>2
  <2>6. step.chunk # NoSeq => num_new_tokens'[step.chunk] = num_new_tokens[step.chunk]
    BY <1>5, <1>9, BatchTypes
  <2>. QED
    BY <1>1, <1>2, <1>4, <1>7, <1>8, <2>2, <2>3, <2>4, <2>5, <2>6 DEF TokensInv, SeqLen
<1>23. RowsInv' /\ PlansInv'
  BY DEF RowsInv, PlansInv
<1>24. BudgetInv' /\ ReserveInv'
  <2>1. Planned' = {}
    BY <1>7 DEF Planned
  <2>2. pc' = "commit" => step.reserved = DecodeBlocks
    BY <1>2, <1>4 DEF ReserveInv
  <2>3. pc' \notin {"freeze", "admit", "chunk"} /\ pc # "freeze"
    OBVIOUS
  <2>4. UNCHANGED <<num_cached_tokens, block_table, token_ids, free_block_ids, running,
                       step.token_budget, step.reserved>>
    BY <1>1, <1>7
  <2>. QED
    BY <1>4, <1>6, <1>7, <1>10, <1>11, <1>12, <2>1, <2>2, <2>3, <2>4, PlannedIsGiven
<1>. QED
  BY <1>13, <1>14, <1>15, <1>16, <1>17, <1>18, <1>19, <1>20, <1>21, <1>22, <1>23, <1>24 DEF SchedInv

LEMMA CommitAllocateKeeps ==
    ASSUME SchedInv, CommitAllocate
    PROVE  SchedInv' /\ Next
<1>1. /\ pc = "admit" /\ pc' = "commit" /\ call = NoCall
      /\ Admit(Last(step.admitted))
      /\ step' = [step EXCEPT !.prefill = Append(@, Last(step.admitted).seq)]
  BY DEF CommitAllocate, At, Goto
<1>2. PICK N \in Nat : N = Len(step.admitted) /\ N >= 1 /\ Last(step.admitted) = step.admitted[N]
  <2>1. PICK N \in Nat : N = Len(step.admitted)
    BY BatchTypes
  <2>2. N >= 1
    <3>1. Allocated = N - 1 /\ Allocated \in 0 .. N
      BY <1>1, <2>1, BatchTypes DEF Allocated
    <3>. QED
      BY <3>1
  <2>. QED
    BY <2>1, <2>2 DEF Last
<1>3. step \in Step /\ step.admitted[N].seq \in Seqs /\ Append(step.prefill, step.admitted[N].seq) \in Seq(Seqs)
  BY <1>2, PrefillGrows
<1>4. step' \in Step /\ step'.prefill = Append(step.prefill, step.admitted[N].seq)
  BY <1>1, <1>2, <1>3 DEF Step
<1>5. UNCHANGED <<step.decode, step.token_budget, step.free_budget, step.reserved,
                  step.chunk, step.chunk_tokens, step.ranked, step.initial, step.active,
                  step.admitted, step.rows, step.at>>
  BY <1>1, <1>3 DEF Step
<1>6. N = Allocated + 1 /\ Allocated' = N
  BY <1>1, <1>2, <1>5 DEF Allocated
<1>7. AtInv'
  BY <1>1, <1>5 DEF AtInv, SchedInv
<1>8. \A j \in 1 .. N : Claimed(j)' <=> Claimed(j) /\ j # N
  BY <1>1, <1>2, <1>5 DEF Claimed
<1>9. N \in 1 .. Len(step.admitted)
  BY <1>2
<1>10. Admit(step.admitted[N]) /\ \A j \in 1 .. Len(step.admitted) : Claimed(j)' <=> Claimed(j) /\ j # N
  BY <1>1, <1>2, <1>8
<1>11. UNCHANGED <<step.decode, step.token_budget, step.free_budget, step.reserved,
                  step.chunk, step.chunk_tokens, step.ranked, step.initial, step.active,
                  step.admitted, step.rows>>
  BY <1>5, Zenon
<1>. QED
  BY <1>1, <1>4, <1>6, <1>7, <1>9, <1>10, <1>11, AdmitKeeps, Zenon

LEMMA FrozenAllocateKeeps ==
    ASSUME SchedInv, FrozenAllocate, ~(step.at > Len(step.admitted))
    PROVE  SchedInv' /\ Next
<1>a. PICK i : i = step.at
  OBVIOUS
<1>1. /\ pc = "allocate" /\ pc' = "allocate" /\ call = NoCall
      /\ Admit(step.admitted[i])
      /\ step' = [step EXCEPT !.at = @ + 1, !.prefill = Append(@, step.admitted[i].seq),
                              !.hits[step.admitted[i].seq] =
                                  HitsOf(Len(step.admitted[i].plan), Len(step.admitted[i].plan))]
  BY <1>a DEF FrozenAllocate, At
<1>2. PICK N \in Nat : N = Len(step.admitted)
  BY BatchTypes
<1>3. i \in 1 .. N
  <2>1. step.at \in 1 .. N + 1
    BY <1>1, <1>2 DEF SchedInv, AtInv
  <2>. QED
    BY <1>2, <1>a, <2>1
<1>b. HitsOf(Len(step.admitted[i].plan), Len(step.admitted[i].plan)) \in [initial : Nat, same_step : Nat]
  <2>1. PICK m \in Nat : m = Len(step.admitted[i].plan)
    BY <1>2, <1>3, BatchTypes
  <2>. QED
    BY <2>1 DEF HitsOf, MinOf
<1>4. step \in Step /\ step.admitted[i].seq \in Seqs /\ Append(step.prefill, step.admitted[i].seq) \in Seq(Seqs)
  BY <1>2, <1>3, PrefillGrows
<1>5. /\ step' \in Step /\ step'.prefill = Append(step.prefill, step.admitted[i].seq)
      /\ step'.at = i + 1
  <2>1. PICK h : h = HitsOf(Len(step.admitted[i].plan), Len(step.admitted[i].plan))
    OBVIOUS
  <2>2. PICK p : p = Append(step.prefill, step.admitted[i].seq)
    OBVIOUS
  <2>3. step' = [step EXCEPT !.at = i + 1, !.prefill = p, !.hits[step.admitted[i].seq] = h]
    BY <1>1, <1>a, <2>1, <2>2
  <2>4. /\ h \in [initial : Nat, same_step : Nat] /\ p \in Seq(Seqs) /\ i + 1 \in Nat
    BY <1>b, <1>3, <1>4, <2>1, <2>2
  <2>5. step' \in Step
    BY <1>4, <2>3, <2>4 DEF Step
  <2>6. step'.prefill = p /\ step'.at = i + 1
    BY <1>4, <2>3 DEF Step
  <2>. QED
    BY <2>2, <2>5, <2>6
<1>6. UNCHANGED <<step.decode, step.token_budget, step.free_budget, step.reserved,
                  step.chunk, step.chunk_tokens, step.ranked, step.initial, step.active,
                  step.admitted, step.rows>>
  BY <1>1, <1>4 DEF Step
<1>7. i = Allocated + 1 /\ Allocated' = i
  BY <1>1, <1>2, <1>3, <1>5, <1>6, <1>a DEF Allocated
<1>8. AtInv'
  BY <1>1, <1>2, <1>3, <1>5, <1>6 DEF AtInv
<1>9. \A j \in 1 .. N : Claimed(j)' <=> Claimed(j) /\ j # i
  <2>1. PICK A \in Nat : A = Allocated /\ i = A + 1
    BY <1>7, BatchTypes
  <2>2. \A j \in 1 .. N : (Claimed(j) <=> j > A) /\ (Claimed(j)' <=> j > i)
    BY <1>1, <1>7, <2>1 DEF Claimed
  <2>3. \A j \in 1 .. N : j > i <=> j > A /\ j # i
    BY <2>1
  <2>. QED
    BY <2>2, <2>3
<1>. QED
  BY <1>1, <1>2, <1>3, <1>5, <1>6, <1>7, <1>8, <1>9, AdmitKeeps

LEMMA DecodeKeeps ==
    ASSUME SchedInv, DecodeAppend
    PROVE  SchedInv' /\ Next
<1>1. /\ pc = "decode" /\ pc' = "decode" /\ call = NoCall /\ step.at <= Len(step.decode)
      /\ DecodeReady(step.decode[step.at]) /\ MayAppend(step.decode[step.at], 1)
      /\ step' = [step EXCEPT !.at = @ + 1]
      /\ UNCHANGED <<status, num_prompt_tokens, waiting, running, chunked_req, kv>>
  BY DEF DecodeAppend, At, schedVars
<1>2. /\ EvictionInv /\ SchedTypeOK /\ PhaseInv /\ QueueInv /\ AtInv /\ DecodeInv
      /\ ChunkInv /\ PrefillInv /\ RankedInv /\ AdmittedInv /\ PartialInv /\ HoldingInv
      /\ TokensInv /\ RowsInv /\ BudgetInv /\ ReserveInv /\ TypeOK
  BY BatchTypes DEF SchedInv
<1>3. PICK D \in Nat, N \in Nat :
        /\ D = Len(step.decode) /\ DOMAIN step.decode = 1 .. D
        /\ N = Len(step.admitted) /\ DOMAIN step.admitted = 1 .. N
  BY BatchTypes
<1>4. PICK i \in 1 .. D : i = step.at
  <2>1. step.at \in 1 .. D + 1
    BY <1>1, <1>2, <1>3 DEF AtInv
  <2>. QED
    BY <1>1, <1>3, <2>1
<1>5. PICK x \in Seqs : x = step.decode[i]
  <2>1. step.decode \in Seq(Seqs)
    BY BatchTypes
  <2>. QED
    BY <1>3, <1>4, <2>1
<1>6. Scheduling /\ Scheduling' /\ InBatch /\ InBatch' /\ ~Processing /\ ~Processing'
  BY <1>1 DEF Scheduling, InBatch, Processing
<1>7. /\ step' \in Step /\ step'.at = i + 1
      /\ UNCHANGED <<step.decode, step.token_budget, step.free_budget, step.reserved,
                     step.chunk, step.chunk_tokens, step.ranked, step.initial, step.active,
                     step.admitted, step.rows, step.prefill>>
  <2>1. step \in Step
    BY BatchTypes
  <2>2. step' \in Step
    <3>1. PICK m \in Nat : m = i + 1
      BY <1>4
    <3>2. step' = [step EXCEPT !.at = m]
      BY <1>1, <1>4, <3>1
    <3>. QED
      BY <2>1, <3>2 DEF Step
  <2>3. step'.at = i + 1
    BY <1>1, <1>4, <2>1 DEF Step
  <2>. QED
    BY <1>1, <2>1, <2>2, <2>3 DEF Step
<1>8. /\ num_new_tokens' = [num_new_tokens EXCEPT ![x] = 1]
      /\ call' = [op |-> "fill", seq |-> x, index |-> (num_cached_tokens[x] \div BlockSize) + 1]
      /\ UNCHANGED <<poolVars, token_ids, block_table, num_cached_tokens, chain>>
      /\ UNCHANGED <<free_block_ids>>
      /\ MayAppend(x, 1) /\ DecodeReady(x)
  BY <1>1, <1>4, <1>5 DEF MayAppend, poolVars
<1>9. /\ num_new_tokens'[x] = 1
      /\ \A q \in Seqs \ {x} : num_new_tokens'[q] = num_new_tokens[q]
  BY <1>2, <1>8 DEF TypeOK
<1>10. /\ Allocated = N /\ Allocated' = N /\ ChunkRows' = ChunkRows /\ ~ChunkWaits /\ ~ChunkWaits'
       /\ DecodeFrom = i /\ DecodeFrom' = i + 1
  BY <1>1, <1>3, <1>4, <1>7 DEF Allocated, ChunkRows, ChunkWaits, DecodeFrom
<1>11. /\ IsInjective(step.decode) /\ x \in Range(step.decode) /\ x \in Range(running)
       /\ \A j \in 1 .. D : j # i => step.decode[j] # x
       /\ status[x] = "RUNNING" /\ x \notin Range(step.prefill)
  <2>1. IsInjective(step.decode) /\ x \in Range(step.decode) /\ x \in Range(running)
    BY <1>2, <1>3, <1>5, <1>6 DEF DecodeInv, Range
  <2>2. \A j \in 1 .. D : j # i => step.decode[j] # x
    BY <1>3, <1>5, <2>1 DEF IsInjective
  <2>3. x \notin Range(step.prefill)
    BY <1>6, <2>1, PrefillRows
  <2>. QED
    BY <1>2, <2>1, <2>2, <2>3 DEF QueueInv
<1>12. num_new_tokens[x] = 0
  <2>1. ~(num_new_tokens[x] > 0)
    <3>1. \A j \in DOMAIN step.decode : ~(j < DecodeFrom /\ step.decode[j] = x)
      BY <1>3, <1>10, <1>11
    <3>. QED
      BY <1>2, <1>11, <3>1 DEF TokensInv
  <2>. QED
    BY <1>2, <2>1 DEF TypeOK
<1>13. Pending(x) = 1 /\ Pending(x)' = 0 /\ \A q \in Seqs \ {x} : Pending(q)' = Pending(q)
  <2>1. Pending(x) = 1
    BY <1>3, <1>5, <1>10 DEF Pending
  <2>2. Pending(x)' = 0
    <3>1. \A j \in i + 1 .. D : step.decode[j] # x
      BY <1>11
    <3>2. \A j \in N + 1 .. N : FALSE
      OBVIOUS
    <3>. QED
      BY <1>3, <1>7, <1>10, <3>1, <3>2 DEF Pending
  <2>3. ASSUME NEW q \in Seqs \ {x} PROVE Pending(q)' = Pending(q)
    <3>1. (\E j \in i + 1 .. D : step.decode[j] = q) <=> (\E j \in i .. D : step.decode[j] = q)
      BY <1>5
    <3>2. Pending(q)' = IF \E j \in i + 1 .. D : step.decode[j] = q THEN 1
                        ELSE IF \E j \in N + 1 .. N : step.admitted[j].seq = q
                        THEN step.admitted[CHOOSE j \in N + 1 .. N : step.admitted[j].seq = q].new ELSE 0
      BY <1>3, <1>7, <1>10 DEF Pending
    <3>3. Pending(q) = IF \E j \in i .. D : step.decode[j] = q THEN 1
                        ELSE IF \E j \in N + 1 .. N : step.admitted[j].seq = q
                        THEN step.admitted[CHOOSE j \in N + 1 .. N : step.admitted[j].seq = q].new ELSE 0
      BY <1>3, <1>10 DEF Pending
    <3>. QED
      BY <3>1, <3>2, <3>3
  <2>. QED
    BY <2>1, <2>2, <2>3
<1>14. Next /\ EvictionInv' /\ TypeOK'
  <2>1. 1 \in Nat \ {0}
    OBVIOUS
  <2>. QED
    BY <1>6, <1>8, <1>12, <1>13, <2>1, PlannedIsLegal
<1>15. SchedTypeOK'
  BY <1>1, <1>2, <1>7, <1>14 DEF SchedTypeOK
<1>16. PhaseInv' /\ AtInv'
  BY <1>1, <1>2, <1>3, <1>4, <1>5, <1>7, <1>8 DEF PhaseInv, AtInv
<1>17. QueueInv' /\ DecodeInv' /\ ChunkInv' /\ PrefillInv'
  <2>1. QueueInv'
    BY <1>1, <1>2, <1>7 DEF QueueInv, Chunked
  <2>2. DecodeInv' /\ ChunkInv'
    BY <1>1, <1>2, <1>6, <1>7 DEF DecodeInv, ChunkInv, Chunked
  <2>3. PrefillInv'
    BY <1>2, <1>6, <1>7, <1>10 DEF PrefillInv
  <2>. QED
    BY <2>1, <2>2, <2>3
<1>18. RankedInv' /\ AdmittedInv' /\ PartialInv' /\ LastPartialInv'
  BY <1>1, <1>2, <1>6, <1>7, <1>8, <1>10 DEF RankedInv, AdmittedInv, PartialInv, LastPartialInv, SeqLen
<1>19. HoldingInv'
  <2>1. \A q \in Seqs \ {x} : Fresh(q)' <=> Fresh(q)
    BY <1>8, <1>9 DEF Fresh
  <2>2. \A q \in Seqs : ~Releasing(q) /\ ~Releasing(q)'
    BY <1>1, <1>8 DEF Releasing, NoCall
  <2>3. \A j : ~Claimed(j) /\ ~Claimed(j)'
    BY <1>1 DEF Claimed
  <2>4. /\ \A q \in Seqs : status[q] \in {"new", "FINISHED", "WAITING"} => Fresh(q)'
        /\ \A q \in Seqs : status[q] = "RUNNING" => block_table[q] # <<>>
    BY <1>1, <1>2, <1>11, <2>1, <2>2, <2>3 DEF HoldingInv, NoCall
  <2>. QED
    BY <1>1, <1>8, <2>3, <2>4 DEF HoldingInv
<1>20. TokensInv'
  <2>1. ASSUME NEW q \in Seqs, num_new_tokens'[q] > 0
        PROVE  q \in Range(step.prefill) \/ \E j \in 1 .. D : j < i + 1 /\ step.decode[j] = q
    <3>1. CASE q = x
      BY <1>5, <3>1
    <3>2. CASE q # x
      <4>1. \/ q \in Range(step.prefill)
            \/ \E j \in 1 .. D : j < i /\ step.decode[j] = q
        BY <1>2, <1>3, <1>9, <1>10, <2>1, <3>2 DEF TokensInv
      <4>. QED
        BY <4>1
    <3>. QED
      BY <3>1, <3>2
  <2>2. ASSUME NEW j \in 1 .. D, j < i + 1
        PROVE  num_new_tokens'[step.decode[j]] = 1 /\ DecodeReady(step.decode[j])
    <3>1. CASE j = i
      BY <1>5, <1>8, <1>9, <3>1
    <3>2. CASE j # i
      <4>1. step.decode[j] \in Seqs \ {x} /\ j < i
        <5>1. step.decode \in Seq(Seqs) /\ j < i
          <6>1. j < i
            BY <1>4, <2>2, <3>2
          <6>. QED
            BY <6>1, BatchTypes
        <5>. QED
          BY <1>3, <1>11, <3>2, <5>1
      <4>2. num_new_tokens[step.decode[j]] = 1 /\ DecodeReady(step.decode[j])
        BY <1>2, <1>3, <1>6, <1>10, <4>1 DEF TokensInv
      <4>. QED
        BY <1>9, <4>1, <4>2
    <3>. QED
      BY <3>1, <3>2
  <2>3. \A j \in 1 .. N : step.admitted[j].seq \in Seqs \ {x}
    BY <1>2, <1>3, <1>6, <1>11, BatchTypes DEF AdmittedInv
  <2>4. step.chunk # NoSeq => step.chunk \in Seqs \ {x}
    BY <1>2, <1>6, <1>11 DEF ChunkInv
  <2>5. \A j \in DOMAIN step.decode : DecodeReady(step.decode[j])' <=> DecodeReady(step.decode[j])
    BY <1>7, <1>8 DEF DecodeReady, SeqLen
  <2>6. /\ \A j \in 1 .. N : num_new_tokens'[step.admitted[j].seq] = num_new_tokens[step.admitted[j].seq]
        /\ step.chunk # NoSeq => num_new_tokens'[step.chunk] = num_new_tokens[step.chunk]
    BY <1>9, <2>3, <2>4
  <2>7. \A j \in 1 .. N : /\ num_new_tokens'[step.admitted[j].seq] = step.admitted[j].new
                          /\ num_cached_tokens[step.admitted[j].seq] = Len(step.admitted[j].plan) * BlockSize
    BY <1>2, <1>6, <1>10, <2>6 DEF TokensInv
  <2>8. step.chunk # NoSeq =>
            /\ step.chunk_tokens >= 1
            /\ num_cached_tokens[step.chunk] + step.chunk_tokens <= SeqLen(step.chunk)
            /\ ChunkRows = 1 => num_new_tokens'[step.chunk] = step.chunk_tokens
    BY <1>2, <1>6, <2>6 DEF TokensInv
  <2>9. /\ \A q \in Seqs : num_prompt_tokens[q] <= SeqLen(q)
        /\ \A q \in Seqs : status[q] = "RUNNING" => num_cached_tokens[q] < SeqLen(q)
    BY <1>2 DEF TokensInv
  <2>10. \A q \in Seqs : SeqLen(q)' = SeqLen(q)
    BY <1>8 DEF SeqLen
  <2>11. \A j \in 1 .. D : j < i + 1 => num_new_tokens'[step.decode[j]] = 1 /\ DecodeReady(step.decode[j])'
    BY <1>3, <2>2, <2>5
  <2>12. step.chunk # NoSeq => SeqLen(step.chunk)' = SeqLen(step.chunk)
    BY <1>7, <2>4, <2>10
  <2>13. /\ \A q \in Seqs : num_prompt_tokens'[q] <= SeqLen(q)'
         /\ \A q \in Seqs : status'[q] = "RUNNING" => num_cached_tokens'[q] < SeqLen(q)'
    BY <1>1, <1>8, <2>9, <2>10
  <2>14. \A q \in Seqs : num_new_tokens'[q] > 0 =>
            \/ q \in Range(step'.prefill)
            \/ \E j \in DOMAIN step'.decode : j < DecodeFrom' /\ step'.decode[j] = q
    BY <1>3, <1>7, <1>10, <2>1
  <2>15. \A j \in DOMAIN step'.decode : j < DecodeFrom' =>
            num_new_tokens'[step'.decode[j]] = 1 /\ DecodeReady(step.decode[j])'
    <3>1. DOMAIN step'.decode = 1 .. D /\ \A j : step'.decode[j] = step.decode[j]
      BY <1>3, <1>7
    <3>. QED
      BY <1>10, <2>11, <3>1
  <2>16. \A j \in 1 .. Allocated' :
            /\ num_new_tokens'[step'.admitted[j].seq] = step'.admitted[j].new
            /\ num_cached_tokens'[step'.admitted[j].seq] = Len(step'.admitted[j].plan) * BlockSize
    BY <1>7, <1>8, <1>10, <2>7
  <2>17. step'.chunk # NoSeq =>
            /\ step'.chunk_tokens >= 1
            /\ num_cached_tokens'[step'.chunk] + step'.chunk_tokens <= SeqLen(step.chunk)'
            /\ ChunkRows' = 1 => num_new_tokens'[step'.chunk] = step'.chunk_tokens
    BY <1>7, <1>8, <1>10, <2>8, <2>12
  <2>. QED
    BY <2>13, <2>14, <2>15, <2>16, <2>17 DEF TokensInv
<1>21. RowsInv' /\ PlansInv'
  BY <1>1 DEF RowsInv, PlansInv
<1>22. BudgetInv' /\ ReserveInv'
  <2>1. Planned' = {}
    BY <1>1, <1>8 DEF Planned
  <2>2. pc' \notin {"freeze", "admit", "chunk", "commit"} /\ pc # "freeze"
    BY <1>1
  <2>3. UNCHANGED <<num_cached_tokens, block_table, token_ids, free_block_ids, running,
                       step.token_budget, step.reserved>>
    BY <1>1, <1>7, <1>8
  <2>4. 1 \in Nat /\ Planned' \subseteq Planned
    BY <2>1
  <2>. QED
    BY <1>6, <1>8, <1>12, <1>13, <2>2, <2>3, <2>4, PlannedIsGiven
<1>. QED
  BY <1>14, <1>15, <1>16, <1>17, <1>18, <1>19, <1>20, <1>21, <1>22 DEF SchedInv

(* A legal call of the block manager keeps what is proved of it.             *)
LEMMA LegalEviction ==
    ASSUME EvictionInv, Next
    PROVE  EvictionInv' /\ TypeOK'
<1>1. EvictionInv'
  BY NextEviction
<1>. QED
  BY <1>1 DEF EvictionInv, CallsInv, CacheInv, PoolInv

(* A preempted request returns its blocks, as a new one: the tail of running *)
(* was in no batch.                                                        *)
LEMMA PreemptKeeps ==
    ASSUME SchedInv, PreemptTail
    PROVE  SchedInv' /\ Next
<1>a. /\ EvictionInv /\ SchedTypeOK /\ PhaseInv /\ QueueInv /\ AtInv /\ HoldingInv /\ TokensInv
  BY DEF SchedInv
<1>1. /\ pc = "preempt" /\ pc' = "preempt" /\ call = NoCall
      /\ running' = Front(running)
      /\ status' = [status EXCEPT ![Last(running)] = "WAITING"]
      /\ waiting' = <<Last(running)>> \o waiting
      /\ Deallocate(Last(running))
      /\ UNCHANGED <<num_prompt_tokens, chunked_req, kv, step>>
      /\ running # <<>>
  BY DEF PreemptTail, At, DecodeFits
<1>2. /\ step = EmptyStep /\ waiting \in Seq(Seqs) /\ running \in Seq(Seqs)
      /\ IsInjective(running) /\ IsInjective(waiting) /\ status \in [Seqs -> Statuses]
      /\ chunked_req \in Seqs \cup {NoSeq}
  BY <1>1, <1>a DEF PhaseInv, SchedTypeOK, QueueInv
<1>3. PICK s \in Seqs : s = Last(running)
  BY <1>1, <1>2, FrontFacts
<1>4. /\ s \in Range(running) /\ Front(running) \in Seq(Seqs)
      /\ Len(Front(running)) = Len(running) - 1
      /\ IsInjective(Front(running)) /\ Range(Front(running)) = Range(running) \ {s}
  BY <1>1, <1>2, <1>3, FrontFacts
<1>5. status[s] = "RUNNING" /\ s \notin Range(waiting) /\ s # chunked_req
  <2>1. status[s] = "RUNNING" /\ (s \in Range(waiting) <=> status[s] = "WAITING")
    BY <1>4, <1>a DEF QueueInv
  <2>2. s # NoSeq
    BY SchedulerAssumption
  <2>. QED
    BY <1>4, <1>a, <2>1, <2>2 DEF QueueInv
<1>6. /\ waiting' \in Seq(Seqs) /\ Range(waiting') = Range(waiting) \cup {s}
      /\ IsInjective(waiting')
  BY <1>1, <1>2, <1>3, <1>5, PrependFacts
<1>7. /\ status'[s] = "WAITING" /\ \A q \in Seqs \ {s} : status'[q] = status[q]
      /\ status' \in [Seqs -> Statuses]
  BY <1>1, <1>2, <1>3 DEF Statuses
<1>8. Next
  BY <1>1, <1>3 DEF Next, Call
<1>9. EvictionInv' /\ TypeOK'
  BY <1>8, <1>a, LegalEviction
<1>10. /\ call' = [op |-> "release", seq |-> s]
       /\ UNCHANGED <<block_table, num_cached_tokens, num_new_tokens, token_ids>>
  BY <1>1, <1>3 DEF Deallocate, seqVars
<1>11. SchedTypeOK'
  BY <1>1, <1>4, <1>6, <1>7, <1>9, <1>a DEF SchedTypeOK
<1>12. PhaseInv'
  BY <1>1, <1>2, <1>7, <1>10 DEF PhaseInv
<1>13. QueueInv'
  <2>1. \A q \in Seqs : q \in Range(waiting') <=> status'[q] = "WAITING"
    BY <1>6, <1>7, <1>a DEF QueueInv
  <2>2. Range(running) \subseteq Seqs /\ Range(running') = Range(running) \ {s}
        /\ IsInjective(running') /\ Len(running') = Len(running) - 1
    <3>1. Range(running) \subseteq Seqs
      BY <1>2 DEF Range
    <3>2. running' = Front(running)
      BY <1>1
    <3>. QED
      BY <1>4, <3>1, <3>2
  <2>3. \A q \in Range(running') : status'[q] = "RUNNING"
    BY <1>7, <1>a, <2>2 DEF QueueInv
  <2>4. chunked_req # NoSeq => status'[chunked_req] = "RUNNING" /\ chunked_req \notin Range(running')
    BY <1>2, <1>5, <1>7, <1>a, <2>2 DEF QueueInv
  <2>5. \A q \in Seqs : status'[q] = "RUNNING" =>
            q \in Range(running') \/ q = chunked_req \/ q \in Range(step.prefill)
    BY <1>7, <1>a, <2>2 DEF QueueInv
  <2>6. Len(running) \in Nat /\ MaxNumSeqs \in Nat
    BY <1>2, SchedulerAssumption
  <2>7. Len(running') + Chunked' <= MaxNumSeqs
    BY <1>1, <1>a, <2>2, <2>6 DEF QueueInv, Chunked
  <2>. QED
    BY <1>1, <1>6, <2>1, <2>2, <2>3, <2>4, <2>5, <2>7 DEF QueueInv
<1>14. AtInv'
  BY <1>1 DEF AtInv
<1>15. HoldingInv'
  <2>1. \A q \in Seqs : /\ Fresh(q)' <=> Fresh(q)
                        /\ ~Releasing(q) /\ (Releasing(q)' <=> q = s)
    BY <1>1, <1>10 DEF Fresh, Releasing, NoCall
  <2>2. ~Scheduling' /\ \A i : ~Claimed(i)
    BY <1>1 DEF Scheduling, Claimed
  <2>3. \A q \in Seqs : status'[q] \in {"new", "FINISHED", "WAITING"} => Fresh(q)' \/ Releasing(q)'
    BY <1>7, <1>a, <2>1, <2>2 DEF HoldingInv
  <2>4. \A q \in Seqs : status'[q] = "RUNNING" => block_table'[q] # <<>>
    BY <1>1, <1>7, <1>10, <1>a DEF HoldingInv, NoCall
  <2>. QED
    BY <2>2, <2>3, <2>4 DEF HoldingInv
<1>16. TokensInv'
  BY <1>1, <1>7, <1>10, <1>a DEF TokensInv, DecodeFrom, Scheduling, SeqLen
<1>. QED
  BY <1>1, <1>8, <1>9, <1>11, <1>12, <1>13, <1>14, <1>15, <1>16, NoBatch DEF SchedInv

-----------------------------------------------------------------------------
(* The forward pass and postprocess()                                      *)

(* What a step that keeps the queues and the batch leaves to be shown.       *)
LEMMA ProcessKeeps ==
    ASSUME SchedInv, Processing, Processing', pc' # "run", call = NoCall, call' = NoCall,
           EvictionInv', step' \in Step, kv' \in [BlockIds -> Seq(Token)],
           UNCHANGED <<status, num_prompt_tokens, waiting, running, chunked_req,
                       block_table, num_cached_tokens, num_new_tokens>>,
           UNCHANGED <<step.decode, step.chunk, step.chunk_tokens, step.ranked,
                       step.admitted, step.prefill>>,
           \A s \in Seqs : SeqLen(s)' >= SeqLen(s) /\ SeqLen(s)' \in Nat,
           AtInv', RowsInv'
    PROVE  SchedInv'
<1>1. /\ SchedTypeOK /\ QueueInv /\ DecodeInv /\ ChunkInv /\ PrefillInv /\ RankedInv
      /\ AdmittedInv /\ LastPartialInv /\ HoldingInv /\ TokensInv
  BY DEF SchedInv
<1>2. ~Scheduling /\ ~Scheduling' /\ InBatch /\ InBatch' /\ pc' \in Phases
      /\ pc \notin {"admit", "freeze", "claim", "chunk", "allocate", "decode"}
      /\ pc' \notin {"admit", "freeze", "claim", "chunk", "allocate", "decode", "idle", "preempt", "commit"}
  BY DEF Processing, Scheduling, InBatch, Phases
<1>3. /\ Allocated' = Allocated /\ ChunkRows' = ChunkRows /\ DecodeFrom' = DecodeFrom
  BY <1>2 DEF Allocated, ChunkRows, DecodeFrom, ChunkWaits
<1>4. TypeOK'
  BY DEF EvictionInv, CallsInv, CacheInv, PoolInv
<1>5. SchedTypeOK'
  BY <1>1, <1>2, <1>4 DEF SchedTypeOK
<1>6. PhaseInv' /\ QueueInv'
  BY <1>1, <1>2 DEF PhaseInv, QueueInv, NoCall, Chunked
<1>7. DecodeInv' /\ ChunkInv' /\ PrefillInv'
  BY <1>1, <1>2, <1>3 DEF DecodeInv, ChunkInv, PrefillInv
<1>8. RankedInv'
  BY <1>1, <1>2 DEF RankedInv
<1>9. \A s \in Seqs : SeqLen(s) \in Nat /\ num_prompt_tokens[s] \in Nat
                      /\ num_cached_tokens[s] \in Nat
  <2>1. TypeOK /\ num_prompt_tokens \in [Seqs -> 1 .. MaxLen] /\ MaxLen \in Nat
    BY <1>1, BlockManagerAssumption DEF SchedTypeOK
  <2>2. \A s \in Seqs : SeqLen(s) \in Nat /\ num_cached_tokens[s] \in Nat
    BY <2>1 DEF TypeOK
  <2>. QED
    BY <2>1, <2>2
<1>10. AdmittedInv'
  <2>1. PICK N \in Nat : N = Len(step.admitted) /\ DOMAIN step.admitted = 1 .. N
    BY BatchTypes
  <2>2. ASSUME NEW i \in 1 .. N
        PROVE  Len(step.admitted[i].plan) * BlockSize + step.admitted[i].new
                  <= SeqLen(step.admitted[i].seq)'
    <3>1. PICK q \in Seqs, m \in Nat, n \in Nat :
            /\ q = step.admitted[i].seq /\ m = Len(step.admitted[i].plan)
            /\ n = step.admitted[i].new
      BY <2>1, BatchTypes
    <3>2. m * BlockSize \in Nat
      BY BlockManagerAssumption
    <3>3. m * BlockSize + n <= SeqLen(q)
      BY <1>1, <1>2, <2>1, <3>1 DEF AdmittedInv
    <3>4. m * BlockSize + n <= SeqLen(q)'
      BY <1>9, <3>2, <3>3
    <3>. QED
      BY <3>1, <3>4
  <2>. QED
    BY <1>1, <1>2, <1>3, <2>1, <2>2 DEF AdmittedInv
<1>11. PartialInv' /\ LastPartialInv'
  BY <1>1, <1>2 DEF PartialInv, LastPartialInv, Unfinished, ContextEnd
<1>12. HoldingInv'
  <2>1. \A q \in Seqs : (Fresh(q)' <=> Fresh(q)) /\ (Releasing(q)' <=> Releasing(q))
    BY DEF Fresh, Releasing
  <2>2. \A i : ~Claimed(i) /\ ~Claimed(i)'
    BY <1>2 DEF Claimed
  <2>. QED
    BY <1>1, <1>2, <2>1, <2>2 DEF HoldingInv
<1>13. TokensInv'
  <2>1. \A s \in Seqs : num_prompt_tokens[s] <= SeqLen(s)'
    BY <1>1, <1>9 DEF TokensInv
  <2>2. \A s \in Seqs : status[s] = "RUNNING" => num_cached_tokens[s] < SeqLen(s)'
    BY <1>1, <1>9 DEF TokensInv
  <2>3. \A s \in Seqs : num_new_tokens[s] > 0 =>
            \/ s \in Range(step.prefill)
            \/ \E i \in DOMAIN step.decode : i < DecodeFrom /\ step.decode[i] = s
    BY <1>1 DEF TokensInv
  <2>. QED
    BY <1>2, <1>3, <2>1, <2>2, <2>3 DEF TokensInv
<1>14. BudgetInv' /\ ReserveInv' /\ PlansInv'
  BY <1>2 DEF BudgetInv, ReserveInv, PlansInv
<1>. QED
  BY <1>5, <1>6, <1>7, <1>8, <1>10, <1>11, <1>12, <1>13, <1>14 DEF SchedInv

(* What is in a batch that is about to run.                                 *)
LEMMA RunFacts ==
    ASSUME SchedInv, pc = "run"
    PROVE  /\ Scheduled \in Seq(Seqs) /\ IsInjective(Scheduled)
           /\ Range(Scheduled) = Range(step.prefill) \cup Range(step.decode)
           /\ Len(Scheduled) <= MaxNumSeqs
           /\ \A s \in Range(Scheduled) :
                /\ s \in Seqs /\ num_new_tokens[s] > 0 /\ status[s] = "RUNNING"
                /\ ContextEnd(s) <= SeqLen(s)
<1>1. InBatch /\ ~Scheduling /\ call.op # "release"
  BY DEF SchedInv, PhaseInv, InBatch, Processing, Scheduling
<1>2. PICK N \in Nat, D \in Nat, c \in {0, 1} :
          /\ N = Len(step.admitted) /\ D = Len(step.decode) /\ c = ChunkRows
          /\ Allocated = N /\ DecodeFrom = D + 1
          /\ Len(step.prefill) = c + N
          /\ DOMAIN step.decode = 1 .. D /\ DOMAIN step.prefill = 1 .. c + N
          /\ DOMAIN step.admitted = 1 .. N
          /\ c = 1 <=> step.chunk # NoSeq
  <2>1. Allocated = Len(step.admitted) /\ DecodeFrom = Len(step.decode) + 1
        /\ (ChunkRows = 1 <=> step.chunk # NoSeq)
    BY <1>1 DEF Allocated, DecodeFrom, ChunkRows, ChunkWaits
  <2>2. Len(step.prefill) = ChunkRows + Allocated
    BY <1>1 DEF SchedInv, PrefillInv
  <2>. QED
    BY <2>1, <2>2, BatchTypes
<1>3. /\ step.prefill \in Seq(Seqs) /\ step.decode \in Seq(Seqs)
      /\ IsInjective(step.prefill) /\ IsInjective(step.decode)
      /\ Range(step.prefill) \cap Range(step.decode) = {}
  BY <1>1, BatchTypes, PrefillRows DEF SchedInv, DecodeInv
<1>4. /\ Scheduled \in Seq(Seqs) /\ IsInjective(Scheduled)
      /\ Range(Scheduled) = Range(step.prefill) \cup Range(step.decode)
      /\ Len(Scheduled) = c + N + D
  <2>1. PICK p \in Seq(Seqs), d \in Seq(Seqs) :
            p = step.prefill /\ d = step.decode /\ Len(p) = c + N /\ Len(d) = D
    BY <1>2, <1>3
  <2>2. /\ p \o d \in Seq(Seqs) /\ Len(p \o d) = Len(p) + Len(d)
        /\ Range(p \o d) = Range(p) \cup Range(d)
        /\ IsInjective(p) /\ IsInjective(d) /\ Range(p) \cap Range(d) = {} => IsInjective(p \o d)
    BY ConcatFacts
  <2>3. Scheduled = p \o d
    BY <2>1 DEF Scheduled
  <2>. QED
    BY <1>3, <2>1, <2>2, <2>3
<1>5. Len(Scheduled) <= MaxNumSeqs
  <2>1. D + (IF step.chunk = NoSeq THEN 0 ELSE 1) + N <= MaxNumSeqs
    BY <1>1, <1>2 DEF SchedInv, ChunkInv
  <2>2. D + c + N <= MaxNumSeqs
    BY <1>2, <2>1
  <2>. QED
    BY <1>4, <2>2
<1>6. ASSUME NEW s \in Range(Scheduled) PROVE s \in Seqs /\ num_new_tokens[s] > 0
  <2>1. s \in Seqs
    BY <1>4 DEF Range
  <2>2. CASE s \in Range(step.decode)
    <3>1. PICK j \in 1 .. D : s = step.decode[j]
      BY <1>2, <2>2 DEF Range
    <3>2. j < DecodeFrom
      BY <1>2, <3>1
    <3>. QED
      BY <1>2, <2>1, <3>1, <3>2 DEF SchedInv, TokensInv
  <2>3. CASE s \in Range(step.prefill)
    <3>1. PICK j \in 1 .. c + N : s = step.prefill[j]
      BY <1>2, <2>3 DEF Range
    <3>2. CASE c = 1 /\ s = step.chunk /\ step.chunk # NoSeq
      <4>1. num_new_tokens[s] = step.chunk_tokens /\ step.chunk_tokens >= 1
        BY <1>2, <3>2 DEF SchedInv, TokensInv
      <4>. QED
        BY <2>1, <4>1, BatchTypes
    <3>3. CASE j - c \in 1 .. N /\ s = step.admitted[j - c].seq
      <4>1. PICK i \in 1 .. N : i = j - c
        BY <3>3
      <4>2. num_new_tokens[s] = step.admitted[i].new /\ step.admitted[i].new >= 1
        BY <1>1, <1>2, <3>3, <4>1 DEF SchedInv, TokensInv, AdmittedInv
      <4>3. step.admitted[i].new \in Nat
        BY <1>2, <4>1, BatchTypes
      <4>. QED
        BY <2>1, <4>2, <4>3
    <3>. QED
      BY <1>1, <1>2, <3>1, <3>2, <3>3, PrefillRows
  <2>. QED
    BY <1>4, <2>1, <2>2, <2>3
<1>7. ASSUME NEW s \in Range(Scheduled) PROVE status[s] = "RUNNING" /\ ContextEnd(s) <= SeqLen(s)
  <2>1. status[s] = "RUNNING"
    BY <1>1, <1>6, ScheduledRuns DEF Releasing
  <2>2. ContextEnd(s) <= SeqLen(s)
    BY <1>6, Types DEF SchedInv, EvictionInv, CallsInv, CacheInv
  <2>. QED
    BY <2>1, <2>2
<1>. QED
  BY <1>4, <1>5, <1>6, <1>7

(* The K/V of the new tokens is stored, and the rows are chosen.             *)
LEMMA RunKeeps ==
    ASSUME SchedInv, Run
    PROVE  SchedInv'
<1>. DEFINE ends == {s \in Seqs : ContextEnd(s) = SeqLen(s)}
<1>1. /\ pc = "run" /\ pc' = "sample" /\ call = NoCall /\ kv' = KvAfter
      /\ step' = [step EXCEPT !.rows = Filter(Scheduled, ends), !.at = 1]
      /\ UNCHANGED bmVars
      /\ UNCHANGED <<status, num_prompt_tokens, waiting, running, chunked_req>>
  BY DEF Run, At, Goto
<1>2. /\ EvictionInv /\ SchedTypeOK /\ step \in Step /\ PoolInv
  BY BatchTypes DEF SchedInv, EvictionInv, CallsInv, CacheInv
<1>3. /\ call' = call
      /\ UNCHANGED <<block_table, num_cached_tokens, num_new_tokens, token_ids>>
  BY <1>1 DEF bmVars, seqVars
<1>4. EvictionInv'
  BY <1>1, <1>2, StillEviction
<1>5. PICK rows \in Seq(Seqs) : /\ rows = Filter(Scheduled, ends) /\ IsInjective(rows)
                                /\ Range(rows) = Range(Scheduled) \cap ends
  BY <1>1, FilterFacts, RunFacts
<1>6. /\ step' \in Step /\ step'.rows = rows /\ step'.at = 1
      /\ UNCHANGED <<step.decode, step.chunk, step.chunk_tokens, step.ranked,
                     step.admitted, step.prefill>>
  <2>1. step' = [step EXCEPT !.rows = rows, !.at = 1]
    BY <1>1, <1>5
  <2>. QED
    BY <1>2, <2>1 DEF Step
<1>7. kv' \in [BlockIds -> Seq(Token)]
  <2>1. ASSUME NEW b \in BlockIds, Writers(b) # {}
        PROVE  \A w \in Writers(b) : Prefix(w[1], MinOf(w[2] * BlockSize, ContextEnd(w[1]))) \in Seq(Token)
    <3>. SUFFICES ASSUME NEW w \in Writers(b)
                  PROVE Prefix(w[1], MinOf(w[2] * BlockSize, ContextEnd(w[1]))) \in Seq(Token)
      OBVIOUS
    <3>1. PICK q \in Seqs, k \in Nat : w[1] = q /\ w[2] = k
      <4>1. w[1] \in Range(Scheduled) /\ w[2] \in 1 .. MaxLen
        BY DEF Writers
      <4>. QED
        BY <1>1, <4>1, RunFacts, BlockManagerAssumption
    <3>2. k * BlockSize \in Nat
      BY BlockManagerAssumption
    <3>3. /\ token_ids[q] \in Seq(Token) /\ ContextEnd(q) \in Nat /\ ContextEnd(q) <= Len(token_ids[q])
      BY <1>2, Types DEF SeqLen
    <3>4. PICK n \in Nat : n = MinOf(k * BlockSize, ContextEnd(q)) /\ n <= Len(token_ids[q])
      BY <3>2, <3>3 DEF MinOf
    <3>5. SubSeq(token_ids[q], 1, n) \in Seq(Token)
      BY <3>3, <3>4
    <3>. QED
      BY <3>1, <3>4, <3>5 DEF Prefix
  <2>2. ASSUME NEW b \in BlockIds PROVE KvAfter[b] \in Seq(Token)
    <3>1. CASE Writers(b) = {}
      <4>1. kv[b] \in Seq(Token)
        BY <1>2 DEF SchedTypeOK
      <4>. QED
        BY <3>1, <4>1 DEF KvAfter
    <3>2. CASE Writers(b) # {}
      <4>1. (CHOOSE w \in Writers(b) : TRUE) \in Writers(b)
        BY <3>2
      <4>2. KvAfter[b] = LET w == CHOOSE w \in Writers(b) : TRUE
                         IN  Prefix(w[1], MinOf(w[2] * BlockSize, ContextEnd(w[1])))
        BY <3>2 DEF KvAfter
      <4>. QED
        BY <2>1, <3>2, <4>1, <4>2
    <3>. QED
      BY <3>1, <3>2
  <2>3. KvAfter = [b \in BlockIds |-> KvAfter[b]]
    BY DEF KvAfter
  <2>. QED
    BY <1>1, <2>2, <2>3
<1>8. AtInv'
  BY <1>1, <1>5, <1>6 DEF AtInv
<1>9. RowsInv'
  <2>1. PICK R \in Nat : R = Len(rows) /\ DOMAIN rows = 1 .. R
    <3>1. rows \in Seq(Seqs)
      BY <1>5
    <3>. QED
      BY <3>1
  <2>2. RowsLeft' = 1 .. R
    <3>1. RowsLeft' = {i \in 1 .. R : i >= 1}
      BY <1>1, <1>6, <2>1 DEF RowsLeft
    <3>. QED
      BY <3>1
  <2>3. Scheduled' = Scheduled
    BY <1>6 DEF Scheduled
  <2>4. \A i \in 1 .. R : rows[i] \in Range(Scheduled)
    BY <1>5, <2>1 DEF Range
  <2>5. \A s \in Range(Scheduled) : status[s] = "RUNNING" /\ s \in Seqs
                                    /\ ContextEnd(s) <= SeqLen(s)
    BY <1>1, RunFacts
  <2>6. ASSUME NEW s \in Range(Scheduled)
        PROVE  ContextEnd(s) < SeqLen(s) \/ \E i \in 1 .. R : rows[i] = s
    <3>1. CASE s \in ends
      BY <1>5, <2>1, <3>1 DEF Range
    <3>2. CASE s \notin ends
      <4>1. ContextEnd(s) \in Nat /\ SeqLen(s) \in Nat
        BY <1>2, <2>5, Types
      <4>. QED
        BY <2>5, <3>2, <4>1
    <3>. QED
      BY <3>1, <3>2
  <2>7. \A s \in Seqs : ContextEnd(s)' = ContextEnd(s) /\ SeqLen(s)' = SeqLen(s)
    BY <1>3 DEF ContextEnd, SeqLen
  <2>8. \A s \in Range(Scheduled) :
            status'[s] = "RUNNING" /\ (ContextEnd(s)' < SeqLen(s)' \/ \E i \in RowsLeft' : step'.rows[i] = s)
    BY <1>1, <1>6, <2>2, <2>5, <2>6, <2>7
  <2>9. /\ IsInjective(step'.rows) /\ Range(step'.rows) \subseteq Range(Scheduled)
        /\ \A i \in RowsLeft' : status'[step'.rows[i]] = "RUNNING"
    BY <1>1, <1>5, <1>6, <2>2, <2>4, <2>5
  <2>. QED
    BY <1>1, <2>3, <2>8, <2>9 DEF RowsInv
<1>10. \A s \in Seqs : SeqLen(s)' >= SeqLen(s) /\ SeqLen(s)' \in Nat
  BY <1>2, <1>3, Types DEF SeqLen
<1>11. Processing /\ Processing'
  BY <1>1 DEF Processing
<1>. QED
  BY <1>1, <1>3, <1>4, <1>6, <1>7, <1>8, <1>9, <1>10, <1>11, ProcessKeeps

(* Every row that reached its end has its token.                            *)
LEMMA SampleEndKeeps ==
    ASSUME SchedInv, SampleEnd
    PROVE  SchedInv'
<1>1. /\ pc = "sample" /\ pc' = "advance" /\ call = NoCall /\ step.at > Len(step.rows)
      /\ UNCHANGED bmVars
      /\ UNCHANGED <<status, num_prompt_tokens, waiting, running, chunked_req, kv, step>>
  BY DEF SampleEnd, At, Goto, schedVars
<1>2. /\ EvictionInv /\ SchedTypeOK /\ step \in Step /\ PoolInv /\ RowsInv
  BY BatchTypes DEF SchedInv, EvictionInv, CallsInv, CacheInv
<1>3. /\ call' = call
      /\ UNCHANGED <<block_table, num_cached_tokens, num_new_tokens, token_ids>>
  BY <1>1 DEF bmVars, seqVars
<1>4. EvictionInv' /\ kv' \in [BlockIds -> Seq(Token)]
  BY <1>1, <1>2, StillEviction DEF SchedTypeOK
<1>5. AtInv'
  BY <1>1 DEF AtInv
<1>6. RowsLeft' = RowsLeft
  BY <1>1 DEF RowsLeft
<1>7. RowsInv'
  BY <1>1, <1>2, <1>3, <1>6 DEF RowsInv, Scheduled, ContextEnd, SeqLen
<1>8. \A s \in Seqs : SeqLen(s)' >= SeqLen(s) /\ SeqLen(s)' \in Nat
  BY <1>2, <1>3, Types DEF SeqLen
<1>9. Processing /\ Processing'
  BY <1>1 DEF Processing
<1>. QED
  BY <1>1, <1>2, <1>3, <1>4, <1>5, <1>7, <1>8, <1>9, ProcessKeeps

(* A row gets its token.                                                    *)
LEMMA SampleKeeps ==
    ASSUME SchedInv, NEW t \in Token, Sample(t)
    PROVE  SchedInv' /\ Next
<1>1. /\ pc = "sample" /\ call = NoCall /\ step.at <= Len(step.rows)
      /\ AppendToken(step.rows[step.at], t)
      /\ \/ pc' = "stop" /\ step' = step
         \/ pc' = "sample" /\ step' = [step EXCEPT !.at = @ + 1]
      /\ UNCHANGED <<status, num_prompt_tokens, waiting, running, chunked_req, kv>>
  BY DEF Sample, At, Goto, schedVars
<1>2. /\ EvictionInv /\ SchedTypeOK /\ step \in Step /\ PoolInv /\ RowsInv /\ AtInv
      /\ step.rows \in Seq(Seqs)
  BY BatchTypes DEF SchedInv, EvictionInv, CallsInv, CacheInv
<1>3. PICK R \in Nat, i \in Nat : R = Len(step.rows) /\ DOMAIN step.rows = 1 .. R /\ i = step.at
                                  /\ i \in 1 .. R
  <2>1. step.at \in 1 .. Len(step.rows) + 1
    BY <1>1, <1>2 DEF AtInv
  <2>. QED
    BY <1>1, <1>2, <2>1
<1>4. PICK s \in Seqs : s = step.rows[i]
  BY <1>2, <1>3
<1>5. Next
  BY <1>1, <1>3, <1>4 DEF Next
<1>6. EvictionInv' /\ PoolInv'
  BY <1>2, <1>5, LegalEviction DEF EvictionInv, CallsInv, CacheInv
<1>7. /\ call' = NoCall
      /\ UNCHANGED <<block_table, num_cached_tokens, num_new_tokens>>
      /\ token_ids' = [token_ids EXCEPT ![s] = Append(@, t)]
  BY <1>1, <1>3, <1>4 DEF AppendToken, seqVars
<1>8. /\ SeqLen(s)' = SeqLen(s) + 1 /\ \A q \in Seqs \ {s} : SeqLen(q)' = SeqLen(q)
      /\ \A q \in Seqs : SeqLen(q)' >= SeqLen(q) /\ SeqLen(q)' \in Nat
  <2>1. \A q \in Seqs : token_ids[q] \in Seq(Token) /\ SeqLen(q) \in Nat
    BY <1>2, Types
  <2>2. token_ids \in [Seqs -> Seq(Token)]
    BY <1>2 DEF PoolInv, TypeOK
  <2>3. SeqLen(s)' = SeqLen(s) + 1
    BY <1>7, <2>1, <2>2, AppendFacts DEF SeqLen
  <2>4. \A q \in Seqs \ {s} : SeqLen(q)' = SeqLen(q)
    BY <1>7, <2>2 DEF SeqLen
  <2>. QED
    BY <2>1, <2>3, <2>4
<1>9. /\ step' \in Step /\ step'.at = (IF pc' = "stop" THEN i ELSE i + 1)
      /\ UNCHANGED <<step.decode, step.chunk, step.chunk_tokens, step.ranked,
                     step.admitted, step.prefill, step.rows>>
  <2>1. CASE pc' = "stop" /\ step' = step
    BY <1>2, <1>3, <2>1
  <2>2. CASE pc' = "sample" /\ step' = [step EXCEPT !.at = @ + 1]
    <3>1. PICK m \in Nat : m = i + 1
      OBVIOUS
    <3>2. step' = [step EXCEPT !.at = m]
      BY <1>3, <2>2, <3>1
    <3>. QED
      BY <1>2, <2>2, <3>1, <3>2 DEF Step
  <2>. QED
    BY <1>1, <2>1, <2>2
<1>10. AtInv'
  BY <1>1, <1>3, <1>9 DEF AtInv
<1>11. /\ RowsLeft = i .. R /\ RowsLeft' = i + 1 .. R
  <2>1. RowsLeft = i .. R
    BY <1>1, <1>3 DEF RowsLeft
  <2>2. RowsLeft' = i + 1 .. R
    <3>1. CASE pc' = "stop"
      BY <1>3, <1>9, <3>1 DEF RowsLeft
    <3>2. CASE pc' # "stop"
      BY <1>3, <1>9, <3>2 DEF RowsLeft
    <3>. QED
      BY <3>1, <3>2
  <2>. QED
    BY <2>1, <2>2
<1>12. RowsInv'
  <2>1. Scheduled' = Scheduled /\ step'.rows = step.rows
    BY <1>9 DEF Scheduled
  <2>2. /\ IsInjective(step.rows) /\ Range(step.rows) \subseteq Range(Scheduled)
        /\ \A j \in i .. R : status[step.rows[j]] = "RUNNING"
        /\ \A q \in Range(Scheduled) :
            \/ status[q] = "FINISHED"
            \/ status[q] = "RUNNING" /\ (ContextEnd(q) < SeqLen(q)
                                          \/ \E j \in i .. R : step.rows[j] = q)
    BY <1>1, <1>2, <1>11 DEF RowsInv
  <2>3. status[step.rows[i]] = "RUNNING" /\ \A j \in i + 1 .. R : status[step.rows[j]] = "RUNNING"
    BY <1>3, <2>2
  <2>4. ASSUME NEW q \in Range(Scheduled), status[q] # "FINISHED"
        PROVE  status[q] = "RUNNING" /\ (ContextEnd(q)' < SeqLen(q)'
                                          \/ \E j \in i + 1 .. R : step.rows[j] = q)
    <3>1. q \in Seqs
      <4>1. Scheduled \in Seq(Seqs)
        BY BatchTypes, ConcatFacts DEF Scheduled
      <4>. QED
        BY <4>1 DEF Range
    <3>2. ContextEnd(q)' = ContextEnd(q) /\ ContextEnd(q) \in Nat /\ SeqLen(q) \in Nat
          /\ ContextEnd(q) <= SeqLen(q)
      BY <1>2, <1>7, <3>1, Types DEF ContextEnd
    <3>3. CASE q = s
      <4>1. ContextEnd(q)' < SeqLen(q)'
        BY <1>8, <3>2, <3>3
      <4>. QED
        BY <2>2, <2>4, <4>1
    <3>4. CASE q # s
      <4>1. (\E j \in i .. R : step.rows[j] = q) => \E j \in i + 1 .. R : step.rows[j] = q
        BY <1>3, <1>4, <3>4
      <4>. QED
        BY <1>8, <2>2, <2>4, <3>1, <3>2, <3>4, <4>1
    <3>. QED
      BY <3>3, <3>4
  <2>5. pc' = "stop" => status[step.rows[step'.at]] = "RUNNING"
    BY <1>9, <2>3
  <2>. QED
    BY <1>1, <1>11, <2>1, <2>2, <2>3, <2>4, <2>5 DEF RowsInv
<1>13. Processing /\ Processing' /\ kv' \in [BlockIds -> Seq(Token)] /\ pc' # "run"
  BY <1>1, <1>2 DEF Processing, SchedTypeOK
<1>. QED
  BY <1>1, <1>5, <1>6, <1>7, <1>8, <1>9, <1>10, <1>12, <1>13, ProcessKeeps

(* A row that stops gives its blocks back; it may be in running, be the      *)
(* chunk, or have been admitted in this very step.                          *)
LEMMA FinishKeeps ==
    ASSUME SchedInv, Finish
    PROVE  SchedInv' /\ Next
<1>a. /\ EvictionInv /\ SchedTypeOK /\ step \in Step /\ QueueInv /\ AtInv /\ DecodeInv /\ ChunkInv
      /\ PrefillInv /\ RankedInv /\ AdmittedInv /\ LastPartialInv /\ HoldingInv /\ TokensInv
      /\ RowsInv /\ step.rows \in Seq(Seqs)
  BY BatchTypes DEF SchedInv
<1>1. /\ pc = "stop" /\ pc' = "sample" /\ call = NoCall
      /\ status' = [status EXCEPT ![step.rows[step.at]] = "FINISHED"]
      /\ Deallocate(step.rows[step.at])
      /\ chunked_req' = (IF chunked_req = step.rows[step.at] THEN NoSeq ELSE chunked_req)
      /\ running' = (IF step.rows[step.at] \in Range(running)
                       THEN Removed(running, step.rows[step.at]) ELSE running)
      /\ step' = [step EXCEPT !.at = @ + 1]
      /\ UNCHANGED <<num_prompt_tokens, waiting, kv>>
  BY DEF Finish, At, Goto
<1>2. PICK R \in Nat, i \in Nat : R = Len(step.rows) /\ DOMAIN step.rows = 1 .. R /\ i = step.at
                                  /\ i \in 1 .. R
  <2>1. step.at \in 1 .. Len(step.rows)
    BY <1>1, <1>a DEF AtInv
  <2>. QED
    BY <1>a, <2>1
<1>3. PICK s \in Seqs : s = step.rows[i]
  BY <1>a, <1>2
<1>4. /\ status[s] = "RUNNING" /\ s # NoSeq
      /\ IsInjective(running) /\ running \in Seq(Seqs) /\ status \in [Seqs -> Statuses]
      /\ chunked_req \in Seqs \cup {NoSeq} /\ MaxNumSeqs \in Nat /\ Len(running) \in Nat
  <2>1. status[step.rows[step.at]] = "RUNNING"
    BY <1>1, <1>a DEF RowsInv
  <2>. QED
    BY <1>2, <1>3, <1>a, <2>1, SchedulerAssumption DEF QueueInv, SchedTypeOK
<1>5. /\ running' \in Seq(Seqs) /\ IsInjective(running') /\ Len(running') \in Nat
      /\ Range(running') = Range(running) \ {s} /\ Len(running') <= Len(running)
  <2>1. CASE s \in Range(running)
    <3>1. running' = Removed(running, s)
      BY <1>1, <1>2, <1>3, <2>1
    <3>2. /\ Removed(running, s) \in Seq(Seqs) /\ IsInjective(Removed(running, s))
          /\ Range(Removed(running, s)) = Range(running) \ {s}
          /\ Len(Removed(running, s)) = Len(running) - 1
      BY <1>4, <2>1, RemovedFacts
    <3>3. Len(running') \in Nat
      BY <3>1, <3>2
    <3>. QED
      BY <1>4, <3>1, <3>2, <3>3
  <2>2. CASE s \notin Range(running)
    <3>1. running' = running
      BY <1>1, <1>2, <1>3, <2>2
    <3>. QED
      BY <1>4, <2>2, <3>1
  <2>. QED
    BY <2>1, <2>2
<1>6. /\ chunked_req' \in Seqs \cup {NoSeq} /\ chunked_req' # s
      /\ chunked_req' # NoSeq => chunked_req' = chunked_req
      /\ chunked_req # s => chunked_req' = chunked_req
  BY <1>1, <1>2, <1>3, <1>4
<1>7. /\ status'[s] = "FINISHED" /\ \A q \in Seqs \ {s} : status'[q] = status[q]
      /\ status' \in [Seqs -> Statuses]
  BY <1>1, <1>2, <1>3, <1>4 DEF Statuses
<1>8. Next
  BY <1>1, <1>2, <1>3 DEF Next, Call
<1>9. EvictionInv' /\ TypeOK'
  BY <1>8, <1>a, LegalEviction
<1>10. /\ call' = [op |-> "release", seq |-> s]
       /\ UNCHANGED <<block_table, num_cached_tokens, num_new_tokens, token_ids>>
  BY <1>1, <1>2, <1>3 DEF Deallocate, seqVars
<1>11. /\ step' \in Step /\ step'.at = i + 1
       /\ UNCHANGED <<step.decode, step.chunk, step.chunk_tokens, step.ranked,
                      step.admitted, step.prefill, step.rows>>
  <2>1. PICK m \in Nat : m = i + 1
    OBVIOUS
  <2>2. step' = [step EXCEPT !.at = m]
    BY <1>1, <1>2, <2>1
  <2>. QED
    BY <1>a, <2>1, <2>2 DEF Step
<1>12. /\ ~Scheduling /\ ~Scheduling' /\ InBatch /\ InBatch' /\ Processing /\ Processing'
       /\ Allocated' = Allocated /\ Allocated = Len(step.admitted)
       /\ ChunkRows' = ChunkRows /\ DecodeFrom' = DecodeFrom
  <2>1. ~Scheduling /\ ~Scheduling' /\ InBatch /\ InBatch' /\ Processing /\ Processing'
    BY <1>1 DEF Scheduling, Processing, InBatch
  <2>. QED
    BY <1>1, <1>11, <2>1 DEF Allocated, ChunkRows, ChunkWaits, DecodeFrom
<1>13. SchedTypeOK'
  BY <1>1, <1>5, <1>6, <1>7, <1>9, <1>11, <1>a DEF SchedTypeOK, Phases
<1>14. PhaseInv'
  BY <1>1, <1>7, <1>10 DEF PhaseInv
<1>15. QueueInv'
  <2>1. s \notin Range(waiting) /\ \A q \in Seqs : q \in Range(waiting) <=> status'[q] = "WAITING"
    BY <1>4, <1>7, <1>a DEF QueueInv
  <2>2. \A q \in Range(running') : status'[q] = "RUNNING"
    <3>1. Range(running) \subseteq Seqs
      BY <1>4 DEF Range
    <3>. QED
      BY <1>5, <1>7, <1>a, <3>1 DEF QueueInv
  <2>3. chunked_req' # NoSeq => status'[chunked_req'] = "RUNNING" /\ chunked_req' \notin Range(running')
    BY <1>4, <1>5, <1>6, <1>7, <1>a DEF QueueInv
  <2>4. \A q \in Seqs : status'[q] = "RUNNING" =>
            q \in Range(running') \/ q = chunked_req' \/ q \in Range(step'.prefill)
    BY <1>5, <1>6, <1>7, <1>11, <1>a DEF QueueInv
  <2>5. Len(running') + Chunked' <= MaxNumSeqs
    <3>1. Len(running) + Chunked <= MaxNumSeqs
      BY <1>a DEF QueueInv
    <3>2. Chunked \in {0, 1} /\ Chunked' \in {0, 1} /\ (Chunked' = 1 => Chunked = 1)
      BY <1>6 DEF Chunked
    <3>. QED
      BY <1>4, <1>5, <3>1, <3>2
  <2>6. IsInjective(waiting')
    BY <1>1, <1>a DEF QueueInv
  <2>. QED
    BY <1>1, <1>5, <2>1, <2>2, <2>3, <2>4, <2>5, <2>6 DEF QueueInv
<1>16. AtInv'
  BY <1>1, <1>2, <1>11 DEF AtInv
<1>17. DecodeInv'
  <2>1. PICK D \in Nat : D = Len(step.decode)
    BY BatchTypes
  <2>2. Range(step.decode) \subseteq Seqs
    BY BatchTypes DEF Range
  <2>3. /\ IsInjective(step.decode) /\ Range(running) \subseteq Range(step.decode)
        /\ Len(running) <= D
        /\ \A q \in Range(step.decode) : q \in Range(running) \/ status[q] = "FINISHED"
    BY <1>12, <1>a, <2>1 DEF DecodeInv
  <2>4. \A q \in Range(step.decode) : q \in Range(running') \/ status'[q] = "FINISHED"
    BY <1>5, <1>7, <2>2, <2>3
  <2>5. Len(running') <= D
    BY <1>4, <1>5, <2>1, <2>3
  <2>. QED
    BY <1>5, <1>11, <1>12, <2>1, <2>3, <2>4, <2>5 DEF DecodeInv
<1>18. ChunkInv' /\ PrefillInv'
  BY <1>6, <1>7, <1>11, <1>12, <1>a DEF ChunkInv, PrefillInv
<1>19. RankedInv' /\ PartialInv'
  BY <1>1, <1>11, <1>12, <1>a DEF RankedInv, PartialInv
<1>20. AdmittedInv'
  <2>1. PICK N \in Nat : N = Len(step.admitted) /\ DOMAIN step.admitted = 1 .. N
                         /\ \A j \in 1 .. N : step.admitted[j].seq \in Seqs
    BY BatchTypes
  <2>2. \A j \in 1 .. N : status'[step.admitted[j].seq] \in {"RUNNING", "FINISHED"}
    BY <1>7, <1>12, <1>a, <2>1 DEF AdmittedInv
  <2>3. \A q \in Seqs : SeqLen(q)' = SeqLen(q)
    BY <1>10 DEF SeqLen
  <2>4. \A j \in 1 .. N : SeqLen(step.admitted[j].seq)' = SeqLen(step.admitted[j].seq)
    BY <1>11, <2>1, <2>3
  <2>. QED
    BY <1>11, <1>12, <1>a, <2>1, <2>2, <2>4 DEF AdmittedInv
<1>21. LastPartialInv'
  <2>1. PICK P \in Nat : P = Len(step.prefill) /\ \A j \in 1 .. P : step.prefill[j] \in Seqs
    BY BatchTypes
  <2>2. ASSUME NEW j \in 1 .. P - 1, status'[step.prefill[j]] # "FINISHED"
        PROVE  ContextEnd(step.prefill[j]) >= num_prompt_tokens[step.prefill[j]]
    <3>1. j \in 1 .. P
      BY <2>1
    <3>. QED
      BY <1>7, <1>12, <1>a, <2>1, <2>2, <3>1 DEF LastPartialInv, Unfinished
  <2>. QED
    BY <1>1, <1>10, <1>11, <2>1, <2>2 DEF LastPartialInv, Unfinished, ContextEnd
<1>22. HoldingInv'
  <2>1. \A q \in Seqs : /\ Fresh(q)' <=> Fresh(q)
                        /\ ~Releasing(q) /\ (Releasing(q)' <=> q = s)
    BY <1>1, <1>10 DEF Fresh, Releasing, NoCall
  <2>2. \A j : ~Claimed(j)
    BY <1>1 DEF Claimed
  <2>3. \A q \in Seqs : status'[q] \in {"new", "FINISHED", "WAITING"} => Fresh(q)' \/ Releasing(q)'
    BY <1>7, <1>a, <2>1, <2>2 DEF HoldingInv
  <2>4. \A q \in Seqs : status'[q] = "RUNNING" => block_table'[q] # <<>>
    BY <1>1, <1>7, <1>10, <1>a DEF HoldingInv, NoCall
  <2>. QED
    BY <1>12, <2>3, <2>4 DEF HoldingInv
<1>23. TokensInv'
  <2>1. \A q \in Seqs : status'[q] = "RUNNING" => status[q] = "RUNNING"
    BY <1>7
  <2>2. /\ \A q \in Seqs : num_prompt_tokens'[q] <= SeqLen(q)'
        /\ \A q \in Seqs : status'[q] = "RUNNING" => num_cached_tokens'[q] < SeqLen(q)'
        /\ \A q \in Seqs : num_new_tokens'[q] > 0 =>
             \/ q \in Range(step.prefill)
             \/ \E j \in DOMAIN step.decode : j < DecodeFrom /\ step.decode[j] = q
    BY <1>1, <1>10, <1>a, <2>1 DEF TokensInv, SeqLen
  <2>. QED
    BY <1>1, <1>11, <1>12, <2>2 DEF TokensInv
<1>24. RowsInv'
  <2>1. Scheduled' = Scheduled
    BY <1>11 DEF Scheduled
  <2>2. RowsLeft = i + 1 .. R /\ RowsLeft' = i + 1 .. R
    <3>1. RowsLeft = i + 1 .. R
      BY <1>1, <1>2 DEF RowsLeft
    <3>2. RowsLeft' = {j \in 1 .. R : j >= i + 1}
      BY <1>1, <1>2, <1>11 DEF RowsLeft
    <3>. QED
      BY <3>1, <3>2
  <2>3. Scheduled \in Seq(Seqs)
    BY BatchTypes, ConcatFacts DEF Scheduled
  <2>4. Range(Scheduled) \subseteq Seqs
    BY <2>3 DEF Range
  <2>5. /\ IsInjective(step.rows) /\ Range(step.rows) \subseteq Range(Scheduled)
        /\ \A j \in i + 1 .. R : status[step.rows[j]] = "RUNNING"
        /\ \A q \in Range(Scheduled) :
            \/ status[q] = "FINISHED"
            \/ status[q] = "RUNNING" /\ (ContextEnd(q) < SeqLen(q)
                                          \/ \E j \in i + 1 .. R : step.rows[j] = q)
    BY <1>1, <1>a, <2>2 DEF RowsInv
  <2>6. \A j \in i + 1 .. R : step.rows[j] \in Seqs \ {s}
    <3>. SUFFICES ASSUME NEW j \in i + 1 .. R PROVE step.rows[j] \in Seqs \ {s}
      OBVIOUS
    <3>1. j \in 1 .. R /\ j # i /\ step.rows[j] \in Seqs
      BY <1>2, <1>a
    <3>. QED
      BY <1>2, <1>3, <2>5, <3>1 DEF IsInjective
  <2>7. \A q \in Seqs : ContextEnd(q)' = ContextEnd(q) /\ SeqLen(q)' = SeqLen(q)
    BY <1>10 DEF ContextEnd, SeqLen
  <2>8. \A q \in Range(Scheduled) :
            \/ status'[q] = "FINISHED"
            \/ status'[q] = "RUNNING" /\ (ContextEnd(q)' < SeqLen(q)'
                                          \/ \E j \in i + 1 .. R : step.rows[j] = q)
    BY <1>7, <2>4, <2>5, <2>7
  <2>9. \A j \in i + 1 .. R : status'[step.rows[j]] = "RUNNING"
    BY <1>7, <2>5, <2>6
  <2>. QED
    BY <1>1, <1>11, <2>1, <2>2, <2>5, <2>8, <2>9 DEF RowsInv
<1>25. BudgetInv' /\ ReserveInv' /\ PlansInv'
  BY <1>1, <1>12 DEF BudgetInv, ReserveInv, PlansInv
<1>. QED
  BY <1>8, <1>9, <1>13, <1>14, <1>15, <1>16, <1>17, <1>18, <1>19, <1>20, <1>21, <1>22, <1>23,
     <1>24, <1>25 DEF SchedInv

LEMMA EmptyStepType == EmptyStep \in Step
<1>1. /\ [s \in Seqs |-> <<>>] \in [Seqs -> Seq(BlockIds)]
      /\ [b \in BlockIds |-> NoLineage] \in [BlockIds -> LineageIds \cup {NoLineage}]
      /\ [s \in Seqs |-> NoHits] \in [Seqs -> [initial : Nat, same_step : Nat]]
  BY DEF NoHits
<1>. QED
  BY <1>1 DEF EmptyStep, Step

(* The batch is over: who has completed its prompt starts to run, and the    *)
(* one prefill that stopped short of it, always the last, is chunked_req.    *)
LEMMA AdvanceKeeps ==
    ASSUME SchedInv, AdvanceBatch
    PROVE  SchedInv' /\ Next
<1>. DEFINE S == {s \in Range(Scheduled) : Unfinished(s)}
<1>a. /\ EvictionInv /\ SchedTypeOK /\ QueueInv /\ AtInv /\ DecodeInv /\ ChunkInv
      /\ PrefillInv /\ LastPartialInv /\ HoldingInv /\ TokensInv /\ RowsInv
  BY DEF SchedInv
<1>1. /\ pc = "advance" /\ pc' = "idle" /\ call = NoCall
      /\ Advance(S)
      /\ running' = running \o CompletedPrefills
      /\ chunked_req' = IF step.prefill = <<>> THEN chunked_req
                        ELSE IF PartialPrefills = <<>> THEN NoSeq
                        ELSE Head(PartialPrefills)
      /\ step' = EmptyStep
      /\ UNCHANGED <<status, num_prompt_tokens, waiting, kv>>
  BY DEF AdvanceBatch, At, Goto
<1>2. InBatch /\ Processing /\ ~Scheduling /\ \A q \in Seqs : ~Releasing(q)
  BY <1>1 DEF InBatch, Processing, Scheduling, Releasing, NoCall
<1>3. /\ step.prefill \in Seq(Seqs) /\ step.decode \in Seq(Seqs) /\ running \in Seq(Seqs)
      /\ IsInjective(step.prefill) /\ Range(step.prefill) \cap Range(step.decode) = {}
      /\ Range(running) \subseteq Range(step.decode) /\ IsInjective(running)
      /\ status \in [Seqs -> Statuses] /\ chunked_req \in Seqs \cup {NoSeq} /\ NoSeq \notin Seqs
      /\ Len(running) <= Len(step.decode)
  BY <1>2, <1>a, BatchTypes, PrefillRows DEF DecodeInv, QueueInv
<1>4. /\ Scheduled \in Seq(Seqs) /\ Range(Scheduled) = Range(step.prefill) \cup Range(step.decode)
  BY <1>3, ConcatFacts DEF Scheduled
<1>5. S \subseteq Seqs
  BY <1>4 DEF Range
<1>6. Next
  BY <1>1, <1>5 DEF Next
<1>7. EvictionInv' /\ TypeOK'
  BY <1>6, <1>a, LegalEviction
<1>8. /\ call' = NoCall /\ UNCHANGED <<token_ids, block_table>>
      /\ \A q \in S : num_cached_tokens'[q] = ContextEnd(q) /\ num_new_tokens'[q] = 0
      /\ \A q \in Seqs \ S : /\ num_cached_tokens'[q] = num_cached_tokens[q]
                             /\ num_new_tokens'[q] = num_new_tokens[q]
  BY <1>1, <1>5 DEF Advance
<1>9. \A q \in Range(Scheduled) : \/ q \notin S /\ status[q] = "FINISHED"
                                  \/ q \in S /\ status[q] = "RUNNING" /\ ContextEnd(q) < SeqLen(q)
  <2>1. RowsLeft = {}
    <3>1. step.at > Len(step.rows) /\ step.rows \in Seq(Seqs) /\ step.at \in Nat
      BY <1>1, <1>a, BatchTypes DEF RowsInv
    <3>. QED
      BY <1>1, <3>1 DEF RowsLeft
  <2>2. \A q \in Range(Scheduled) :
            \/ status[q] = "FINISHED"
            \/ status[q] = "RUNNING" /\ (ContextEnd(q) < SeqLen(q)
                                          \/ \E i \in RowsLeft : step.rows[i] = q)
    BY <1>1, <1>a DEF RowsInv
  <2>. QED
    BY <2>1, <2>2 DEF Unfinished
<1>. DEFINE done == {s \in Seqs : /\ Unfinished(s) /\ ContextEnd(s) >= num_prompt_tokens[s]
                                  /\ s \notin Range(running)}
            short == {s \in Seqs : Unfinished(s) /\ ContextEnd(s) < num_prompt_tokens[s]}
<1>10. \A q \in Seqs : ContextEnd(q) \in Nat /\ num_prompt_tokens[q] \in Nat
  <2>1. \A q \in Seqs : ContextEnd(q) \in Nat
    BY <1>a, Types DEF EvictionInv, CallsInv, CacheInv
  <2>2. \A q \in Seqs : num_prompt_tokens[q] \in Nat
    BY <1>a, BlockManagerAssumption DEF SchedTypeOK
  <2>. QED
    BY <2>1, <2>2
<1>11. PICK completed \in Seq(Seqs), partial \in Seq(Seqs) :
          /\ completed = CompletedPrefills /\ partial = PartialPrefills
          /\ IsInjective(completed)
          /\ Range(completed) = Range(step.prefill) \cap done
          /\ Range(partial) = Range(step.prefill) \cap short
          /\ Len(completed) + Len(partial) <= Len(step.prefill)
  <2>1. done \cap short = {}
    BY <1>10
  <2>2. /\ CompletedPrefills = Filter(step.prefill, done)
        /\ PartialPrefills = Filter(step.prefill, short)
    BY DEF CompletedPrefills, PartialPrefills
  <2>. HIDE DEF done, short
  <2>3. /\ CompletedPrefills \in Seq(Seqs) /\ PartialPrefills \in Seq(Seqs)
        /\ IsInjective(CompletedPrefills)
        /\ Range(CompletedPrefills) = Range(step.prefill) \cap done
        /\ Range(PartialPrefills) = Range(step.prefill) \cap short
    BY <1>3, <2>2, FilterFacts
  <2>4. Len(CompletedPrefills) + Len(PartialPrefills) <= Len(step.prefill)
    BY <1>3, <2>1, <2>2, FilterLengths
  <2>. QED
    BY <2>3, <2>4
<1>12. /\ running' \in Seq(Seqs) /\ IsInjective(running')
       /\ Range(running') = Range(running) \cup Range(completed)
       /\ Len(running') = Len(running) + Len(completed)
  <2>1. Range(running) \cap Range(completed) = {}
    BY <1>11
  <2>2. running' = running \o completed
    BY <1>1, <1>11
  <2>. QED
    BY <1>3, <1>11, <2>1, <2>2, ConcatFacts
<1>13. PICK L \in Nat : L = Len(step.prefill) /\ DOMAIN step.prefill = 1 .. L
  BY <1>3
<1>14. \A q \in Range(partial) : L >= 1 /\ q = step.prefill[L]
  <2>. SUFFICES ASSUME NEW q \in Range(partial) PROVE L >= 1 /\ q = step.prefill[L]
    OBVIOUS
  <2>1. PICK i \in 1 .. L : q = step.prefill[i]
    BY <1>11, <1>13 DEF Range
  <2>2. q \in Seqs /\ Unfinished(q) /\ ContextEnd(q) < num_prompt_tokens[q]
    BY <1>11
  <2>3. ~(i \in 1 .. L - 1)
    BY <1>2, <1>10, <1>13, <1>a, <2>1, <2>2 DEF LastPartialInv
  <2>. QED
    BY <2>1, <2>3
<1>15. /\ step.prefill = <<>> => chunked_req' = chunked_req
       /\ step.prefill # <<>> /\ partial = <<>> => chunked_req' = NoSeq
       /\ step.prefill # <<>> /\ partial # <<>> => chunked_req' = Head(partial)
  BY <1>1, <1>11
<1>16. partial # <<>> => Head(partial) \in Range(partial) /\ Len(partial) >= 1
  BY <1>11 DEF Range
<1>17. step.prefill = <<>> => Range(partial) = {} /\ Range(completed) = {} /\ Len(completed) = 0
                              /\ Len(partial) = 0
  <2>. SUFFICES ASSUME step.prefill = <<>>
                PROVE  Range(partial) = {} /\ Range(completed) = {} /\ Len(completed) = 0
                       /\ Len(partial) = 0
    OBVIOUS
  <2>1. Len(step.prefill) = 0 /\ Range(step.prefill) = {}
    BY DEF Range
  <2>. QED
    BY <1>11, <2>1
<1>18. chunked_req' \in Seqs \cup {NoSeq}
  BY <1>3, <1>11, <1>15, <1>16 DEF Range
<1>19. EmptyStep \in Step /\ EmptyStep.prefill = <<>> /\ EmptyStep.decode = <<>>
  BY EmptyStepType DEF EmptyStep
<1>20. SchedTypeOK'
  BY <1>1, <1>7, <1>12, <1>18, <1>19, <1>a DEF SchedTypeOK, Phases
<1>21. PhaseInv' /\ AtInv'
  BY <1>1, <1>8 DEF PhaseInv, AtInv, NoCall
<1>22. QueueInv'
  <2>1. \A q \in Range(running') : status[q] = "RUNNING"
    BY <1>4, <1>9, <1>11, <1>12, <1>a DEF QueueInv, Unfinished
  <2>2. chunked_req' # NoSeq => status[chunked_req'] = "RUNNING" /\ chunked_req' \notin Range(running')
    <3>1. CASE step.prefill = <<>>
      BY <1>12, <1>15, <1>17, <1>a, <3>1 DEF QueueInv
    <3>2. CASE step.prefill # <<>> /\ partial = <<>>
      BY <1>15, <3>2
    <3>3. CASE step.prefill # <<>> /\ partial # <<>>
      <4>1. chunked_req' \in Range(step.prefill) /\ chunked_req' \in short
        BY <1>11, <1>15, <1>16, <3>3
      <4>2. chunked_req' \notin Range(running)
        BY <1>3, <4>1
      <4>3. chunked_req' \notin done
        BY <1>10, <4>1
      <4>. QED
        BY <1>4, <1>9, <1>11, <1>12, <4>1, <4>2, <4>3 DEF Unfinished
    <3>. QED
      BY <3>1, <3>2, <3>3
  <2>3. ASSUME NEW q \in Seqs, status[q] = "RUNNING"
        PROVE  q \in Range(running') \/ q = chunked_req'
    <3>1. CASE q \in Range(running)
      BY <1>12, <3>1
    <3>2. CASE q \in Range(step.prefill) /\ q \notin Range(running)
      <4>1. Unfinished(q)
        BY <2>3 DEF Unfinished
      <4>2. CASE ContextEnd(q) >= num_prompt_tokens[q]
        BY <1>11, <1>12, <3>2, <4>1, <4>2
      <4>3. CASE ~(ContextEnd(q) >= num_prompt_tokens[q])
        <5>1. q \in Range(partial)
          BY <1>10, <1>11, <3>2, <4>1, <4>3
        <5>2. partial # <<>> /\ step.prefill # <<>>
          BY <3>2, <5>1 DEF Range
        <5>3. Head(partial) = step.prefill[L] /\ q = step.prefill[L]
          BY <1>14, <1>16, <5>1, <5>2
        <5>. QED
          BY <1>15, <5>2, <5>3
      <4>. QED
        BY <4>2, <4>3
    <3>3. CASE q = chunked_req /\ q \notin Range(step.prefill)
      <4>1. step.chunk = NoSeq
        <5>. SUFFICES ASSUME step.chunk # NoSeq PROVE FALSE
          OBVIOUS
        <5>1. ChunkRows = 1
          BY <1>1 DEF ChunkRows, ChunkWaits
        <5>2. step.chunk \in Range(step.prefill)
          BY <1>2, <5>1, PrefillRows
        <5>3. step.chunk = chunked_req
          BY <1>2, <1>3, <1>a, <2>3, <3>3 DEF ChunkInv
        <5>. QED
          BY <3>3, <5>2, <5>3
      <4>2. step.admitted = <<>>
        BY <1>2, <1>3, <1>a, <3>3, <4>1 DEF ChunkInv
      <4>3. step.prefill = <<>>
        <5>1. Len(step.prefill) = ChunkRows + Allocated
          BY <1>2, <1>a DEF PrefillInv
        <5>2. ChunkRows = 0 /\ Allocated = 0
          BY <1>1, <4>1, <4>2 DEF ChunkRows, Allocated
        <5>. QED
          BY <1>3, <5>1, <5>2
      <4>. QED
        BY <1>15, <3>3, <4>3
    <3>. QED
      BY <1>a, <2>3, <3>1, <3>2, <3>3 DEF QueueInv
  <2>4. Len(running') + Chunked' <= MaxNumSeqs
    <3>1. PICK r \in Nat, m \in Nat, k \in Nat, D \in Nat, N \in Nat :
            /\ r = Len(running) /\ m = Len(completed) /\ k = Len(partial)
            /\ D = Len(step.decode) /\ N = Len(step.admitted)
      BY <1>3, <1>11, BatchTypes
    <3>2. MaxNumSeqs \in Nat
      BY SchedulerAssumption
    <3>3. CASE step.prefill = <<>>
      <4>1. Len(running') = Len(running) /\ Chunked' = Chunked
        BY <1>12, <1>15, <1>17, <3>1, <3>3 DEF Chunked
      <4>. QED
        BY <1>a, <4>1 DEF QueueInv
    <3>4. CASE step.prefill # <<>>
      <4>1. Chunked' <= k /\ Chunked' \in Nat
        BY <1>15, <1>16, <3>1, <3>4 DEF Chunked
      <4>2. Len(step.prefill) = ChunkRows + N /\ ChunkRows = (IF step.chunk = NoSeq THEN 0 ELSE 1)
        <5>1. Len(step.prefill) = ChunkRows + Allocated
          BY <1>2, <1>a DEF PrefillInv
        <5>2. ChunkRows = (IF step.chunk = NoSeq THEN 0 ELSE 1) /\ Allocated = N
          BY <1>1, <3>1 DEF ChunkRows, Allocated, ChunkWaits
        <5>. QED
          BY <5>1, <5>2
      <4>3. PICK c \in {0, 1} : c = ChunkRows
        BY BatchTypes
      <4>4. D + c + N <= MaxNumSeqs
        <5>1. D + (IF step.chunk = NoSeq THEN 0 ELSE 1) + N <= MaxNumSeqs
          BY <1>2, <1>a, <3>1 DEF ChunkInv
        <5>. QED
          BY <4>2, <4>3, <5>1
      <4>5. m + k <= c + N /\ r <= D
        BY <1>3, <1>11, <3>1, <4>2, <4>3
      <4>6. PICK h \in Nat : h = Chunked' /\ h <= k
        BY <4>1
      <4>7. Len(running') = r + m
        BY <1>12, <3>1
      <4>8. r + m + h <= MaxNumSeqs
        <5>1. c \in Nat
          OBVIOUS
        <5>. QED
          <6>1. h <= k
            BY <4>6
          <6>2. m + h <= c + N
            BY <4>5, <5>1, <6>1
          <6>3. r <= D
            BY <4>5
          <6>. QED
            BY <3>2, <4>4, <5>1, <6>2, <6>3
      <4>. QED
        BY <4>6, <4>7, <4>8
    <3>. QED
      BY <3>3, <3>4
  <2>. QED
    BY <1>1, <1>12, <1>a, <2>1, <2>2, <2>3, <2>4 DEF QueueInv
<1>23. HoldingInv'
  <2>1. \A q \in Seqs \ S : Fresh(q)' <=> Fresh(q)
    BY <1>8 DEF Fresh
  <2>2. ~Scheduling' /\ (\A i : ~Claimed(i)) /\ \A q \in Seqs : ~Releasing(q)
    BY <1>1, <1>2 DEF Scheduling, Claimed
  <2>3. \A q \in Seqs : status[q] # "RUNNING" => q \notin S
    BY <1>9
  <2>4. \A q \in Seqs : status'[q] \in {"new", "FINISHED", "WAITING"} => Fresh(q)'
    BY <1>1, <1>a, <2>1, <2>2, <2>3 DEF HoldingInv
  <2>5. \A q \in Seqs : status'[q] = "RUNNING" => block_table'[q] # <<>>
    BY <1>1, <1>8, <1>a DEF HoldingInv, NoCall
  <2>. QED
    BY <2>2, <2>4, <2>5 DEF HoldingInv
<1>24. TokensInv'
  <2>1. \A q \in Seqs : num_prompt_tokens'[q] <= SeqLen(q)' /\ SeqLen(q)' = SeqLen(q)
    BY <1>1, <1>8, <1>a DEF TokensInv, SeqLen
  <2>2. \A q \in Seqs : status'[q] = "RUNNING" => num_cached_tokens'[q] < SeqLen(q)'
    BY <1>1, <1>8, <1>9, <1>a, <2>1 DEF TokensInv
  <2>3. \A q \in Seqs : ~(num_new_tokens'[q] > 0)
    <3>. SUFFICES ASSUME NEW q \in Seqs, num_new_tokens'[q] > 0 PROVE FALSE
      OBVIOUS
    <3>1. q \notin S /\ num_new_tokens[q] > 0
      BY <1>8
    <3>2. q \in Range(Scheduled)
      BY <1>4, <1>a, <3>1 DEF TokensInv, Range
    <3>3. status[q] = "RUNNING"
      BY <1>2, <3>1, ScheduledRuns
    <3>. QED
      BY <1>9, <3>1, <3>2, <3>3
  <2>. QED
    BY <1>1, <2>1, <2>2, <2>3 DEF TokensInv, Scheduling
<1>. QED
  BY <1>1, <1>6, <1>7, <1>20, <1>21, <1>22, <1>23, <1>24, NoBatch DEF SchedInv

-----------------------------------------------------------------------------
(* Admission                                                               *)

(* A current plan of a request that holds nothing is the beginning of what a *)
(* match would find now, so claiming it is a legal call.                    *)
LEMMA PlanIsMatched ==
    ASSUME TypeOK, NEW s \in Seqs, NEW plan \in Seq(BlockIds),
           block_table[s] = <<>>, PlanIsCurrent(s, plan)
    PROVE  /\ Len(MatchPrefix(s)) \in Nat /\ Len(plan) <= Len(MatchPrefix(s))
           /\ SubSeq(MatchPrefix(s), 1, Len(plan)) = plan
<1> DEFINE E == MatchEnds(s)
           stop == CHOOSE k \in E : \A j \in E : j <= k
<1>1. PICK n \in Nat, B \in Nat : n = Len(plan) /\ B = NumSeqBlocks(s) /\ DOMAIN plan = 1 .. n
  <2>1. NumSeqBlocks(s) \in Nat
    <3>1. SeqLen(s) \in Nat
      BY DEF TypeOK
    <3>. QED
      BY <3>1, CeilDivFacts, BlockManagerAssumption DEF NumSeqBlocks
  <2>. QED
    BY <2>1
<1>2. Len(block_table[s]) = 0 /\ Range(block_table[s]) = {}
  BY DEF Range
<1>3. /\ Candidate(s, 0) = None
      /\ \A k \in Nat \ {0} : Candidate(s, k) = Owner(BlockHash(s, k))
  BY <1>2 DEF Candidate, TableAt
<1>4. /\ \A i \in 1 .. n : /\ i < B /\ Owner(BlockHash(s, i)) = plan[i]
                           /\ Stores(plan[i], s, i, IF i - 1 = 0 THEN None ELSE plan[i - 1])
                           /\ Resident(plan[i])
      /\ \A i, j \in 1 .. n : i # j => plan[i] # plan[j]
  BY <1>1, <1>2 DEF PlanIsCurrent, TableAt
<1>5. \A i \in 1 .. n : Candidate(s, i) = plan[i] /\ plan[i] # None
  <2>1. \A i \in 1 .. n : plan[i] \in BlockIds
    BY <1>1
  <2>2. None \notin BlockIds
    BY BlockManagerAssumption DEF None, BlockIds
  <2>. QED
    BY <1>1, <1>3, <1>4, <2>1, <2>2
<1>6. ASSUME NEW i \in 1 .. n PROVE i < B /\ Matches(s, i)
  <2>1. Candidate(s, i - 1) = IF i - 1 = 0 THEN None ELSE plan[i - 1]
    <3>1. CASE i = 1
      BY <1>3, <3>1
    <3>2. CASE i # 1
      <4>1. i - 1 \in 1 .. n /\ i - 1 # 0
        BY <1>1, <3>2
      <4>. QED
        BY <1>5, <4>1
    <3>. QED
      BY <3>1, <3>2
  <2>2. \A j \in 1 .. i - 1 : Candidate(s, j) # plan[i]
    <3>1. \A j \in 1 .. i - 1 : j \in 1 .. n /\ j # i
      BY <1>1
    <3>. QED
      BY <1>4, <1>5, <3>1
  <2>. QED
    BY <1>2, <1>4, <1>5, <2>1, <2>2 DEF Matches
<1>7. E = {k \in 0 .. B : \A j \in 1 .. k : j < B /\ Matches(s, j)}
  BY <1>1, <1>2 DEF MatchEnds
<1>. HIDE DEF E
<1>8. n \in E /\ E \subseteq 0 .. B
  <2>1. n <= B
    <3>1. CASE n = 0
      BY <3>1, <1>1
    <3>2. CASE n > 0
      <4>1. n \in 1 .. n
        BY <1>1, <3>2
      <4>. QED
        BY <1>1, <1>4, <4>1
    <3>. QED
      BY <1>1, <3>1, <3>2
  <2>2. n \in 0 .. B
    BY <1>1, <2>1
  <2>. QED
    BY <1>6, <1>7, <2>2
<1>9. \E k \in E : \A j \in E : j <= k
  <2>1. E \subseteq Nat /\ E # {} /\ \A j \in E : j <= B
    BY <1>1, <1>8
  <2>. QED
    BY <1>1, <2>1, MaxExists
<1>10. stop \in E /\ n <= stop
  BY <1>8, <1>9
<1>. HIDE DEF stop
<1>11. PICK m \in Nat : m = stop /\ n <= m
  BY <1>1, <1>8, <1>10
<1>12. MatchPrefix(s) = [i \in 1 .. m |-> Candidate(s, i)]
  <2>1. MatchPrefix(s) = [i \in 1 .. stop - 0 |-> Candidate(s, 0 + i)]
    BY <1>2 DEF MatchPrefix, stop, E
  <2>2. \A i \in 1 .. m : 0 + i = i
    OBVIOUS
  <2>. QED
    BY <1>11, <2>1, <2>2
<1>13. PICK w \in Seq({Candidate(s, i) : i \in 1 .. m}) :
          w = MatchPrefix(s) /\ Len(w) = m /\ \A i \in 1 .. n : w[i] = plan[i]
  <2>1. \A i \in 1 .. n : MatchPrefix(s)[i] = plan[i]
    BY <1>5, <1>11, <1>12
  <2>2. MatchPrefix(s) \in Seq({Candidate(s, i) : i \in 1 .. m}) /\ Len(MatchPrefix(s)) = m
    BY <1>11, <1>12
  <2>. QED
    BY <2>1, <2>2
<1>14. SubSeq(w, 1, n) = plan
  <2>1. /\ SubSeq(w, 1, n) \in Seq({Candidate(s, i) : i \in 1 .. m}) /\ Len(SubSeq(w, 1, n)) = n
        /\ \A i \in 1 .. n : SubSeq(w, 1, n)[i] = w[i]
    BY <1>11, <1>13
  <2>2. \A i \in 1 .. n : SubSeq(w, 1, n)[i] = plan[i]
    BY <1>13, <2>1
  <2>. HIDE DEF E
  <2>3. DOMAIN SubSeq(w, 1, n) = 1 .. n
    BY <2>1
  <2>4. SubSeq(w, 1, n) = [i \in 1 .. n |-> plan[i]]
    BY <2>1, <2>2, <2>3
  <2>5. plan = [i \in 1 .. n |-> plan[i]]
    BY <1>1
  <2>. QED
    BY <2>4, <2>5
<1>. QED
  BY <1>1, <1>11, <1>13, <1>14

(* The plan of a match is the whole of it.                                   *)
LEMMA WholeMatch ==
    ASSUME NEW S, NEW plan \in Seq(S), plan # <<>>
    PROVE  Len(plan) \in 1 .. Len(plan) /\ SubSeq(plan, 1, Len(plan)) = plan
  OBVIOUS

(* The next plan of the snapshot is claimed: its request holds nothing yet,  *)
(* and what was free in the plan stays set aside in the call.               *)
LEMMA FrozenClaimKeeps ==
    ASSUME SchedInv, FrozenClaim, ~(step.at > Len(step.admitted))
    PROVE  SchedInv' /\ [Next]_bmVars
<1>a. /\ EvictionInv /\ SchedTypeOK /\ PhaseInv /\ QueueInv /\ AtInv /\ DecodeInv
      /\ ChunkInv /\ PrefillInv /\ RankedInv /\ AdmittedInv /\ PartialInv /\ HoldingInv
      /\ TokensInv /\ BudgetInv /\ ReserveInv /\ PlansInv /\ TypeOK /\ step \in Step
  BY BatchTypes DEF SchedInv
<1>1. /\ pc = "claim" /\ pc' = "claim" /\ call = NoCall
      /\ UNCHANGED <<status, num_prompt_tokens, waiting, running, chunked_req, kv>>
      /\ step' = [step EXCEPT !.at = @ + 1]
      /\ IF step.admitted[step.at].plan = <<>> THEN UNCHANGED bmVars
         ELSE ClaimPrefix(step.admitted[step.at].seq, step.admitted[step.at].plan)
  BY DEF FrozenClaim, At, Goto, schedVars
<1>2. PICK N \in Nat, i \in Nat : /\ N = Len(step.admitted) /\ DOMAIN step.admitted = 1 .. N
                                  /\ i = step.at /\ i \in 1 .. N
  <2>1. step.at \in 1 .. Len(step.admitted) + 1 /\ Len(step.admitted) \in Nat
        /\ DOMAIN step.admitted = 1 .. Len(step.admitted)
    BY <1>1, <1>a, BatchTypes DEF AtInv
  <2>. QED
    BY <2>1
<1>3. PICK x \in Seqs, plan \in Seq(BlockIds) :
          x = step.admitted[i].seq /\ plan = step.admitted[i].plan
  BY <1>2, BatchTypes
<1>4. /\ Scheduling /\ Scheduling' /\ InBatch /\ InBatch' /\ ~Processing /\ ~Processing'
      /\ Allocated = 0 /\ Allocated' = 0 /\ ChunkWaits /\ ChunkWaits'
      /\ DecodeFrom = 1 /\ DecodeFrom' = 1 /\ ChunkRows = 0 /\ ChunkRows' = 0
  BY <1>1 DEF Scheduling, InBatch, Processing, Allocated, ChunkWaits, DecodeFrom, ChunkRows
<1>5. /\ status[x] = "WAITING" /\ \A j \in 1 .. N : j # i => step.admitted[j].seq # x
      /\ \A j \in 1 .. N : step.admitted[j].seq \in Seqs
  <2>1. i > Allocated
    BY <1>2, <1>4
  <2>. QED
    BY <1>2, <1>3, <1>4, <1>a, <2>1, BatchTypes DEF AdmittedInv
<1>6. Fresh(x) /\ \A q \in Seqs : ~Releasing(q)
  <2>1. \A q \in Seqs : ~Releasing(q)
    BY <1>1 DEF Releasing, NoCall
  <2>2. \A j \in 1 .. N : Claimed(j) => j < i
    BY <1>1, <1>2 DEF Claimed
  <2>3. ~(i < i)
    BY <1>2
  <2>. QED
    BY <1>2, <1>3, <1>5, <1>a, <2>1, <2>2, <2>3 DEF HoldingInv
<1>7. PlanIsCurrent(x, plan)
  BY <1>1, <1>2, <1>3, <1>a DEF PlansInv
<1>8. /\ \/ plan = <<>> /\ call' = NoCall
         \/ plan # <<>> /\ call' = [op |-> "claim", seq |-> x, plan |-> plan]
      /\ UNCHANGED <<poolVars, token_ids, seqVars, chain>>
      /\ plan # <<>> => ClaimPrefix(x, plan)
      /\ plan = <<>> => UNCHANGED bmVars
  BY <1>1, <1>2, <1>3 DEF ClaimPrefix, bmVars
<1>9. UNCHANGED <<free_block_ids, block_table, num_cached_tokens, num_new_tokens, token_ids>>
  BY <1>8 DEF poolVars, seqVars
<1>10. [Next]_bmVars
  <2>1. CASE plan = <<>>
    BY <1>8, <2>1
  <2>2. CASE plan # <<>>
    <3>1. /\ Len(plan) \in 1 .. Len(MatchPrefix(x)) /\ SubSeq(MatchPrefix(x), 1, Len(plan)) = plan
      <4>1. /\ Len(MatchPrefix(x)) \in Nat /\ Len(plan) <= Len(MatchPrefix(x))
            /\ SubSeq(MatchPrefix(x), 1, Len(plan)) = plan
        BY <1>6, <1>7, <1>a, PlanIsMatched DEF Fresh
      <4>2. Len(plan) \in 1 .. Len(plan)
        BY <2>2, WholeMatch
      <4>. QED
        BY <4>1, <4>2
    <3>2. \E n \in 1 .. Len(MatchPrefix(x)) : ClaimPrefix(x, SubSeq(MatchPrefix(x), 1, n))
      BY <1>8, <2>2, <3>1
    <3>3. num_new_tokens[x] = 0 /\ num_cached_tokens[x] = Len(block_table[x]) * BlockSize
      <4>1. Len(block_table[x]) = 0 /\ 0 * BlockSize = 0
        BY <1>6, BlockManagerAssumption DEF Fresh
      <4>. QED
        BY <1>6, <4>1 DEF Fresh
    <3>4. CallClaim(x)
      BY <3>2, <3>3 DEF CallClaim
    <3>. QED
      BY <3>4 DEF Next, Call
  <2>. QED
    BY <2>1, <2>2
<1>11. EvictionInv' /\ TypeOK'
  <2>1. EvictionInv'
    BY <1>10, <1>a, NextEviction
  <2>. QED
    BY <2>1 DEF EvictionInv, CallsInv, CacheInv, PoolInv
<1>12. /\ step' \in Step /\ step'.at = i + 1
       /\ UNCHANGED <<step.decode, step.token_budget, step.free_budget, step.reserved,
                      step.chunk, step.chunk_tokens, step.ranked, step.initial, step.active,
                      step.admitted, step.prefill, step.rows>>
  <2>1. PICK m \in Nat : m = i + 1
    OBVIOUS
  <2>2. step' = [step EXCEPT !.at = m]
    BY <1>1, <1>2, <2>1
  <2>. QED
    BY <1>a, <2>1, <2>2 DEF Step
<1>13. SchedTypeOK'
  BY <1>1, <1>11, <1>12, <1>a DEF SchedTypeOK
<1>14. PhaseInv' /\ QueueInv' /\ AtInv'
  <2>1. PhaseInv'
    <3>1. i + 1 > 1 /\ (i + 1) - 1 = i
      BY <1>2
    <3>. QED
      BY <1>1, <1>3, <1>8, <1>12, <1>a, <3>1 DEF PhaseInv, NoCall
  <2>2. QueueInv'
    BY <1>1, <1>12, <1>a DEF QueueInv, Chunked
  <2>3. AtInv'
    BY <1>1, <1>2, <1>12 DEF AtInv
  <2>. QED
    BY <2>1, <2>2, <2>3
<1>15. DecodeInv' /\ ChunkInv' /\ PrefillInv'
  BY <1>1, <1>4, <1>12, <1>a DEF DecodeInv, ChunkInv, PrefillInv, Chunked
<1>16. RankedInv' /\ AdmittedInv' /\ PartialInv' /\ LastPartialInv'
  BY <1>1, <1>4, <1>9, <1>12, <1>a DEF RankedInv, AdmittedInv, PartialInv, LastPartialInv, SeqLen
<1>17. HoldingInv'
  <2>1. \A q \in Seqs : (Fresh(q)' <=> Fresh(q)) /\ ~Releasing(q)'
    BY <1>8, <1>9 DEF Fresh, Releasing, NoCall
  <2>2. \A j \in 1 .. N : (Claimed(j) <=> j < i) /\ (Claimed(j)' <=> j < i \/ j = i)
    BY <1>1, <1>2, <1>12 DEF Claimed
  <2>3. \A q \in Seqs : status[q] \in {"new", "FINISHED"} => Fresh(q)
    BY <1>6, <1>a DEF HoldingInv
  <2>4. \A q \in Seqs : status[q] = "WAITING" =>
            Fresh(q) \/ \E j \in 1 .. N : Claimed(j)' /\ step.admitted[j].seq = q
    BY <1>2, <1>6, <1>a, <2>2 DEF HoldingInv
  <2>5. ASSUME NEW j \in 1 .. N, Claimed(j)' PROVE HoldsPlan(step.admitted[j])'
    <3>0. PICK a : a = step.admitted[j]
      OBVIOUS
    <3>1. CASE j = i
      <4>1. a.seq = x /\ a.plan = plan
        BY <1>3, <3>0, <3>1
      <4>2. Len(block_table[x]) = 0 /\ 0 * BlockSize = 0 /\ num_new_tokens[x] = 0
            /\ num_cached_tokens[x] = 0 /\ Len(plan) \in Nat /\ 0 + Len(plan) = Len(plan)
        BY <1>6, BlockManagerAssumption DEF Fresh
      <4>3. /\ num_new_tokens'[x] = 0 /\ num_cached_tokens'[x] = Len(block_table'[x]) * BlockSize
            /\ Len(block_table'[x]) = 0
        BY <1>9, <4>2
      <4>4. HoldsPlan(a)'
        <5>1. CASE plan = <<>>
          <6>1. call'.op # "claim" /\ Len(plan) = 0
            BY <1>8, <5>1 DEF NoCall
          <6>. QED
            BY <4>1, <4>3, <6>1 DEF HoldsPlan
        <5>2. CASE plan # <<>>
          <6>1. call'.op = "claim" /\ call'.seq = x /\ call'.plan = plan
            BY <1>8, <5>2
          <6>. QED
            BY <4>1, <4>2, <4>3, <6>1 DEF HoldsPlan
        <5>. QED
          BY <5>1, <5>2
      <4>. QED
        BY <1>12, <3>0, <4>4 DEF HoldsPlan
    <3>2. CASE j # i
      <4>1. Claimed(j) /\ a.seq # x
        BY <1>5, <2>2, <2>5, <3>0, <3>2
      <4>2. HoldsPlan(a)
        BY <1>2, <1>4, <1>a, <3>0, <4>1 DEF HoldingInv
      <4>3. ~(call.op = "claim" /\ call.seq = a.seq) /\ ~(call'.op = "claim" /\ call'.seq = a.seq)
        BY <1>1, <1>8, <4>1 DEF NoCall
      <4>4. /\ num_new_tokens[a.seq] = 0 /\ Len(block_table[a.seq]) = Len(a.plan)
            /\ num_cached_tokens[a.seq] = Len(block_table[a.seq]) * BlockSize
        BY <4>2, <4>3 DEF HoldsPlan
      <4>5. /\ num_new_tokens'[a.seq] = num_new_tokens[a.seq]
            /\ num_cached_tokens'[a.seq] = num_cached_tokens[a.seq]
            /\ block_table'[a.seq] = block_table[a.seq]
        BY <1>9, <4>1
      <4>6. HoldsPlan(a)'
        BY <4>3, <4>4, <4>5 DEF HoldsPlan
      <4>. QED
        BY <1>12, <3>0, <4>6 DEF HoldsPlan
    <3>. QED
      BY <3>1, <3>2
  <2>6. \A q \in Seqs : status[q] = "RUNNING" => block_table[q] # <<>>
    BY <1>1, <1>a DEF HoldingInv, NoCall
  <2>7. \A j \in DOMAIN step'.admitted : Claimed(j)' => HoldsPlan(step.admitted[j])'
    BY <1>2, <1>12, <2>5
  <2>. QED
    BY <1>1, <1>2, <1>9, <1>12, <2>1, <2>3, <2>4, <2>6, <2>7 DEF HoldingInv
<1>18. TokensInv'
  BY <1>1, <1>4, <1>9, <1>12, <1>a DEF TokensInv, SeqLen, DecodeReady
<1>19. Coming' = Coming /\ Need' = Need
  <2>1. \A q \in Seqs : Pending(q)' = Pending(q)
    BY <1>4, <1>12 DEF Pending
  <2>2. Coming' = Coming
    BY <1>9, <2>1 DEF Coming
  <2>. QED
    BY <1>9, <2>2 DEF Need, NumBlocksToAppend
<1>20. BudgetInv'
  BY <1>4, <1>9, <1>12, <1>19, <1>a DEF BudgetInv, Total, SeqLen
<1>21. ToClaim' = ToClaim
  <2>1. Planned = UNION {Range(step.admitted[j].plan) : j \in {k \in 1 .. N : k >= i}}
    BY <1>1, <1>2 DEF Planned, NoCall
  <2>2. Planned' = (IF plan = <<>> THEN {} ELSE Range(plan))
              \cup UNION {Range(step.admitted[j].plan) : j \in {k \in 1 .. N : k >= i + 1}}
    <3>1. Planned' = (IF call'.op = "claim" THEN Range(call'.plan) ELSE {})
              \cup UNION {Range(step.admitted[j].plan) : j \in {k \in 1 .. N : k >= i + 1}}
      BY <1>1, <1>2, <1>12 DEF Planned
    <3>2. call'.op = "claim" <=> plan # <<>>
      BY <1>8 DEF NoCall
    <3>3. plan # <<>> => call'.plan = plan
      BY <1>8
    <3>. QED
      BY <3>1, <3>2, <3>3
  <2>3. plan = <<>> => Range(plan) = {}
    BY DEF Range
  <2>4. {k \in 1 .. N : k >= i} = {i} \cup {k \in 1 .. N : k >= i + 1}
    BY <1>2
  <2>5. Planned' = Planned
    BY <1>3, <2>1, <2>2, <2>3, <2>4
  <2>. QED
    BY <1>9, <2>5 DEF ToClaim, IsFree
<1>22. ReserveInv'
  <2>1. Total(Need)' = Total(Need)
    BY <1>19 DEF Total
  <2>. QED
    BY <1>1, <1>4, <1>9, <1>21, <1>a, <2>1 DEF ReserveInv
<1>23. PlansInv'
  <2>1. \A q, p : PlanIsCurrent(q, p)' = PlanIsCurrent(q, p)
    BY <1>8 DEF PlanIsCurrent, ClaimedPrefixValid, Stores, BlockHash, SeqBlock, Prefix, LineageOf,
                TableAt, IsUsed, IsFree, SeqLen, NumSeqBlocks, Owner, OwnerIn, Resident,
                poolVars, seqVars
  <2>2. \A j \in 1 .. N : j >= i + 1 => j >= i
    BY <1>2
  <2>. QED
    BY <1>1, <1>2, <1>12, <1>a, <2>1, <2>2 DEF PlansInv
<1>24. RowsInv'
  BY <1>1 DEF RowsInv
<1>. QED
  BY <1>10, <1>11, <1>13, <1>14, <1>15, <1>16, <1>17, <1>18, <1>20, <1>22, <1>23, <1>24 DEF SchedInv

(* The next ranked request holds nothing and is nowhere in the batch.        *)
LEMMA HeadFacts ==
    ASSUME SchedInv, call = NoCall, pc \in {"commit", "freeze"}, step.ranked # <<>>
    PROVE  /\ Head(step.ranked) \in Seqs /\ Head(step.ranked) = step.ranked[1]
           /\ Len(step.ranked) \in Nat \ {0}
           /\ status[Head(step.ranked)] = "WAITING" /\ Fresh(Head(step.ranked))
           /\ \A i \in 1 .. Len(step.admitted) : step.admitted[i].seq # Head(step.ranked)
           /\ Head(step.ranked) \notin Range(step.decode) /\ Head(step.ranked) # step.chunk
<1>1. /\ QueueInv /\ DecodeInv /\ ChunkInv /\ RankedInv /\ HoldingInv
  BY DEF SchedInv
<1>2. PICK r \in Seq(Seqs) : r = step.ranked
  BY BatchTypes
<1>3. PICK s \in Seqs, R \in Nat \ {0} : s = Head(r) /\ s = r[1] /\ R = Len(r) /\ 1 \in DOMAIN r
  BY <1>2
<1>4. Scheduling /\ InBatch
  BY DEF Scheduling, InBatch
<1>5. /\ status[s] = "WAITING"
      /\ \A j \in DOMAIN step.admitted : step.admitted[j].seq # s
  BY <1>1, <1>2, <1>3, <1>4 DEF RankedInv
<1>6. Fresh(s)
  <2>1. \A j \in DOMAIN step.admitted : ~Claimed(j)
    BY DEF Claimed
  <2>2. ~Releasing(s)
    BY DEF Releasing, NoCall
  <2>. QED
    BY <1>1, <1>5, <2>1, <2>2 DEF HoldingInv
<1>7. s \notin Range(step.decode)
  BY <1>1, <1>4, <1>5 DEF DecodeInv, QueueInv
<1>8. s # step.chunk
  <2>1. step.chunk \in {NoSeq, chunked_req}
    BY <1>1, <1>4 DEF ChunkInv
  <2>2. s # NoSeq
    BY <1>3, SchedulerAssumption
  <2>. QED
    BY <1>1, <1>5, <2>1, <2>2 DEF QueueInv
<1>. QED
  BY <1>2, <1>3, <1>5, <1>6, <1>7, <1>8, BatchTypes

(* What either loop does when it admits the next ranked request.             *)
LEMMA AdmissionKeeps ==
    ASSUME SchedInv, call = NoCall, step.ranked # <<>>,
           \/ pc = "commit" /\ pc' = "admit"
           \/ pc = "freeze" /\ pc' = "freeze",
           NEW s \in Seqs, s = Head(step.ranked),
           NEW plan \in Seq(BlockIds), NEW n \in Nat \ {0}, n = NewTokens(s, plan),
           step.active + Len(step.admitted) < MaxNumSeqs,
           step' \in Step,
           step'.admitted = Append(step.admitted, [seq |-> s, plan |-> plan, new |-> n]),
           step'.token_budget = step.token_budget - n,
           step'.ranked = RankedAfter(s, plan),
           UNCHANGED <<step.decode, step.reserved, step.chunk, step.chunk_tokens, step.initial,
                       step.active, step.prefill, step.rows, step.at>>,
           UNCHANGED <<status, num_prompt_tokens, waiting, running, chunked_req, kv,
                       block_table, num_cached_tokens, num_new_tokens, token_ids>>,
           TypeOK'
    PROVE  /\ SchedTypeOK' /\ QueueInv' /\ AtInv' /\ DecodeInv' /\ ChunkInv' /\ PrefillInv'
           /\ RankedInv' /\ AdmittedInv' /\ PartialInv' /\ LastPartialInv' /\ TokensInv'
           /\ RowsInv' /\ BudgetInv'
           /\ Total(Need)' = Total(Need) + CeilDiv(n, BlockSize)
<1>a. /\ SchedTypeOK /\ QueueInv /\ AtInv /\ DecodeInv /\ ChunkInv /\ PrefillInv
      /\ RankedInv /\ AdmittedInv /\ PartialInv /\ TokensInv /\ BudgetInv /\ TypeOK
  BY BatchTypes DEF SchedInv
<1>1. /\ Scheduling /\ Scheduling' /\ InBatch /\ InBatch' /\ ~Processing /\ ~Processing'
      /\ DecodeFrom = 1 /\ DecodeFrom' = 1 /\ ChunkRows' = ChunkRows
      /\ (ChunkWaits' <=> ChunkWaits)
  BY DEF Scheduling, InBatch, Processing, DecodeFrom, ChunkRows, ChunkWaits
<1>2. /\ status[s] = "WAITING" /\ Fresh(s)
      /\ \A i \in 1 .. Len(step.admitted) : step.admitted[i].seq # s
      /\ s \notin Range(step.decode) /\ s # step.chunk
  BY HeadFacts
<1>3. PICK N \in Nat, M \in Nat \ {0} :
          /\ N = Len(step.admitted) /\ DOMAIN step.admitted = 1 .. N
          /\ M = N + 1 /\ Len(step'.admitted) = M /\ DOMAIN step'.admitted = 1 .. M
          /\ \A i \in 1 .. N : step'.admitted[i] = step.admitted[i]
          /\ step'.admitted[M] = [seq |-> s, plan |-> plan, new |-> n]
  <2> DEFINE Admission == [seq : Seqs, plan : Seq(BlockIds), new : Nat]
             a == [seq |-> s, plan |-> plan, new |-> n]
  <2>1. a \in Admission
    OBVIOUS
  <2>2. PICK q \in Seq(Admission) : q = step.admitted
    BY BatchTypes DEF Step
  <2>3. step'.admitted = Append(q, a)
    BY <2>2
  <2>. HIDE DEF Admission, a
  <2>4. /\ Len(q) \in Nat /\ DOMAIN q = 1 .. Len(q)
        /\ Len(Append(q, a)) = Len(q) + 1 /\ DOMAIN Append(q, a) = 1 .. Len(q) + 1
        /\ \A i \in 1 .. Len(q) : Append(q, a)[i] = q[i]
        /\ Append(q, a)[Len(q) + 1] = a
    BY <2>1
  <2>5. PICK N \in Nat, M \in Nat \ {0} : N = Len(q) /\ M = N + 1
    <3>1. PICK N \in Nat : N = Len(q)
      BY <2>4
    <3>2. N + 1 \in Nat \ {0}
      OBVIOUS
    <3>. QED
      BY <3>1, <3>2
  <2>6. step'.admitted[M] = a
    BY <2>3, <2>4, <2>5
  <2>7. /\ Len(step'.admitted) = M /\ DOMAIN step'.admitted = 1 .. M
        /\ \A i \in 1 .. N : step'.admitted[i] = step.admitted[i]
    BY <2>2, <2>3, <2>4, <2>5
  <2>. QED
    BY <2>2, <2>4, <2>5, <2>6, <2>7 DEF a
<1>4. PICK A \in Nat : A = Allocated /\ A = Allocated' /\ A <= N
  BY <1>3, BatchTypes DEF Allocated
<1>5. PICK l \in Nat, m \in Nat : l = SeqLen(s) /\ m = Len(plan) * BlockSize /\ m + n <= l
                                  /\ (m + n = l \/ NewTokens(s, plan) < Uncached(s, plan))
                                  /\ l <= MaxLen
  <2>1. num_cached_tokens[s] = 0
    BY <1>2 DEF Fresh
  <2>2. SeqLen(s) \in Nat /\ SeqLen(s) <= MaxLen /\ MaxLen \in Nat
    <3>1. SeqLen(s) \in 1 .. MaxLen
      BY <1>a DEF TypeOK
    <3>2. MaxLen \in Nat
      BY BlockManagerAssumption
    <3>. QED
      BY <3>1, <3>2
  <2>3. PICK l \in Nat, m \in Nat, t \in Nat :
            l = SeqLen(s) /\ m = Len(plan) * BlockSize /\ t = step.token_budget
    <3>1. Len(plan) * BlockSize \in Nat
      BY BlockManagerAssumption, MulFacts
    <3>. QED
      BY <2>2, <3>1, BatchTypes
  <2>4. Uncached(s, plan) = l - m
    BY <2>1, <2>3 DEF Uncached
  <2>5. n = MinOf(l - m, t)
    BY <2>3, <2>4 DEF NewTokens
  <2>6. n <= l - m /\ (n = l - m \/ n < l - m)
    BY <2>3, <2>5 DEF MinOf
  <2>7. m + n <= l /\ (m + n = l \/ n < l - m)
    BY <2>3, <2>6
  <2>. QED
    BY <2>2, <2>3, <2>4, <2>7
<1>6. SchedTypeOK'
  BY <1>a DEF SchedTypeOK, Phases
<1>7. QueueInv' /\ DecodeInv' /\ RowsInv' /\ LastPartialInv'
  BY <1>1, <1>a DEF QueueInv, Chunked, DecodeInv, RowsInv, LastPartialInv
<1>8. AtInv'
  <2>1. step.at = 1
    BY <1>a DEF AtInv
  <2>2. step'.admitted # <<>>
    <3>1. PICK q \in Seq([seq : Seqs, plan : Seq(BlockIds), new : Nat]) : q = step'.admitted
      BY DEF Step
    <3>. QED
      BY <1>3, <3>1
  <2>. QED
    BY <2>1, <2>2 DEF AtInv
<1>9. ChunkInv'
  <2>1. PICK d \in Nat, r \in Nat, c \in {0, 1}, k \in {0, 1} :
            /\ d = Len(step.decode) /\ r = Len(running) /\ d = r
            /\ c = Chunked /\ k = (IF step.chunk = NoSeq THEN 0 ELSE 1)
    BY <1>1, <1>a, BatchTypes DEF DecodeInv, Chunked
  <2>2. step.chunk # NoSeq => chunked_req # NoSeq
    BY <1>1, <1>a DEF ChunkInv
  <2>3. k <= c
    BY <2>1, <2>2 DEF Chunked
  <2>4. step.active = r + c
    BY <1>1, <1>a, <2>1 DEF ChunkInv
  <2>5. r + c + M <= MaxNumSeqs /\ d + k + M <= MaxNumSeqs
    <3>1. r + c + N < MaxNumSeqs /\ MaxNumSeqs \in Nat
      BY <1>3, <2>4, SchedulerAssumption
    <3>2. M = N + 1
      BY <1>3
    <3>3. d = r /\ k <= c
      BY <2>1, <2>3
    <3>. QED
      BY <3>1, <3>2, <3>3
  <2>6. step.chunk = NoSeq => step.chunk_tokens = 0 /\ chunked_req = NoSeq
    BY <1>1, <1>a DEF ChunkInv
  <2>7. Len(step.decode) + (IF step.chunk = NoSeq THEN 0 ELSE 1) + Len(step'.admitted) <= MaxNumSeqs
    BY <1>3, <2>1, <2>5
  <2>8. step.active + Len(step'.admitted) <= MaxNumSeqs
    BY <1>3, <2>4, <2>5
  <2>. QED
    BY <1>1, <1>a, <2>6, <2>7, <2>8 DEF ChunkInv, Chunked
<1>10. PrefillInv'
  <2>1. \A i \in 1 .. A : i \in 1 .. N
    BY <1>4
  <2>2. \A i \in 1 .. A : step'.admitted[i] = step.admitted[i]
    BY <1>3, <2>1
  <2>. QED
    BY <1>1, <1>4, <1>a, <2>2 DEF PrefillInv
<1>11. RankedInv' /\ step'.ranked \in Seq(Seqs)
  <2>1. PICK r \in Seq(Seqs), R \in Nat \ {0} :
            r = step.ranked /\ R = Len(r) /\ DOMAIN r = 1 .. R /\ s = r[1]
    BY BatchTypes, HeadFacts
  <2>2. /\ IsInjective(r)
        /\ \A i \in 1 .. R : /\ status[r[i]] = "WAITING"
                             /\ \A j \in 1 .. N : step.admitted[j].seq # r[i]
    <3>1. DOMAIN step.admitted = 1 .. N /\ step.ranked = r /\ DOMAIN r = 1 .. R
      BY <1>3, <2>1
    <3>. QED
      BY <1>1, <1>a, <3>1 DEF RankedInv
  <2>3. CASE step'.ranked = <<>>
    <3>0. <<>> \in Seq(Seqs) /\ Len(<<>>) = 0
      OBVIOUS
    <3>1. PICK e \in Seq(Seqs) : e = step'.ranked /\ Len(e) = 0
      BY <2>3, <3>0
    <3>2. DOMAIN e = {} /\ IsInjective(e)
      <4>1. DOMAIN e = 1 .. 0
        BY <3>1
      <4>. QED
        BY <4>1 DEF IsInjective
    <3>. QED
      BY <1>1, <3>1, <3>2 DEF RankedInv
  <2>4. CASE step'.ranked = Tail(r)
    <3>1. PICK p \in Seq(Seqs), P \in Nat :
              p = Tail(r) /\ P = R - 1 /\ DOMAIN p = 1 .. P /\ \A i \in 1 .. P : p[i] = r[i + 1]
      <4>0. R \in Nat /\ R # 0 /\ R = Len(r)
        BY <2>1
      <4>a. R - 1 \in Nat
        BY <4>0
      <4>1. PICK P \in Nat : P = R - 1 /\ P = Len(r) - 1
        BY <4>0, <4>a
      <4>2. r # <<>>
        BY <2>1
      <4>3. /\ Tail(r) \in Seq(Seqs) /\ Len(Tail(r)) = P /\ DOMAIN Tail(r) = 1 .. P
            /\ \A i \in 1 .. P : Tail(r)[i] = r[i + 1]
        BY <4>1, <4>2
      <4>. QED
        BY <4>1, <4>3
    <3>2. IsInjective(p)
      <4>a. DOMAIN p = 1 .. P
        BY <3>1
      <4>. SUFFICES ASSUME NEW i \in 1 .. P, NEW j \in 1 .. P, p[i] = p[j] PROVE i = j
        BY <4>a, Zenon DEF IsInjective
      <4>1. i + 1 \in 1 .. R /\ j + 1 \in 1 .. R /\ r[i + 1] = r[j + 1]
        BY <3>1
      <4>2. i + 1 = j + 1
        BY <2>1, <2>2, <4>1 DEF IsInjective
      <4>. QED
        BY <4>2
    <3>3. ASSUME NEW i \in 1 .. P
          PROVE  /\ status[p[i]] = "WAITING"
                 /\ \A j \in 1 .. M : step'.admitted[j].seq # p[i]
      <4>1. i + 1 \in 1 .. R /\ p[i] = r[i + 1] /\ i + 1 # 1 /\ 1 \in 1 .. R
        BY <3>1
      <4>2. p[i] # s
        <5>1. r[i + 1] = r[1] => i + 1 = 1
          BY <2>1, <2>2, <4>1 DEF IsInjective
        <5>. QED
          BY <2>1, <4>1, <5>1
      <4>3. \A j \in 1 .. M : j \in 1 .. N \/ j = M
        BY <1>3
      <4>4. step'.admitted[M].seq = s
        BY <1>3
      <4>. QED
        BY <1>3, <2>2, <4>1, <4>2, <4>3, <4>4
    <3>4. DOMAIN step'.ranked = 1 .. P /\ IsInjective(step'.ranked) /\ step'.ranked \in Seq(Seqs)
      BY <2>4, <3>1, <3>2
    <3>5. \A i \in 1 .. P : step'.ranked[i] = p[i]
      BY <2>4, <3>1
    <3>6. ASSUME NEW i \in 1 .. P
          PROVE  /\ status[step'.ranked[i]] = "WAITING"
                 /\ \A j \in 1 .. M : step'.admitted[j].seq # step'.ranked[i]
      <4>1. step'.ranked[i] = p[i]
        BY <3>5
      <4>. QED
        BY <3>3, <4>1
    <3>7. RankedInv'
      BY <1>1, <1>3, <3>4, <3>6 DEF RankedInv
    <3>. QED
      BY <3>4, <3>7
  <2>. QED
    BY <2>1, <2>3, <2>4 DEF RankedAfter
<1>12. AdmittedInv'
  <2>a. /\ DOMAIN step.admitted = 1 .. N /\ N = Len(step.admitted)
        /\ \A i \in 1 .. N : step'.admitted[i] = step.admitted[i] /\ step.admitted[i].seq # s
        /\ M = N + 1 /\ step'.admitted[M].seq = s
    BY <1>2, <1>3
  <2>b. /\ \A i, j \in 1 .. N : i # j => step.admitted[i].seq # step.admitted[j].seq
        /\ \A i \in 1 .. N : LET a == step.admitted[i] IN
              /\ a.new >= 1 /\ Len(a.plan) * BlockSize + a.new <= SeqLen(a.seq)
              /\ a.seq \notin Range(step.decode) /\ a.seq # step.chunk
              /\ i > Allocated => status[a.seq] = "WAITING"
              /\ i <= Allocated => status[a.seq] \in {"RUNNING", "FINISHED"}
    <3>1. DOMAIN step.admitted = 1 .. N
      BY <2>a
    <3>. QED
      BY <1>1, <1>a, <3>1 DEF AdmittedInv
  <2>1. ASSUME NEW i \in 1 .. N
        PROVE  LET a == step'.admitted[i] IN
          /\ a = step.admitted[i] /\ a.seq # s /\ a.new >= 1
          /\ Len(a.plan) * BlockSize + a.new <= SeqLen(a.seq)
          /\ a.seq \notin Range(step.decode) /\ a.seq # step.chunk
          /\ i > A => status[a.seq] = "WAITING"
          /\ i <= A => status[a.seq] \in {"RUNNING", "FINISHED"}
    BY <1>4, <2>a, <2>b
  <2>2. /\ step'.admitted[M].seq = s /\ step'.admitted[M].new = n
        /\ Len(step'.admitted[M].plan) * BlockSize + n <= SeqLen(s) /\ M > A /\ n >= 1
    <3>1. step'.admitted[M].seq = s /\ step'.admitted[M].new = n /\ step'.admitted[M].plan = plan
      BY <1>3
    <3>2. M > A /\ n >= 1
      BY <1>3, <1>4
    <3>. QED
      BY <1>5, <3>1, <3>2
  <2>3. \A i \in 1 .. M : i \in 1 .. N \/ i = M
    BY <1>3
  <2>4. \A i, j \in 1 .. M : i # j => step'.admitted[i].seq # step'.admitted[j].seq
    <3>. SUFFICES ASSUME NEW i \in 1 .. M, NEW j \in 1 .. M, i # j
                  PROVE  step'.admitted[i].seq # step'.admitted[j].seq
      OBVIOUS
    <3>1. CASE i \in 1 .. N /\ j \in 1 .. N
      BY <2>a, <2>b, <3>1
    <3>2. CASE i = M \/ j = M
      BY <2>3, <2>a, <3>2
    <3>. QED
      BY <2>3, <3>1, <3>2
  <2>5. ASSUME NEW i \in 1 .. M
        PROVE  LET a == step'.admitted[i] IN
               /\ a.new >= 1 /\ Len(a.plan) * BlockSize + a.new <= SeqLen(a.seq)
               /\ a.seq \notin Range(step.decode) /\ a.seq # step.chunk
               /\ i > A => status[a.seq] = "WAITING"
               /\ i <= A => status[a.seq] \in {"RUNNING", "FINISHED"}
    <3>1. CASE i \in 1 .. N
      BY <2>1, <3>1
    <3>2. CASE i = M
      <4>1. ~(M <= A)
        BY <1>4, <2>2
      <4>. QED
        BY <1>2, <2>2, <3>2, <4>1
    <3>. QED
      BY <2>3, <3>1, <3>2
  <2>6. \A q : SeqLen(q)' = SeqLen(q)
    BY DEF SeqLen
  <2>7. DOMAIN step'.admitted = 1 .. M /\ Allocated' = A
    BY <1>3, <1>4
  <2>. QED
    BY <2>4, <2>5, <2>6, <2>7 DEF AdmittedInv
<1>13. PartialInv'
  <2>1. \A i \in 1 .. N : LET a == step.admitted[i] IN Len(a.plan) * BlockSize + a.new = SeqLen(a.seq)
    BY <1>1, <1>3, <1>a DEF PartialInv
  <2>2. step'.ranked # <<>> => m + n = l
    BY <1>5 DEF RankedAfter
  <2>3. ASSUME NEW i \in 1 .. M, i < M \/ step'.ranked # <<>>
        PROVE  LET a == step'.admitted[i] IN Len(a.plan) * BlockSize + a.new = SeqLen(a.seq)
    <3>1. CASE i \in 1 .. N
      BY <1>3, <2>1, <3>1
    <3>2. CASE i = M
      BY <1>3, <1>5, <2>2, <2>3, <3>2
    <3>. QED
      BY <1>3, <3>1, <3>2
  <2>4. step.chunk # NoSeq => num_cached_tokens[step.chunk] + step.chunk_tokens = SeqLen(step.chunk)
    BY <1>1, <1>a DEF PartialInv
  <2>5. \A q : SeqLen(q)' = SeqLen(q)
    BY DEF SeqLen
  <2>. QED
    BY <1>1, <1>3, <2>3, <2>4, <2>5 DEF PartialInv
<1>14. TokensInv'
  <2>1. \A i \in 1 .. A : step'.admitted[i] = step.admitted[i] /\ i \in 1 .. N
    <3>1. \A i \in 1 .. A : i \in 1 .. N
      BY <1>4
    <3>. QED
      BY <1>3, <3>1
  <2>2. \A q : (SeqLen(q)' = SeqLen(q)) /\ (DecodeReady(q)' <=> DecodeReady(q))
    BY DEF SeqLen, DecodeReady
  <2>3. \A i \in 1 .. A :
            /\ num_new_tokens[step'.admitted[i].seq] = step'.admitted[i].new
            /\ num_cached_tokens[step'.admitted[i].seq] = Len(step'.admitted[i].plan) * BlockSize
    <3>1. \A i \in 1 .. A :
            /\ num_new_tokens[step.admitted[i].seq] = step.admitted[i].new
            /\ num_cached_tokens[step.admitted[i].seq] = Len(step.admitted[i].plan) * BlockSize
      BY <1>1, <1>4, <1>a DEF TokensInv
    <3>. QED
      BY <2>1, <3>1
  <2>4. /\ \A i \in DOMAIN step.decode : ~(i < 1)
    BY BatchTypes
  <2>5. /\ \A q \in Seqs : num_prompt_tokens[q] <= SeqLen(q)
        /\ \A q \in Seqs : status[q] = "RUNNING" => num_cached_tokens[q] < SeqLen(q)
        /\ \A q \in Seqs : num_new_tokens[q] > 0 => q \in Range(step.prefill)
    BY <1>1, <1>a, <2>4 DEF TokensInv
  <2>6. step.chunk # NoSeq =>
            /\ step.chunk_tokens >= 1
            /\ num_cached_tokens[step.chunk] + step.chunk_tokens <= SeqLen(step.chunk)
            /\ ChunkRows = 1 => num_new_tokens[step.chunk] = step.chunk_tokens
    BY <1>1, <1>a DEF TokensInv
  <2>. QED
    BY <1>1, <1>4, <2>2, <2>3, <2>4, <2>5, <2>6 DEF TokensInv
<1>15. Pending(s) = 0 /\ Pending(s)' = n
  <2>1. \A j \in 1 .. Len(step.decode) : step.decode[j] # s
    BY <1>2, BatchTypes DEF Range
  <2>2. ASSUME NEW i \in A + 1 .. N PROVE step.admitted[i].seq # s
    <3>1. i \in 1 .. N
      OBVIOUS
    <3>2. N = Len(step.admitted)
      BY <1>3
    <3>. QED
      BY <1>2, <3>1, <3>2
  <2>3. Pending(s) = 0
    BY <1>1, <1>2, <1>3, <1>4, <2>1, <2>2 DEF Pending
  <2>4. \A i : i \in A + 1 .. M /\ step'.admitted[i].seq = s <=> i = M
    BY <1>2, <1>3, <1>4
  <2> DEFINE pick == CHOOSE i \in A + 1 .. M : step'.admitted[i].seq = s
  <2>5. Pending(s)' = IF \E i \in A + 1 .. M : step'.admitted[i].seq = s
                      THEN step'.admitted[pick].new ELSE 0
    BY <1>1, <1>2, <1>3, <1>4, <2>1 DEF Pending
  <2>6. pick = M
    <3>1. M \in A + 1 .. M /\ step'.admitted[M].seq = s
      BY <2>4
    <3>2. pick \in A + 1 .. M /\ step'.admitted[pick].seq = s
      BY <3>1
    <3>. QED
      BY <2>4, <3>2
  <2>. HIDE DEF pick
  <2>7. \E i \in A + 1 .. M : step'.admitted[i].seq = s
    BY <2>4
  <2>8. step'.admitted[M].new = n
    BY <1>3
  <2>. QED
    BY <2>3, <2>5, <2>6, <2>7, <2>8
<1>16. ASSUME NEW q \in Seqs \ {s} PROVE Pending(q)' = Pending(q)
  <2> DEFINE Rest == \E j \in 1 .. Len(step.decode) : step.decode[j] = q
             now == CHOOSE i \in A + 1 .. N : step.admitted[i].seq = q
             later == CHOOSE i \in A + 1 .. M : step'.admitted[i].seq = q
  <2>1. Pending(q) = IF ChunkWaits /\ q = step.chunk THEN step.chunk_tokens
                     ELSE IF Rest THEN 1 ELSE IF \E i \in A + 1 .. N : step.admitted[i].seq = q
                     THEN step.admitted[now].new ELSE 0
    BY <1>1, <1>3, <1>4 DEF Pending
  <2>2. Pending(q)' = IF ChunkWaits /\ q = step.chunk THEN step.chunk_tokens
                     ELSE IF Rest THEN 1 ELSE IF \E i \in A + 1 .. M : step'.admitted[i].seq = q
                     THEN step'.admitted[later].new ELSE 0
    BY <1>1, <1>3, <1>4 DEF Pending
  <2>3. \A i : i \in A + 1 .. M /\ step'.admitted[i].seq = q
                <=> i \in A + 1 .. N /\ step.admitted[i].seq = q
    <3>1. step'.admitted[M].seq # q
      BY <1>3
    <3>2. \A i \in A + 1 .. N : i \in 1 .. N
      OBVIOUS
    <3>3. \A i : i \in A + 1 .. M <=> i \in A + 1 .. N \/ i = M
      BY <1>3, <1>4
    <3>. QED
      BY <1>3, <3>1, <3>2, <3>3
  <2>5. (\E i \in A + 1 .. N : step.admitted[i].seq = q) =>
            now \in A + 1 .. N /\ step.admitted[now].seq = q
    OBVIOUS
  <2>8. (\E i \in A + 1 .. M : step'.admitted[i].seq = q) =>
            later \in A + 1 .. M /\ step'.admitted[later].seq = q
    OBVIOUS
  <2>. HIDE DEF now, later
  <2>4. (\E i \in A + 1 .. N : step.admitted[i].seq = q) => now = later
    <3>1. \A i \in A + 1 .. N : i \in 1 .. N
      OBVIOUS
    <3>a. AdmittedInv /\ InBatch /\ DOMAIN step.admitted = 1 .. N
      BY <1>1, <1>3, <1>a
    <3>2. \A i, j \in 1 .. N : i # j => step.admitted[i].seq # step.admitted[j].seq
      BY <3>a, Zenon DEF AdmittedInv
    <3>. SUFFICES ASSUME \E i \in A + 1 .. N : step.admitted[i].seq = q PROVE now = later
      OBVIOUS
    <3>3. now \in A + 1 .. N /\ step.admitted[now].seq = q
      BY <2>5
    <3>4. \E i \in A + 1 .. M : step'.admitted[i].seq = q
      BY <2>3
    <3>5. later \in A + 1 .. N /\ step.admitted[later].seq = q
      BY <2>3, <2>8, <3>4, Zenon
    <3>. QED
      BY <3>1, <3>2, <3>3, <3>5, Zenon
  <2>6. (\E i \in A + 1 .. M : step'.admitted[i].seq = q)
            <=> (\E i \in A + 1 .. N : step.admitted[i].seq = q)
    BY <2>3
  <2>7. now \in A + 1 .. N => step'.admitted[now] = step.admitted[now]
    <3>1. \A i \in A + 1 .. N : i \in 1 .. N
      OBVIOUS
    <3>. QED
      BY <1>3, <3>1
  <2>9. CASE \E i \in A + 1 .. N : step.admitted[i].seq = q
    <3>1. step'.admitted[later].new = step.admitted[now].new
      BY <2>4, <2>5, <2>7, <2>9
    <3>2. \E i \in A + 1 .. M : step'.admitted[i].seq = q
      BY <2>6, <2>9
    <3>3. Pending(q) = IF ChunkWaits /\ q = step.chunk THEN step.chunk_tokens
                       ELSE IF Rest THEN 1 ELSE step.admitted[now].new
      BY <2>1, <2>9, Zenon
    <3>4. Pending(q)' = IF ChunkWaits /\ q = step.chunk THEN step.chunk_tokens
                       ELSE IF Rest THEN 1 ELSE step'.admitted[later].new
      BY <2>2, <3>2, Zenon
    <3>. QED
      BY <3>1, <3>3, <3>4
  <2>10. CASE ~ \E i \in A + 1 .. N : step.admitted[i].seq = q
    <3>1. ~ \E i \in A + 1 .. M : step'.admitted[i].seq = q
      BY <2>6, <2>10
    <3>. QED
      BY <2>1, <2>2, <2>10, <3>1
  <2>. QED
    BY <2>9, <2>10
<1>17. /\ Coming \in [Seqs -> 0 .. MaxLen] /\ Need \in [Seqs -> 0 .. MaxLen]
       /\ \A q \in Seqs : /\ Coming[q] = num_new_tokens[q] + Pending(q)
                          /\ Need[q] = NumBlocksToAppend(q, Coming[q])
                          /\ num_cached_tokens[q] + Coming[q] <= SeqLen(q)
  BY <1>1, NeedTypes
<1>18. /\ Coming[s] = 0 /\ num_new_tokens[s] = 0 /\ num_cached_tokens[s] = 0
       /\ Len(block_table[s]) = 0
  <2>1. num_new_tokens[s] = 0 /\ num_cached_tokens[s] = 0 /\ Len(block_table[s]) = 0
    BY <1>2 DEF Fresh
  <2>. QED
    BY <1>15, <1>17, <2>1
<1>19. PICK c : c = Coming' /\ c \in [Seqs -> 0 .. MaxLen] /\ c[s] = n
                 /\ \A q \in Seqs \ {s} : c[q] = Coming[q]
  <2>1. PICK c : c = Coming'
    OBVIOUS
  <2>2. c = [q \in Seqs |-> num_new_tokens[q] + Pending(q)']
    BY <2>1 DEF Coming
  <2>3. \A q \in Seqs \ {s} : c[q] = Coming[q]
    BY <1>16, <1>17, <2>2
  <2>4. c[s] = n
    BY <1>15, <1>18, <2>2
  <2>5. n \in 0 .. MaxLen
    BY <1>5, BlockManagerAssumption
  <2>6. \A q \in Seqs : c[q] \in 0 .. MaxLen
    BY <1>17, <2>3, <2>4, <2>5
  <2>. QED
    BY <2>1, <2>2, <2>3, <2>4, <2>6
<1>20. BudgetInv'
  <2>1. Total(c) + 0 = Total(Coming) + n
    <3>1. PICK f : f = Coming /\ f \in [Seqs -> 0 .. MaxLen]
      BY <1>17
    <3>2. \A q \in Seqs \ {s} : c[q] = f[q]
      BY <1>19, <3>1
    <3>3. Total(c) + f[s] = Total(f) + c[s]
      BY <1>19, <3>1, <3>2, TotalUpdate
    <3>. QED
      BY <1>18, <1>19, <3>1, <3>3
  <2>2. PICK T \in Nat, t \in Nat : T = Total(Coming) /\ t = step.token_budget
    BY TotalType, BatchTypes
  <2>3. T + t = MaxNumBatchedTokens
    BY <1>1, <1>a, <2>2 DEF BudgetInv
  <2>4. n <= t
    <3>1. n = MinOf(Uncached(s, plan), t)
      BY <2>2 DEF NewTokens
    <3>2. Uncached(s, plan) = l - m
      BY <1>5, <1>18 DEF Uncached
    <3>3. n = l - m \/ n = t
      BY <3>1, <3>2 DEF MinOf
    <3>4. n = MinOf(l - m, t) /\ l - m \in Int
      BY <3>1, <3>2
    <3>. QED
      BY <3>4 DEF MinOf
  <2>5. Total(c) \in Nat
    BY TotalType
  <2>6. Total(c) + (t - n) = MaxNumBatchedTokens
    BY <2>1, <2>2, <2>3, <2>4, <2>5
  <2>7. Total(Coming)' = Total(c)
    BY <1>19 DEF Total
  <2>8. \A q \in Seqs : num_cached_tokens[q] + c[q] <= SeqLen(q)
    <3>1. num_cached_tokens[s] + c[s] <= SeqLen(s)
      BY <1>5, <1>18, <1>19
    <3>. QED
      BY <1>17, <1>19, <3>1
  <2>. QED
    BY <1>19, <2>2, <2>6, <2>7, <2>8 DEF BudgetInv, SeqLen
<1>21. Total(Need)' = Total(Need) + CeilDiv(n, BlockSize)
  <2>1. PICK d : d = Need'
    OBVIOUS
  <2>2. d = [q \in Seqs |-> NumBlocksToAppend(q, c[q])]
    BY <1>19, <2>1 DEF Need, NumBlocksToAppend
  <2>3. \A q \in Seqs \ {s} : d[q] = Need[q]
    BY <1>17, <1>19, <2>2
  <2>4. d[s] = CeilDiv(n, BlockSize) /\ Need[s] = 0 /\ CeilDiv(n, BlockSize) \in 0 .. MaxLen
    <3>1. PICK k \in Nat : k = CeilDiv(n, BlockSize) /\ k <= n
      BY CeilDivSmall, BlockManagerAssumption
    <3>2. CeilDiv(0, BlockSize) \in Nat /\ CeilDiv(0, BlockSize) <= 0
      BY CeilDivSmall, BlockManagerAssumption
    <3>3. d[s] = NumBlocksToAppend(s, n) /\ Need[s] = NumBlocksToAppend(s, 0)
      BY <1>17, <1>18, <1>19, <2>2
    <3>4. 0 + n = n /\ 0 + 0 = 0 /\ CeilDiv(0, BlockSize) = 0
      BY <3>2
    <3>5. d[s] = k /\ Need[s] = 0
      BY <1>18, <3>1, <3>3, <3>4 DEF NumBlocksToAppend
    <3>6. k <= MaxLen /\ MaxLen \in Nat
      BY <1>5, <3>1, BlockManagerAssumption
    <3>. QED
      BY <3>1, <3>5, <3>6
  <2>5. d \in [Seqs -> 0 .. MaxLen]
    <3>1. \A q \in Seqs : d[q] \in 0 .. MaxLen
      BY <1>17, <2>3, <2>4
    <3>. QED
      BY <2>2, <3>1
  <2>6. Total(d) + 0 = Total(Need) + CeilDiv(n, BlockSize)
    <3>1. PICK f : f = Need /\ f \in [Seqs -> 0 .. MaxLen]
      BY <1>17
    <3>2. \A q \in Seqs \ {s} : d[q] = f[q]
      BY <2>3, <3>1
    <3>3. Total(d) + f[s] = Total(f) + d[s]
      BY <2>5, <3>1, <3>2, TotalUpdate
    <3>. QED
      BY <2>4, <3>1, <3>3
  <2>7. Total(d) \in Nat /\ Total(Need)' = Total(d)
    BY <2>1, TotalType DEF Total
  <2>. QED
    BY <2>6, <2>7
<1>. QED
  BY <1>6, <1>7, <1>8, <1>9, <1>10, <1>11, <1>12, <1>13, <1>14, <1>20, <1>21

(* The record of an admission, and what is left to rank.                     *)
LEMMA AdmissionTypes ==
    ASSUME SchedInv, step.ranked # <<>>, NEW s \in Seqs, NEW plan \in Seq(BlockIds),
           NewTokens(s, plan) > 0
    PROVE  /\ NewTokens(s, plan) \in Nat \ {0} /\ NewTokens(s, plan) <= step.token_budget
           /\ step.token_budget - NewTokens(s, plan) \in Nat
           /\ RankedAfter(s, plan) \in Seq(Seqs)
           /\ Append(step.admitted, AdmitRecord(s, plan))
                \in Seq([seq : Seqs, plan : Seq(BlockIds), new : Nat])
<1>1. PICK t \in Nat, c \in Nat, l \in Nat, m \in Nat :
          /\ t = step.token_budget /\ c = num_cached_tokens[s] /\ l = SeqLen(s)
          /\ m = Len(plan) * BlockSize
  <2>1. SeqLen(s) \in Nat /\ num_cached_tokens[s] \in Nat
    BY BatchTypes, BlockManagerAssumption DEF TypeOK
  <2>2. Len(plan) * BlockSize \in Nat
    BY BlockManagerAssumption, MulFacts
  <2>. QED
    BY <2>1, <2>2, BatchTypes
<1>2. NewTokens(s, plan) = IF l - c - m < t THEN l - c - m ELSE t
  BY <1>1 DEF NewTokens, Uncached, MinOf
<1>3. PICK n \in Nat : n = NewTokens(s, plan) /\ n # 0 /\ n <= t
  <2>1. (IF l - c - m < t THEN l - c - m ELSE t) \in Int
    OBVIOUS
  <2>2. (IF l - c - m < t THEN l - c - m ELSE t) <= t
    OBVIOUS
  <2>. QED
    BY <1>2, <2>1, <2>2
<1>4. t - n \in Nat
  BY <1>3
<1>5. RankedAfter(s, plan) \in Seq(Seqs)
  <2>1. PICK r \in Seq(Seqs) : r = step.ranked /\ r # <<>>
    BY BatchTypes
  <2>2. Tail(r) \in Seq(Seqs) /\ <<>> \in Seq(Seqs)
    BY <2>1
  <2>. QED
    BY <2>1, <2>2 DEF RankedAfter
<1>6. Append(step.admitted, AdmitRecord(s, plan)) \in Seq([seq : Seqs, plan : Seq(BlockIds), new : Nat])
  <2> DEFINE Admission == [seq : Seqs, plan : Seq(BlockIds), new : Nat]
  <2>1. PICK a \in Admission : a = AdmitRecord(s, plan)
    BY <1>3 DEF AdmitRecord
  <2>2. PICK q \in Seq(Admission) : q = step.admitted
    BY BatchTypes DEF Step
  <2>. HIDE DEF Admission
  <2>3. Append(q, a) \in Seq(Admission)
    BY <2>1, <2>2
  <2>. QED
    BY <2>1, <2>2, <2>3 DEF Admission
<1>. QED
  BY <1>1, <1>3, <1>4, <1>5, <1>6

(* The frozen plan takes the next request of the ranking: what it will       *)
(* claim and what it will allocate is counted once.                         *)
LEMMA FreezeKeeps ==
    ASSUME SchedInv, Freeze
    PROVE  SchedInv'
<1>1. /\ pc = "freeze" /\ pc' = "freeze" /\ call = NoCall /\ call' = NoCall
      /\ UNCHANGED <<bmVars, schedVars>> /\ step.ranked # <<>>
  BY DEF Freeze, At, bmVars
<1>2. PICK s \in Seqs : s = Head(step.ranked)
  BY <1>1, HeadFacts
<1>3. PICK plan \in Seq(BlockIds) : plan = step.initial[s]
  BY BatchTypes DEF Step
<1>4. /\ FreezeFits(s)
      /\ step' = [step EXCEPT
                !.admitted = Append(@, AdmitRecord(s, plan)),
                !.token_budget = @ - NewTokens(s, plan),
                !.free_budget = @ - FreezeTaken(s),
                !.ranked = RankedAfter(s, plan)]
  BY <1>2, <1>3 DEF Freeze
<1>5. /\ step.active + Len(step.admitted) < MaxNumSeqs /\ NewTokens(s, plan) > 0
      /\ FreezeTaken(s) <= step.free_budget
  BY <1>3, <1>4 DEF FreezeFits, Admissible
<1>6. PICK n \in Nat \ {0} : n = NewTokens(s, plan) /\ n <= step.token_budget
  BY <1>1, <1>5, AdmissionTypes
<1>a. /\ EvictionInv /\ SchedTypeOK /\ PhaseInv /\ HoldingInv /\ ReserveInv /\ PlansInv /\ TypeOK
  BY BatchTypes DEF SchedInv
<1>b. EvictionInv' /\ TypeOK'
  BY <1>1, <1>a, StillEviction
<1>7. UNCHANGED <<status, num_prompt_tokens, waiting, running, chunked_req, kv, free_block_ids,
                  block_table, num_cached_tokens, num_new_tokens, token_ids>>
  BY <1>1 DEF bmVars, schedVars, poolVars, seqVars
<1> DEFINE Taken == {b \in Range(plan) : IsFree(b) /\ b \notin Protected}
<1>8. IsFiniteSet(Taken) /\ Cardinality(Taken) \in Nat
  <2>1. Taken \in SUBSET BlockIds
    BY DEF Range
  <2>2. IsFiniteSet(BlockIds)
    BY BlockManagerAssumption, FS_Interval DEF BlockIds
  <2>. QED
    BY <2>1, <2>2, FS_Subset, FS_CardinalityType
<1>9. FreezeTaken(s) = Cardinality(Taken) + CeilDiv(n, BlockSize)
  BY <1>3, <1>6 DEF FreezeTaken
<1>. HIDE DEF Taken
<1>10. PICK u \in Nat, f \in Nat, k \in Nat, g \in Nat :
          /\ u = Cardinality(Taken) /\ k = CeilDiv(n, BlockSize) /\ f = step.free_budget
          /\ u + k <= f /\ g = f - FreezeTaken(s) /\ g = f - (u + k)
  <2>1. PICK u \in Nat, f \in Nat, k \in Nat :
            u = Cardinality(Taken) /\ k = CeilDiv(n, BlockSize) /\ f = step.free_budget
    BY <1>8, BatchTypes, CeilDivSmall, BlockManagerAssumption
  <2>2. FreezeTaken(s) = u + k /\ u + k <= f
    BY <1>5, <1>9, <2>1
  <2>3. f - (u + k) \in Nat
    BY <2>2
  <2>. QED
    BY <2>1, <2>2, <2>3
<1>11. PICK t \in Nat, ranked \in Seq(Seqs), admitted \in Seq([seq : Seqs, plan : Seq(BlockIds), new : Nat]) :
          /\ t = step.token_budget - n /\ ranked = RankedAfter(s, plan)
          /\ admitted = Append(step.admitted, [seq |-> s, plan |-> plan, new |-> n])
  BY <1>1, <1>5, <1>6, AdmissionTypes DEF AdmitRecord
<1>12. step' = [step EXCEPT !.admitted = admitted, !.token_budget = t, !.free_budget = g, !.ranked = ranked]
  BY <1>4, <1>6, <1>10, <1>11 DEF AdmitRecord
<1>13. /\ step' \in Step /\ step'.admitted = admitted /\ step'.token_budget = t
       /\ step'.free_budget = g /\ step'.ranked = ranked
       /\ UNCHANGED <<step.decode, step.reserved, step.chunk, step.chunk_tokens, step.initial,
                      step.active, step.prefill, step.rows, step.at>>
  <2> DEFINE Admission == [seq : Seqs, plan : Seq(BlockIds), new : Nat]
  <2>1. admitted \in Seq(Admission)
    OBVIOUS
  <2>2. Step = [decode : Seq(Seqs), token_budget : Nat, free_budget : Nat, reserved : Nat,
         chunk : Seqs \cup {NoSeq}, chunk_tokens : Nat,
         ranked : Seq(Seqs), initial : [Seqs -> Seq(BlockIds)],
         born : [BlockIds -> LineageIds \cup {NoLineage}], active : Nat,
         admitted : Seq(Admission),
         hits : [Seqs -> [initial : Nat, same_step : Nat]],
         prefill : Seq(Seqs), rows : Seq(Seqs), at : Nat]
    BY DEF Step
  <2>. HIDE DEF Admission
  <2>. QED
    BY <1>12, <2>1, <2>2, BatchTypes
<1>14. /\ SchedTypeOK' /\ QueueInv' /\ AtInv' /\ DecodeInv' /\ ChunkInv' /\ PrefillInv'
       /\ RankedInv' /\ AdmittedInv' /\ PartialInv' /\ LastPartialInv' /\ TokensInv'
       /\ RowsInv' /\ BudgetInv'
       /\ Total(Need)' = Total(Need) + CeilDiv(n, BlockSize)
  BY <1>1, <1>2, <1>5, <1>6, <1>7, <1>11, <1>13, <1>b, AdmissionKeeps
<1>15. PhaseInv'
  BY <1>1, <1>a DEF PhaseInv, NoCall
<1>16. HoldingInv'
  <2>1. \A j : ~Claimed(j) /\ ~Claimed(j)'
    BY <1>1 DEF Claimed
  <2>2. \A q : ~Releasing(q)
    BY <1>1 DEF Releasing, NoCall
  <2>3. \A q \in Seqs : Fresh(q)' <=> Fresh(q)
    BY <1>7 DEF Fresh
  <2>. QED
    BY <1>1, <1>7, <1>a, <2>1, <2>2, <2>3 DEF HoldingInv, NoCall
<1>17. PICK N \in Nat, M \in Nat :
           /\ N = Len(step.admitted) /\ DOMAIN step.admitted = 1 .. N
           /\ M = N + 1 /\ DOMAIN step'.admitted = 1 .. M
           /\ \A i \in 1 .. N : step'.admitted[i] = step.admitted[i]
           /\ step'.admitted[M].seq = s /\ step'.admitted[M].plan = plan
  <2> DEFINE Admission == [seq : Seqs, plan : Seq(BlockIds), new : Nat]
  <2>1. PICK a \in Admission : a = [seq |-> s, plan |-> plan, new |-> n]
    OBVIOUS
  <2>5. a.seq = s /\ a.plan = plan
    BY <2>1
  <2>2. PICK q \in Seq(Admission) : q = step.admitted
    BY BatchTypes DEF Step
  <2>. HIDE DEF Admission
  <2>3. /\ Len(q) \in Nat /\ DOMAIN q = 1 .. Len(q) /\ DOMAIN Append(q, a) = 1 .. Len(q) + 1
        /\ \A i \in 1 .. Len(q) : Append(q, a)[i] = q[i]
        /\ Append(q, a)[Len(q) + 1] = a
    BY <2>1
  <2>4. step'.admitted = Append(q, a)
    BY <1>11, <1>13, <2>1, <2>2
  <2>6. PICK N \in Nat, M \in Nat : N = Len(q) /\ M = N + 1
    <3>1. Len(q) \in Nat
      BY <2>3
    <3>2. Len(q) + 1 \in Nat
      BY <3>1
    <3>. QED
      BY <3>1, <3>2
  <2>7. /\ DOMAIN q = 1 .. N /\ DOMAIN Append(q, a) = 1 .. M
        /\ \A i \in 1 .. N : Append(q, a)[i] = q[i]
        /\ Append(q, a)[M] = a
    BY <2>3, <2>6
  <2>8. /\ N = Len(step.admitted) /\ DOMAIN step.admitted = 1 .. N
        /\ M = N + 1 /\ DOMAIN step'.admitted = 1 .. M
        /\ \A i \in 1 .. N : step'.admitted[i] = step.admitted[i]
    BY <2>2, <2>4, <2>6, <2>7
  <2>9. step'.admitted[M].seq = s /\ step'.admitted[M].plan = plan
    BY <2>4, <2>5, <2>7
  <2>. QED
    BY <2>8, <2>9, Zenon
<1>18. ReserveInv'
  <2>1. Planned = Protected
    BY <1>1 DEF Planned, Protected, NoCall
  <2>2. Planned' = Protected \cup Range(plan)
    <3>1. Planned' = UNION {Range(step'.admitted[i].plan) : i \in 1 .. M}
      BY <1>1, <1>17 DEF Planned, NoCall
    <3>2. Protected = UNION {Range(step.admitted[i].plan) : i \in 1 .. N}
      BY <1>17 DEF Protected
    <3>3. 1 .. M = (1 .. N) \cup {M}
      BY <1>17
    <3>4. step'.admitted[M].plan = plan
      BY <1>17
    <3>5. \A i \in 1 .. N : step'.admitted[i].plan = step.admitted[i].plan
      BY <1>17
    <3>6. Planned' = (UNION {Range(step'.admitted[i].plan) : i \in 1 .. N}) \cup Range(plan)
      BY <3>1, <3>3, <3>4
    <3>7. UNION {Range(step'.admitted[i].plan) : i \in 1 .. N} = Protected
      BY <3>2, <3>5
    <3>. QED
      BY <3>6, <3>7
  <2>3. ToClaim' = ToClaim \cup Taken /\ ToClaim \cap Taken = {}
    BY <1>7, <2>1, <2>2 DEF ToClaim, IsFree, Taken
  <2>5. PICK T \in Nat, C \in Nat, F \in Nat :
            T = Total(Need) /\ C = Cardinality(ToClaim) /\ F = Len(free_block_ids)
    <3>1. Len(free_block_ids) \in Nat
      BY <1>a DEF TypeOK
    <3>. QED
      BY <1>a, <3>1, TotalType, ToClaimFinite
  <2>4. Cardinality(ToClaim') = C + u
    <3>1. Cardinality(ToClaim \cup Taken)
              = Cardinality(ToClaim) + Cardinality(Taken) - Cardinality(ToClaim \cap Taken)
      BY <1>8, <1>a, ToClaimFinite, FS_Union
    <3>2. Cardinality(ToClaim \cap Taken) = 0
      BY <2>3, FS_EmptySet
    <3>3. Cardinality(ToClaim \cup Taken) = C + u - 0
      BY <1>10, <2>5, <3>1, <3>2
    <3>. QED
      BY <2>3, <3>3
  <2>6. T + C + f <= F
    BY <1>1, <1>10, <1>a, <2>5 DEF ReserveInv, Scheduling
  <2>7. Total(Need)' = T + k
    BY <1>10, <1>14, <2>5
  <2>8. (T + k) + (C + u) + g <= F
    <3>1. g = f - (u + k)
      BY <1>10
    <3>. QED
      BY <2>6, <3>1
  <2>. QED
    BY <1>1, <1>7, <1>13, <2>4, <2>5, <2>7, <2>8 DEF ReserveInv
<1>19. PlansInv'
  <2>1. \A q, p : PlanIsCurrent(q, p)' = PlanIsCurrent(q, p)
    BY <1>1 DEF PlanIsCurrent, ClaimedPrefixValid, Stores, BlockHash, SeqBlock, Prefix, LineageOf,
                TableAt, Resident, IsUsed, IsFree, SeqLen, NumSeqBlocks, Owner, OwnerIn,
                bmVars, poolVars, seqVars
  <2>2. PICK r \in Seq(Seqs), R \in Nat \ {0} :
            r = step.ranked /\ R = Len(r) /\ DOMAIN r = 1 .. R /\ s = r[1]
    BY <1>1, <1>2, BatchTypes, HeadFacts
  <2>3. /\ \A i \in 1 .. R : PlanIsCurrent(r[i], step.initial[r[i]])
        /\ \A i \in 1 .. N : PlanIsCurrent(step.admitted[i].seq, step.admitted[i].plan)
    BY <1>1, <1>17, <1>a, <2>2 DEF PlansInv
  <2>4. \A i \in DOMAIN ranked : \E j \in 1 .. R : ranked[i] = r[j]
    <3>1. CASE ranked = <<>>
      BY <3>1
    <3>2. CASE ranked = Tail(r)
      <4>1. \A i \in DOMAIN ranked : i + 1 \in 1 .. R /\ ranked[i] = r[i + 1]
        BY <2>2, <3>2
      <4>. QED
        BY <4>1
    <3>. QED
      BY <1>11, <2>2, <3>1, <3>2 DEF RankedAfter
  <2>5. \A i \in DOMAIN ranked : PlanIsCurrent(ranked[i], step.initial[ranked[i]])
    BY <2>3, <2>4
  <2>6. PlanIsCurrent(s, plan)
    <3>1. 1 \in 1 .. R
      OBVIOUS
    <3>. QED
      BY <1>3, <2>2, <2>3, <3>1
  <2>7. \A i \in 1 .. M : PlanIsCurrent(admitted[i].seq, admitted[i].plan)
    <3>1. \A i \in 1 .. M : i \in 1 .. N \/ i = M
      BY <1>17
    <3>2. step'.admitted = admitted
      BY <1>13
    <3>3. admitted[M].seq = s /\ admitted[M].plan = plan
      BY <1>17, <3>2
    <3>4. \A i \in 1 .. N : admitted[i] = step.admitted[i]
      BY <1>17, <3>2
    <3>. QED
      BY <2>3, <2>6, <3>1, <3>3, <3>4
  <2>8. \A i \in DOMAIN ranked : PlanIsCurrent(ranked[i], step.initial[ranked[i]])'
    <3>1. PICK initial : initial = step.initial
      OBVIOUS
    <3>2. \A i \in DOMAIN ranked : PlanIsCurrent(ranked[i], initial[ranked[i]])
      BY <2>5, <3>1
    <3>3. \A i \in DOMAIN ranked : PlanIsCurrent(ranked[i], initial[ranked[i]])'
      BY <2>1, <3>2
    <3>. QED
      BY <1>13, <3>1, <3>3
  <2>9. \A i \in 1 .. M : PlanIsCurrent(admitted[i].seq, admitted[i].plan)'
    BY <2>1, <2>7
  <2>. QED
    BY <1>13, <1>17, <2>8, <2>9 DEF PlansInv
<1>. QED
  BY <1>b, <1>14, <1>15, <1>16, <1>18, <1>19 DEF SchedInv

(* With nothing in flight, the blocks to come are those of the decode rows.   *)
LEMMA CommitNeed ==
    ASSUME SchedInv, pc = "commit", call = NoCall
    PROVE  Total(Need) = DecodeBlocks
<1>1. /\ EvictionInv /\ DecodeInv /\ PrefillInv /\ TokensInv /\ TypeOK
  BY BatchTypes DEF SchedInv
<1>2. /\ Scheduling /\ InBatch /\ ~ChunkWaits /\ DecodeFrom = 1 /\ Allocated = Len(step.admitted)
  BY DEF Scheduling, InBatch, ChunkWaits, DecodeFrom, Allocated
<1>3. PICK D \in Nat : D = Len(step.decode) /\ DOMAIN step.decode = 1 .. D
  BY BatchTypes
<1>4. step.decode = running /\ Range(running) \subseteq Seqs
  BY <1>1, <1>2, BatchTypes DEF DecodeInv, Range
<1>5. ASSUME NEW q \in Seqs
      PROVE  Need[q] = IF q \in Range(running) THEN NumBlocksToAppend(q, 1) ELSE 0
  <2>1. Need[q] = NumBlocksToAppend(q, num_new_tokens[q] + Pending(q))
    BY DEF Need, Coming
  <2>2. num_new_tokens[q] \in Nat /\ num_cached_tokens[q] \in Nat /\ Len(block_table[q]) \in Nat
    BY <1>1 DEF TypeOK
  <2>3. CASE q \in Range(running)
    <3>1. PICK i \in 1 .. D : step.decode[i] = q
      BY <1>3, <1>4, <2>3 DEF Range
    <3>2. Pending(q) = 1
      BY <1>2, <1>3, <3>1, PendingFacts
    <3>3. num_new_tokens[q] = 0
      <4>1. q \notin Range(step.prefill)
        BY <1>2, <1>4, <2>3, PrefillRows
      <4>2. \A j \in 1 .. D : ~(j < 1)
        OBVIOUS
      <4>3. ~(num_new_tokens[q] > 0)
        BY <1>1, <1>2, <1>3, <4>1, <4>2 DEF TokensInv
      <4>. QED
        BY <2>2, <4>3
    <3>. QED
      BY <2>1, <2>3, <3>2, <3>3
  <2>4. CASE q \notin Range(running)
    <3>1. Pending(q) = 0
      <4>1. \A i \in 1 .. D : step.decode[i] # q
        BY <1>3, <1>4, <2>4 DEF Range
      <4>2. PICK A \in Nat : A = Allocated
        BY BatchTypes
      <4>3. ~ \E i \in A + 1 .. A : step.admitted[i].seq = q
        OBVIOUS
      <4>. QED
        BY <1>2, <1>3, <4>1, <4>2, <4>3 DEF Pending
    <3>2. ContextEnd(q) <= Len(block_table[q]) * BlockSize
      BY <1>1 DEF EvictionInv, CallsInv, CoverInv, NoCall
    <3>3. PICK c \in Nat, L \in Nat, y \in Nat :
              /\ c = num_cached_tokens[q] + num_new_tokens[q] /\ L = Len(block_table[q])
              /\ y = L * BlockSize
      BY <2>2, BlockManagerAssumption, MulFacts
    <3>4. c <= y
      BY <3>2, <3>3 DEF ContextEnd
    <3>5. CeilDiv(c, BlockSize) \in Nat /\ (L < CeilDiv(c, BlockSize) => L * BlockSize < c)
      BY BlockManagerAssumption, CeilDivFacts
    <3>6. CeilDiv(c, BlockSize) <= L
      BY <3>3, <3>4, <3>5
    <3>7. num_new_tokens[q] + Pending(q) = num_new_tokens[q]
      BY <2>2, <3>1
    <3>8. NumBlocksToAppend(q, num_new_tokens[q]) = 0
      BY <3>3, <3>5, <3>6 DEF NumBlocksToAppend
    <3>. QED
      BY <2>1, <2>4, <3>7, <3>8
  <2>. QED
    BY <2>3, <2>4
<1>6. Need = [q \in Seqs |-> IF q \in Range(running) THEN NumBlocksToAppend(q, 1) ELSE 0]
  BY <1>5 DEF Need
<1>. QED
  BY <1>6 DEF DecodeBlocks, BlocksDue

(* The blocks of a plan that are free, counted by place or as a set.          *)
LEMMA FreeInPlan ==
    ASSUME TypeOK, NEW plan \in Seq(BlockIds), IsInjective(plan)
    PROVE  /\ Cardinality({b \in Range(plan) : IsFree(b)})
                = Cardinality({i \in 1 .. Len(plan) : IsFree(plan[i])})
           /\ Cardinality({b \in Range(plan) : IsFree(b)}) \in Nat
<1> DEFINE I == {i \in 1 .. Len(plan) : IsFree(plan[i])}
           F == {b \in Range(plan) : IsFree(b)}
           h == [i \in I |-> plan[i]]
<1>1. PICK n \in Nat : n = Len(plan) /\ DOMAIN plan = 1 .. n
  OBVIOUS
<1>2. h \in Bijection(I, F)
  BY <1>1 DEF Bijection, Injection, Surjection, IsInjective, Range
<1>3. ExistsBijection(I, F)
  BY <1>2 DEF ExistsBijection
<1>4. IsFiniteSet(I)
  <2>1. IsFiniteSet(1 .. n)
    BY FS_Interval
  <2>2. I \in SUBSET (1 .. n)
    BY <1>1
  <2>. QED
    BY <2>1, <2>2, FS_Subset
<1>. QED
  BY <1>3, <1>4, FS_Bijection, FS_CardinalityType

(* A request is admitted with a fresh match, which is claimed at once.        *)
LEMMA CommitClaimKeeps ==
    ASSUME SchedInv, CommitClaim
    PROVE  SchedInv' /\ [Next]_bmVars
<1>1. /\ pc = "commit" /\ pc' = "admit" /\ call = NoCall /\ step.ranked # <<>>
      /\ UNCHANGED <<status, num_prompt_tokens, waiting, running, chunked_req, kv>>
  BY DEF CommitClaim, At, Goto, schedVars
<1>a. /\ EvictionInv /\ SchedTypeOK /\ PhaseInv /\ HoldingInv /\ ReserveInv /\ TypeOK
      /\ CommittedInv
  BY BatchTypes DEF SchedInv, EvictionInv, CallsInv, CacheInv, PoolInv
<1>2. PICK s \in Seqs : s = Head(step.ranked) /\ Fresh(s) /\ status[s] = "WAITING"
  BY <1>1, HeadFacts
<1>3. /\ num_new_tokens[s] = 0 /\ num_cached_tokens[s] = 0 /\ Len(block_table[s]) = 0
      /\ num_cached_tokens[s] = Len(block_table[s]) * BlockSize
  <2>1. num_new_tokens[s] = 0 /\ num_cached_tokens[s] = 0 /\ Len(block_table[s]) = 0
    BY <1>2 DEF Fresh
  <2>2. 0 * BlockSize = 0
    BY BlockManagerAssumption
  <2>. QED
    BY <2>1, <2>2
<1>4. PICK plan \in Seq(BlockIds) : plan = MatchPrefix(s) /\ IsInjective(plan)
  BY <1>3, <1>a, MatchPrefixFacts
<1>5. /\ CommitFits(s)
      /\ step' = [step EXCEPT
                !.admitted = Append(@, AdmitRecord(s, plan)),
                !.token_budget = @ - NewTokens(s, plan),
                !.ranked = RankedAfter(s, plan),
                !.hits[s] = HitsOf(Len(step.initial[s]), Len(plan))]
      /\ IF plan = <<>> THEN UNCHANGED bmVars ELSE ClaimPrefix(s, plan)
  BY <1>2, <1>4 DEF CommitClaim
<1>6. /\ step.active + Len(step.admitted) < MaxNumSeqs /\ NewTokens(s, plan) > 0
      /\ NumBlocksForAdmission(plan, NewTokens(s, plan)) <= Len(free_block_ids) - step.reserved
  BY <1>4, <1>5 DEF CommitFits, Admissible, AvailableBlocks
<1>7. PICK n \in Nat \ {0} : n = NewTokens(s, plan) /\ n <= step.token_budget
  BY <1>1, <1>6, AdmissionTypes
<1>8. PICK t \in Nat, ranked \in Seq(Seqs), admitted \in Seq([seq : Seqs, plan : Seq(BlockIds), new : Nat]) :
          /\ t = step.token_budget - n /\ ranked = RankedAfter(s, plan)
          /\ admitted = Append(step.admitted, [seq |-> s, plan |-> plan, new |-> n])
  BY <1>1, <1>6, <1>7, AdmissionTypes DEF AdmitRecord
<1>9. /\ step' \in Step /\ step'.admitted = admitted /\ step'.token_budget = t
      /\ step'.ranked = ranked
      /\ UNCHANGED <<step.decode, step.reserved, step.chunk, step.chunk_tokens, step.initial,
                     step.active, step.prefill, step.rows, step.at>>
  <2> DEFINE Admission == [seq : Seqs, plan : Seq(BlockIds), new : Nat]
             Hits == [initial : Nat, same_step : Nat]
  <2>1. admitted \in Seq(Admission)
    OBVIOUS
  <2>2. Step = [decode : Seq(Seqs), token_budget : Nat, free_budget : Nat, reserved : Nat,
         chunk : Seqs \cup {NoSeq}, chunk_tokens : Nat,
         ranked : Seq(Seqs), initial : [Seqs -> Seq(BlockIds)],
         born : [BlockIds -> LineageIds \cup {NoLineage}], active : Nat,
         admitted : Seq(Admission),
         hits : [Seqs -> Hits],
         prefill : Seq(Seqs), rows : Seq(Seqs), at : Nat]
    BY DEF Step
  <2>3. PICK h \in Hits : h = HitsOf(Len(step.initial[s]), Len(plan))
    <3>1. PICK a \in Nat, b \in Nat : a = Len(step.initial[s]) /\ b = Len(plan)
      <4>1. step.initial[s] \in Seq(BlockIds)
        BY BatchTypes DEF Step
      <4>. QED
        BY <4>1
    <3>2. b > a => b - a \in Nat
      OBVIOUS
    <3>3. HitsOf(a, b) \in [initial : Nat, same_step : Nat]
      BY <3>2 DEF HitsOf, MinOf
    <3>. QED
      BY <3>1, <3>3
  <2>. HIDE DEF Admission, Hits
  <2>4. PICK hits \in [Seqs -> Hits] : hits = [step.hits EXCEPT ![s] = h]
    BY <2>2, BatchTypes
  <2>5. step' = [step EXCEPT !.admitted = admitted, !.token_budget = t, !.ranked = ranked, !.hits = hits]
    BY <1>5, <1>7, <1>8, <2>3, <2>4 DEF AdmitRecord
  <2>. QED
    BY <2>1, <2>2, <2>5, BatchTypes
<1>10. /\ \/ plan = <<>> /\ call' = NoCall
          \/ plan # <<>> /\ call' = [op |-> "claim", seq |-> s, plan |-> plan]
       /\ UNCHANGED <<poolVars, token_ids, seqVars, chain>>
       /\ plan # <<>> => ClaimPrefix(s, plan)
       /\ plan = <<>> => UNCHANGED bmVars
  BY <1>1, <1>5 DEF ClaimPrefix, bmVars
<1>11. UNCHANGED <<free_block_ids, block_table, num_cached_tokens, num_new_tokens, token_ids>>
  BY <1>10 DEF poolVars, seqVars
<1>12. [Next]_bmVars
  <2>1. CASE plan = <<>>
    BY <1>10, <2>1
  <2>2. CASE plan # <<>>
    <3>1. Len(plan) \in 1 .. Len(plan) /\ SubSeq(plan, 1, Len(plan)) = plan
      BY <2>2, WholeMatch
    <3>2. \E m \in 1 .. Len(MatchPrefix(s)) : ClaimPrefix(s, SubSeq(MatchPrefix(s), 1, m))
      BY <1>4, <1>10, <2>2, <3>1
    <3>3. CallClaim(s)
      BY <1>3, <3>2 DEF CallClaim
    <3>. QED
      BY <3>3 DEF Next, Call
  <2>. QED
    BY <2>1, <2>2
<1>13. EvictionInv' /\ TypeOK'
  <2>1. EvictionInv'
    BY <1>12, <1>a, NextEviction
  <2>. QED
    BY <2>1 DEF EvictionInv, CallsInv, CacheInv, PoolInv
<1>14. /\ SchedTypeOK' /\ QueueInv' /\ AtInv' /\ DecodeInv' /\ ChunkInv' /\ PrefillInv'
       /\ RankedInv' /\ AdmittedInv' /\ PartialInv' /\ LastPartialInv' /\ TokensInv'
       /\ RowsInv' /\ BudgetInv'
       /\ Total(Need)' = Total(Need) + CeilDiv(n, BlockSize)
  BY <1>1, <1>2, <1>6, <1>7, <1>8, <1>9, <1>11, <1>13, AdmissionKeeps
<1>15. PICK M \in Nat :
           /\ M = Len(step'.admitted) /\ DOMAIN step'.admitted = 1 .. M /\ M >= 1
           /\ step'.admitted[M].seq = s /\ step'.admitted[M].plan = plan
  <2> DEFINE Admission == [seq : Seqs, plan : Seq(BlockIds), new : Nat]
  <2>1. PICK a \in Admission : a = [seq |-> s, plan |-> plan, new |-> n]
    OBVIOUS
  <2>2. a.seq = s /\ a.plan = plan
    BY <2>1
  <2>3. PICK q \in Seq(Admission) : q = step.admitted
    BY BatchTypes DEF Step
  <2>. HIDE DEF Admission
  <2>4. /\ Len(q) + 1 \in Nat /\ DOMAIN Append(q, a) = 1 .. Len(q) + 1 /\ Len(q) + 1 >= 1
        /\ Len(Append(q, a)) = Len(q) + 1 /\ Append(q, a)[Len(q) + 1] = a
    BY <2>1
  <2>5. step'.admitted = Append(q, a)
    BY <1>8, <1>9, <2>1, <2>3
  <2>. QED
    BY <2>2, <2>4, <2>5
<1>16. PhaseInv'
  <2>1. Last(step'.admitted).seq = s
    BY <1>15 DEF Last
  <2>2. SameStep
    BY <1>1, <1>a DEF PhaseInv
  <2>. QED
    BY <1>1, <1>10, <2>1, <2>2 DEF PhaseInv, NoCall
<1>17. HoldingInv'
  <2>1. \A j : ~Claimed(j)
    BY <1>1 DEF Claimed
  <2>2. \A j : Claimed(j)' <=> j = M
    BY <1>1, <1>15 DEF Claimed
  <2>3. \A q \in Seqs : (Fresh(q)' <=> Fresh(q)) /\ ~Releasing(q)
    BY <1>1, <1>11 DEF Fresh, Releasing, NoCall
  <2>4. HoldsPlan(step.admitted[M])'
    <3>1. PICK a : a = step'.admitted[M] /\ a.seq = s /\ a.plan = plan
      BY <1>15
    <3>2. /\ num_new_tokens'[s] = 0 /\ num_cached_tokens'[s] = Len(block_table'[s]) * BlockSize
          /\ Len(block_table'[s]) = 0
      BY <1>3, <1>11
    <3>3. HoldsPlan(a)'
      <4>1. CASE plan = <<>>
        <5>1. call'.op # "claim" /\ Len(plan) = 0
          BY <1>10, <4>1 DEF NoCall
        <5>. QED
          BY <3>1, <3>2, <5>1 DEF HoldsPlan
      <4>2. CASE plan # <<>>
        <5>1. call'.op = "claim" /\ call'.seq = s /\ call'.plan = plan
          BY <1>10, <4>2
        <5>2. 0 + Len(plan) = Len(plan)
          OBVIOUS
        <5>. QED
          BY <3>1, <3>2, <5>1, <5>2 DEF HoldsPlan
      <4>. QED
        BY <4>1, <4>2
    <3>. QED
      BY <3>1, <3>3 DEF HoldsPlan
  <2>5. \A q \in Seqs : status[q] = "RUNNING" => block_table[q] # <<>>
    BY <1>1, <1>a DEF HoldingInv, NoCall
  <2>6. \A q \in Seqs : status[q] \in {"new", "FINISHED", "WAITING"} => Fresh(q)
    BY <1>a, <2>1, <2>3 DEF HoldingInv
  <2>. QED
    BY <1>1, <1>11, <2>2, <2>3, <2>4, <2>5, <2>6 DEF HoldingInv
<1>18. ReserveInv'
  <2>1. ToClaim' \subseteq {b \in Range(plan) : IsFree(b)}
    <3>1. Planned' \subseteq Range(plan)
      <4>1. {j \in DOMAIN step'.admitted : pc' = "freeze" \/ (pc' = "claim" /\ j >= step'.at)} = {}
        BY <1>1
      <4>2. call'.op = "claim" => call'.plan = plan
        BY <1>10 DEF NoCall
      <4>. QED
        BY <4>1, <4>2 DEF Planned
    <3>. QED
      BY <1>11, <3>1 DEF ToClaim, IsFree
  <2>2. PICK C \in Nat, F \in Nat : 
            /\ C = Cardinality({b \in Range(plan) : IsFree(b)})
            /\ C = Cardinality({i \in 1 .. Len(plan) : IsFree(plan[i])})
            /\ F = Len(free_block_ids)
    <3>1. Len(free_block_ids) \in Nat
      BY <1>a DEF TypeOK
    <3>. QED
      BY <1>4, <1>a, <3>1, FreeInPlan
  <2>3. Cardinality(ToClaim') \in Nat /\ Cardinality(ToClaim') <= C
    <3>1. {b \in Range(plan) : IsFree(b)} \in SUBSET BlockIds
      BY DEF Range
    <3>2. IsFiniteSet(BlockIds)
      BY BlockManagerAssumption, FS_Interval DEF BlockIds
    <3>3. IsFiniteSet({b \in Range(plan) : IsFree(b)})
      BY <3>1, <3>2, FS_Subset
    <3>4. PICK X, Y : X = {b \in Range(plan) : IsFree(b)} /\ Y = ToClaim'
      OBVIOUS
    <3>5. IsFiniteSet(X) /\ Y \in SUBSET X /\ C = Cardinality(X)
      BY <2>1, <2>2, <3>3, <3>4
    <3>6. IsFiniteSet(Y) /\ Cardinality(Y) <= Cardinality(X)
      BY <3>5, FS_Subset
    <3>7. Cardinality(Y) \in Nat
      BY <3>6, FS_CardinalityType
    <3>. QED
      BY <3>4, <3>5, <3>6, <3>7
  <2>4. PICK k \in Nat : k = CeilDiv(n, BlockSize)
    BY CeilDivSmall, BlockManagerAssumption
  <2>5. PICK T \in Nat : T = Total(Need) /\ T = step.reserved /\ T = DecodeBlocks
    <3>1. step.reserved = DecodeBlocks
      BY <1>1, <1>a DEF ReserveInv, Scheduling
    <3>. QED
      BY <1>1, <3>1, CommitNeed, TotalType
  <2>6. C + k <= F - T
    BY <1>6, <1>7, <2>2, <2>4, <2>5 DEF NumBlocksForAdmission
  <2>7. (T + k) + Cardinality(ToClaim') + 0 <= F
    BY <2>3, <2>6
  <2>8. DecodeBlocks' = DecodeBlocks
    BY <1>1, <1>11 DEF DecodeBlocks, BlocksDue, NumBlocksToAppend, Total
  <2>9. Total(Need)' = T + k
    BY <1>14, <2>4, <2>5
  <2>. QED
    BY <1>1, <1>9, <1>11, <2>2, <2>5, <2>7, <2>8, <2>9 DEF ReserveInv
<1>19. PlansInv'
  BY <1>1 DEF PlansInv
<1>. QED
  BY <1>12, <1>13, <1>14, <1>16, <1>17, <1>18, <1>19 DEF SchedInv

(* What match_prefix returns for a request that holds nothing is current.     *)
LEMMA MatchIsCurrent ==
    ASSUME TypeOK, CommittedInv, NEW s \in Seqs, Fresh(s)
    PROVE  PlanIsCurrent(s, MatchPrefix(s)) /\ MatchPrefix(s) \in Seq(BlockIds)
<1> DEFINE E == MatchEnds(s)
           stop == CHOOSE k \in E : \A j \in E : j <= k
<1>1. /\ num_new_tokens[s] = 0 /\ num_cached_tokens[s] = Len(block_table[s]) * BlockSize
      /\ Len(block_table[s]) = 0 /\ num_cached_tokens[s] = 0
  <2>1. Len(block_table[s]) = 0 /\ 0 * BlockSize = 0
    BY BlockManagerAssumption DEF Fresh
  <2>. QED
    BY <2>1 DEF Fresh
<1>2. PICK plan \in Seq(BlockIds) : plan = MatchPrefix(s) /\ IsInjective(plan)
  BY <1>1, MatchPrefixFacts
<1>3. PICK B \in Nat : B = NumSeqBlocks(s)
  <2>1. SeqLen(s) \in Nat
    BY DEF TypeOK
  <2>. QED
    BY <2>1, CeilDivFacts, BlockManagerAssumption DEF NumSeqBlocks
<1>4. E = {k \in 0 .. B : \A j \in 1 .. k : j < B /\ Matches(s, j)}
  BY <1>1, <1>3 DEF MatchEnds
<1>5. \E k \in E : \A j \in E : j <= k
  <2>1. 0 \in E
    BY <1>3, <1>4
  <2>2. E \subseteq Nat /\ E # {} /\ \A j \in E : j <= B
    BY <1>3, <1>4, <2>1
  <2>. HIDE DEF E
  <2>. QED
    BY <1>3, <2>2, MaxExists
<1>6. MatchPrefix(s) = [i \in 1 .. stop - 0 |-> Candidate(s, 0 + i)]
  BY <1>1 DEF MatchPrefix
<1>7. stop \in E
  <2>. HIDE DEF E
  <2>. QED
    BY <1>5
<1>. HIDE DEF stop
<1>8. PICK m \in Nat : m = stop /\ \A j \in 1 .. m : j < B /\ Matches(s, j)
  BY <1>4, <1>7
<1>9. plan = [i \in 1 .. m |-> Candidate(s, i)]
  <2>1. \A i \in 1 .. m : 0 + i = i
    OBVIOUS
  <2>. QED
    BY <1>2, <1>6, <1>8, <2>1
<1>10. Len(plan) = m /\ \A i \in 1 .. m : plan[i] = Candidate(s, i)
  BY <1>2, <1>9
<1>11. /\ Candidate(s, 0) = TableAt(s, 0)
       /\ \A k \in Nat \ {0} : Candidate(s, k) = Owner(BlockHash(s, k))
  BY <1>1 DEF Candidate
<1>12. ASSUME NEW i \in 1 .. m
       PROVE  /\ i < B /\ Owner(BlockHash(s, i)) = plan[i] /\ Resident(plan[i])
              /\ Stores(plan[i], s, i, IF i - 1 = 0 THEN TableAt(s, 0) ELSE plan[i - 1])
  <2>1. i < B /\ Matches(s, i)
    BY <1>8
  <2>2. plan[i] = Candidate(s, i)
    BY <1>10
  <2>3. Candidate(s, i - 1) = IF i - 1 = 0 THEN TableAt(s, 0) ELSE plan[i - 1]
    <3>1. CASE i = 1
      BY <1>11, <3>1
    <3>2. CASE i # 1
      <4>1. i - 1 \in 1 .. m /\ i - 1 # 0
        BY <3>2
      <4>. QED
        BY <1>10, <4>1
    <3>. QED
      BY <3>1, <3>2
  <2>4. Stores(plan[i], s, i, Candidate(s, i - 1)) /\ Resident(plan[i])
    BY <2>1, <2>2 DEF Matches
  <2>5. Owner(BlockHash(s, i)) = plan[i]
    BY <1>11, <2>2
  <2>. QED
    BY <2>1, <2>3, <2>4, <2>5
<1>13. ClaimedPrefixValid(s)
  BY <1>1 DEF ClaimedPrefixValid
<1>14. \A i, j \in 1 .. m : i # j => plan[i] # plan[j]
  BY <1>2, <1>10 DEF IsInjective
<1>15. PlanIsCurrent(s, plan)
  <2>1. \A i \in 1 .. m : 0 + i = i
    OBVIOUS
  <2>. QED
    BY <1>1, <1>3, <1>10, <1>12, <1>13, <1>14, <2>1 DEF PlanIsCurrent
<1>. QED
  BY <1>2, <1>15

(* What _match_waiting and the plan of the chunk leave in `step': T tokens and *)
(* F blocks are left by decode, n of the tokens go to the chunk.             *)
LEMMA PlanShape ==
    ASSUME SchedInv, PlanStep
    PROVE  \E T, F, n \in Nat :
             /\ T + Len(running) = MaxNumBatchedTokens /\ n <= T
             /\ F + DecodeBlocks = Len(free_block_ids)
             /\ n # 0 =>
                  /\ chunked_req # NoSeq
                  /\ num_cached_tokens[chunked_req] + n <= SeqLen(chunked_req)
                  /\ NumBlocksToAppend(chunked_req, n) <= F
             /\ step' \in Step
             /\ step'.decode = running /\ step'.reserved = DecodeBlocks
             /\ step'.token_budget = T - n /\ step'.chunk_tokens = n
             /\ step'.free_budget = F - (IF n = 0 THEN 0 ELSE NumBlocksToAppend(chunked_req, n))
             /\ step'.chunk = (IF n = 0 THEN NoSeq ELSE chunked_req)
             /\ step'.active = Len(running) + Chunked
             /\ step'.admitted = <<>> /\ step'.prefill = <<>> /\ step'.rows = <<>> /\ step'.at = 1
             /\ IsInjective(step'.ranked) /\ Range(step'.ranked) \subseteq Range(waiting)
             /\ \A i \in DOMAIN step'.ranked :
                  step'.initial[step'.ranked[i]] = MatchPrefix(step'.ranked[i])
             /\ step'.ranked # <<>> /\ chunked_req # NoSeq =>
                  n # 0 /\ num_cached_tokens[chunked_req] + n = SeqLen(chunked_req)
<1>a. /\ EvictionInv /\ QueueInv /\ HoldingInv /\ TokensInv /\ TypeOK /\ CommittedInv
      /\ waiting \in Seq(Seqs) /\ running \in Seq(Seqs) /\ chunked_req \in Seqs \cup {NoSeq}
  BY BatchTypes DEF SchedInv, EvictionInv, CallsInv, CacheInv, PoolInv
<1>1. pc = "preempt" /\ call = NoCall /\ DecodeFits
  BY DEF PlanStep, At
<1> DEFINE tokens == MaxNumBatchedTokens - Len(running)
           free == Len(free_block_ids) - DecodeBlocks
           share == ChunkTokens(tokens, free)
           pauses == chunked_req # NoSeq /\
                (share = 0 \/ share < SeqLen(chunked_req) - num_cached_tokens[chunked_req])
           ranks == ~pauses /\ waiting # <<>> /\ tokens - share > 0
           initial == [s \in Seqs |->
                IF ranks /\ s \in Range(waiting) THEN MatchPrefix(s) ELSE <<>>]
           born == IF ranks THEN [b \in BlockIds |-> blocks[b].lineage] ELSE EmptyStep.born
           ranked == IF ranks THEN RankWaiting(initial) ELSE <<>>
           due == IF share = 0 THEN 0 ELSE NumBlocksToAppend(chunked_req, share)
           chunk == IF share = 0 THEN NoSeq ELSE chunked_req
           active == Len(running) + Chunked
<1>2. step' = [EmptyStep EXCEPT
                !.decode = running, !.reserved = DecodeBlocks, !.token_budget = tokens - share,
                !.free_budget = free - due, !.chunk = chunk, !.chunk_tokens = share,
                !.initial = initial, !.born = born, !.ranked = ranked, !.active = active]
  BY DEF PlanStep, Chunked
<1>3. PICK D \in Nat : D = DecodeBlocks /\ (running = <<>> => D = 0)
  <2>1. DecodeBlocks \in Nat
    BY TotalType DEF DecodeBlocks, BlocksDue
  <2>2. running = <<>> => DecodeBlocks = 0
    <3>. SUFFICES ASSUME running = <<>> PROVE DecodeBlocks = 0
      OBVIOUS
    <3>1. Range(running) = {}
      BY DEF Range
    <3>2. [s \in Seqs |-> IF s \in Range(running) THEN NumBlocksToAppend(s, 1) ELSE 0] = [s \in Seqs |-> 0]
      BY <3>1
    <3>. QED
      BY <3>2, TotalZero DEF DecodeBlocks, BlocksDue
  <2>. QED
    BY <2>1, <2>2
<1>4. PICK R \in Nat, L \in Nat : R = Len(running) /\ L = Len(free_block_ids)
  BY <1>a DEF TypeOK
<1>5. R <= MaxNumBatchedTokens /\ D <= L /\ MaxNumBatchedTokens \in Nat
  <2>1. MaxNumBatchedTokens \in Nat
    BY SchedulerAssumption
  <2>2. running = <<>> => R = 0
    BY <1>4
  <2>3. running = <<>> \/ (R <= MaxNumBatchedTokens /\ D <= L)
    BY <1>1, <1>3, <1>4 DEF DecodeFits
  <2>. QED
    BY <1>3, <1>4, <2>1, <2>2, <2>3
<1>6. PICK T \in Nat, F \in Nat : T = tokens /\ F = free /\ T + R = MaxNumBatchedTokens /\ F + D = L
  <2>1. MaxNumBatchedTokens - R \in Nat /\ L - D \in Nat
    BY <1>5
  <2>2. (MaxNumBatchedTokens - R) + R = MaxNumBatchedTokens /\ (L - D) + D = L
    BY <1>5
  <2>. QED
    BY <1>3, <1>4, <2>1, <2>2
<1>7. chunked_req # NoSeq =>
          /\ chunked_req \in Seqs /\ num_cached_tokens[chunked_req] \in Nat
          /\ SeqLen(chunked_req) \in Nat
          /\ num_cached_tokens[chunked_req] < SeqLen(chunked_req)
  BY <1>a, BlockManagerAssumption DEF QueueInv, TokensInv, TypeOK
<1>8. PICK n \in Nat :
          /\ n = share /\ n <= T
          /\ n # 0 =>
               /\ chunked_req # NoSeq
               /\ num_cached_tokens[chunked_req] + n <= SeqLen(chunked_req)
               /\ NumBlocksToAppend(chunked_req, n) <= F
  <2>1. CASE chunked_req = NoSeq
    <3>1. share = 0
      BY <2>1 DEF ChunkTokens
    <3>. QED
      BY <3>1
  <2>2. CASE chunked_req # NoSeq
    <3>1. PICK l \in Nat, c \in Nat : l = SeqLen(chunked_req) /\ c = num_cached_tokens[chunked_req] /\ c < l
      BY <1>7, <2>2
    <3>2. PICK m \in Nat : m = MinOf(l - c, T) /\ m <= T /\ c + m <= l
      <4>1. MinOf(l - c, T) \in Nat /\ MinOf(l - c, T) <= T /\ c + MinOf(l - c, T) <= l
        BY <3>1 DEF MinOf
      <4>. QED
        BY <4>1
    <3>3. share = IF NumBlocksToAppend(chunked_req, m) > F THEN 0 ELSE m
      BY <1>6, <2>2, <3>1, <3>2 DEF ChunkTokens
    <3>4. NumBlocksToAppend(chunked_req, m) \in Nat
      <4>1. NumBlocksToAppend(chunked_req, m) \in 0 .. MaxLen
        BY <1>7, <1>a, <2>2, <3>1, <3>2, AppendType
      <4>. QED
        BY <4>1, BlockManagerAssumption
    <3>5. CASE NumBlocksToAppend(chunked_req, m) > F
      BY <3>3, <3>5
    <3>6. CASE ~(NumBlocksToAppend(chunked_req, m) > F)
      <4>1. NumBlocksToAppend(chunked_req, m) <= F
        BY <1>6, <3>4, <3>6
      <4>. QED
        BY <2>2, <3>1, <3>2, <3>3, <3>6, <4>1
    <3>. QED
      BY <3>5, <3>6
  <2>. QED
    BY <2>1, <2>2
<1>. HIDE DEF share
<1>9. PICK d \in Nat, f \in Nat : d = due /\ f = F - d /\ f = free - due
  <2>1. CASE n = 0
    BY <1>6, <1>8, <2>1
  <2>2. CASE n # 0
    <3>1. PICK d \in Nat : d = NumBlocksToAppend(chunked_req, n) /\ d <= F
      <4>1. NumBlocksToAppend(chunked_req, n) \in 0 .. MaxLen
        BY <1>7, <1>8, <1>a, <2>2, AppendType
      <4>. QED
        BY <1>8, <2>2, <4>1, BlockManagerAssumption
    <3>2. F - d \in Nat
      BY <3>1
    <3>. QED
      BY <1>6, <1>8, <2>2, <3>1, <3>2
  <2>. QED
    BY <2>1, <2>2
<1>10. PICK t \in Nat : t = T - n /\ t = tokens - share
  BY <1>6, <1>8
<1>11. chunk \in Seqs \cup {NoSeq} /\ active \in Nat /\ chunk = IF n = 0 THEN NoSeq ELSE chunked_req
  <2>1. Len(running) + Chunked \in Nat
    BY <1>4 DEF Chunked
  <2>. QED
    BY <1>8, <1>a, <2>1
<1>12. initial \in [Seqs -> Seq(BlockIds)]
  <2>1. ASSUME NEW s \in Seqs, s \in Range(waiting) PROVE MatchPrefix(s) \in Seq(BlockIds)
    <3>1. Fresh(s)
      <4>1. \A i \in DOMAIN step.admitted : ~Claimed(i)
        BY <1>1 DEF Claimed
      <4>2. ~Releasing(s)
        BY <1>1 DEF Releasing, NoCall
      <4>. QED
        BY <1>a, <2>1, <4>1, <4>2 DEF HoldingInv, QueueInv
    <3>. QED
      BY <1>a, <3>1, MatchIsCurrent
  <2>2. <<>> \in Seq(BlockIds)
    OBVIOUS
  <2>. HIDE DEF ranks
  <2>3. ASSUME NEW s \in Seqs
        PROVE (IF ranks /\ s \in Range(waiting) THEN MatchPrefix(s) ELSE <<>>) \in Seq(BlockIds)
    BY <2>1, <2>2
  <2>. QED
    BY <2>3
<1>13. born \in [BlockIds -> LineageIds \cup {NoLineage}]
  <2>1. [b \in BlockIds |-> blocks[b].lineage] \in [BlockIds -> LineageIds \cup {NoLineage}]
    <3>1. \A b \in BlockIds : blocks[b] \in Block
      BY <1>a DEF TypeOK
    <3>. QED
      BY <3>1 DEF Block
  <2>2. EmptyStep.born \in [BlockIds -> LineageIds \cup {NoLineage}]
    BY EmptyStepType DEF Step
  <2>. HIDE DEF ranks
  <2>. QED
    BY <2>1, <2>2
<1>14. /\ ranked \in Seq(Seqs) /\ IsInjective(ranked) /\ Range(ranked) \subseteq Range(waiting)
       /\ ranked # <<>> => ranks
  <2>1. CASE ranks
    <3>. HIDE DEF ranks, initial
    <3>1. /\ RankWaiting(initial) \in Seq(Seqs) /\ IsInjective(RankWaiting(initial))
          /\ Range(RankWaiting(initial)) \subseteq Range(waiting)
      BY <1>12, <1>a, RankFacts DEF QueueInv
    <3>. QED
      BY <2>1, <3>1
  <2>2. CASE ~ranks
    <3>. HIDE DEF ranks
    <3>1. ranked = <<>>
      BY <2>2
    <3>2. <<>> \in Seq(Seqs) /\ Range(<<>>) = {} /\ IsInjective(<<>>)
      BY DEF Range, IsInjective
    <3>. QED
      BY <3>1, <3>2
  <2>. QED
    BY <2>1, <2>2
<1>15. ranked # <<>> /\ chunked_req # NoSeq =>
          n # 0 /\ num_cached_tokens[chunked_req] + n = SeqLen(chunked_req)
  <2>. SUFFICES ASSUME ranked # <<>>, chunked_req # NoSeq
                PROVE  n # 0 /\ num_cached_tokens[chunked_req] + n = SeqLen(chunked_req)
    OBVIOUS
  <2>1. ~pauses
    BY <1>14
  <2>2. PICK l \in Nat, c \in Nat : l = SeqLen(chunked_req) /\ c = num_cached_tokens[chunked_req] /\ c < l
    BY <1>7
  <2>3. n # 0 /\ ~(n < l - c)
    BY <1>8, <2>1, <2>2
  <2>4. c + n <= l
    BY <1>8, <2>2, <2>3
  <2>5. c + n = l
    BY <2>2, <2>3, <2>4
  <2>. QED
    BY <2>2, <2>3, <2>5
<1>16. \A i \in DOMAIN ranked : initial[ranked[i]] = MatchPrefix(ranked[i])
  <2>. SUFFICES ASSUME NEW i \in DOMAIN ranked PROVE initial[ranked[i]] = MatchPrefix(ranked[i])
    OBVIOUS
  <2>1. ranked[i] \in Seqs /\ ranked[i] \in Range(waiting) /\ ranks
    <3>. HIDE DEF ranked, ranks
    <3>1. ranked # <<>> /\ ranked[i] \in Range(ranked) /\ ranked[i] \in Seqs
      BY <1>14 DEF Range
    <3>. QED
      BY <1>14, <3>1
  <2>. HIDE DEF ranked, ranks
  <2>. QED
    BY <2>1
<1>. HIDE DEF initial, born, ranked, chunk, active, due, free, tokens
<1>17. PICK ini \in [Seqs -> Seq(BlockIds)], bo \in [BlockIds -> LineageIds \cup {NoLineage}],
            ra \in Seq(Seqs), ch \in Seqs \cup {NoSeq}, ac \in Nat :
          ini = initial /\ bo = born /\ ra = ranked /\ ch = chunk /\ ac = active
  BY <1>11, <1>12, <1>13, <1>14
<1>18. step' = [EmptyStep EXCEPT
                !.decode = running, !.reserved = D, !.token_budget = t,
                !.free_budget = f, !.chunk = ch, !.chunk_tokens = n,
                !.initial = ini, !.born = bo, !.ranked = ra, !.active = ac]
  BY <1>2, <1>3, <1>8, <1>9, <1>10, <1>17
<1>19. /\ step' \in Step
       /\ step'.decode = running /\ step'.reserved = D
       /\ step'.token_budget = t /\ step'.chunk_tokens = n /\ step'.free_budget = f
       /\ step'.chunk = ch /\ step'.active = ac /\ step'.ranked = ra /\ step'.initial = ini
       /\ step'.admitted = EmptyStep.admitted /\ step'.prefill = EmptyStep.prefill
       /\ step'.rows = EmptyStep.rows /\ step'.at = EmptyStep.at
  BY <1>18, <1>a, EmptyStepType DEF Step
<1>20. /\ EmptyStep.admitted = <<>> /\ EmptyStep.prefill = <<>> /\ EmptyStep.rows = <<>>
       /\ EmptyStep.at = 1
  BY DEF EmptyStep
<1>21. ac = Len(running) + Chunked
  BY <1>17 DEF active
<1>22. f = F - (IF n = 0 THEN 0 ELSE NumBlocksToAppend(chunked_req, n))
  BY <1>8, <1>9 DEF due
<1>23. T + Len(running) = MaxNumBatchedTokens /\ F + DecodeBlocks = Len(free_block_ids)
  BY <1>3, <1>4, <1>6
<1>24. ch = IF n = 0 THEN NoSeq ELSE chunked_req
  BY <1>11, <1>17
<1>25. /\ IsInjective(step'.ranked) /\ Range(step'.ranked) \subseteq Range(waiting)
       /\ \A i \in DOMAIN step'.ranked : step'.initial[step'.ranked[i]] = MatchPrefix(step'.ranked[i])
  BY <1>14, <1>16, <1>17, <1>19
<1>26. step'.ranked # <<>> /\ chunked_req # NoSeq =>
                  n # 0 /\ num_cached_tokens[chunked_req] + n = SeqLen(chunked_req)
  BY <1>15, <1>17, <1>19
<1>. WITNESS T \in Nat, F \in Nat, n \in Nat
<1>. QED
  BY <1>3, <1>8, <1>10, <1>19, <1>20, <1>21, <1>22, <1>23, <1>24, <1>25, <1>26

(* Decode, then the chunk, then what is left: the budgets add up.             *)
LEMMA PlanKeeps ==
    ASSUME SchedInv, PlanStep
    PROVE  SchedInv'
<1>1. /\ pc = "preempt" /\ call = NoCall /\ call' = NoCall /\ UNCHANGED <<bmVars, schedVars>>
      /\ pc' = IF SameStep THEN "chunk" ELSE "freeze"
  BY DEF PlanStep, At, Goto, bmVars
<1>a. /\ EvictionInv /\ SchedTypeOK /\ QueueInv /\ HoldingInv /\ TokensInv /\ PhaseInv
      /\ TypeOK /\ CommittedInv /\ CoverInv
  BY BatchTypes DEF SchedInv, EvictionInv, CallsInv, CacheInv, PoolInv
<1>b. EvictionInv' /\ TypeOK'
  BY <1>1, <1>a, StillEviction
<1>2. /\ UNCHANGED <<status, num_prompt_tokens, waiting, running, chunked_req, kv, free_block_ids,
                     block_table, num_cached_tokens, num_new_tokens, token_ids>>
  BY <1>1 DEF bmVars, schedVars, poolVars, seqVars
<1>3. PICK T \in Nat, F \in Nat, n \in Nat :
        /\ T + Len(running) = MaxNumBatchedTokens /\ n <= T
        /\ F + DecodeBlocks = Len(free_block_ids)
        /\ n # 0 =>
             /\ chunked_req # NoSeq
             /\ num_cached_tokens[chunked_req] + n <= SeqLen(chunked_req)
             /\ NumBlocksToAppend(chunked_req, n) <= F
        /\ step' \in Step
        /\ step'.decode = running /\ step'.reserved = DecodeBlocks
        /\ step'.token_budget = T - n /\ step'.chunk_tokens = n
        /\ step'.free_budget = F - (IF n = 0 THEN 0 ELSE NumBlocksToAppend(chunked_req, n))
        /\ step'.chunk = (IF n = 0 THEN NoSeq ELSE chunked_req)
        /\ step'.active = Len(running) + Chunked
        /\ step'.admitted = <<>> /\ step'.prefill = <<>> /\ step'.rows = <<>> /\ step'.at = 1
        /\ IsInjective(step'.ranked) /\ Range(step'.ranked) \subseteq Range(waiting)
        /\ \A i \in DOMAIN step'.ranked :
             step'.initial[step'.ranked[i]] = MatchPrefix(step'.ranked[i])
        /\ step'.ranked # <<>> /\ chunked_req # NoSeq =>
             n # 0 /\ num_cached_tokens[chunked_req] + n = SeqLen(chunked_req)
  BY PlanShape
<1>4. /\ Scheduling' /\ InBatch' /\ ~Processing' /\ ~Scheduling /\ ~Processing
      /\ DecodeFrom' = 1 /\ ChunkWaits' /\ ChunkRows' = 0 /\ Allocated' = 0
  BY <1>1 DEF Scheduling, InBatch, Processing, DecodeFrom, ChunkWaits, ChunkRows, Allocated
<1>5. /\ DOMAIN step'.admitted = {} /\ Len(step'.admitted) = 0
      /\ DOMAIN step'.prefill = {} /\ Range(step'.prefill) = {} /\ Len(step'.prefill) = 0
  <2>1. DOMAIN <<>> = {} /\ Len(<<>>) = 0 /\ Range(<<>>) = {}
    BY DEF Range
  <2>. QED
    BY <1>3, <2>1
<1>6. /\ running \in Seq(Seqs) /\ waiting \in Seq(Seqs) /\ chunked_req \in Seqs \cup {NoSeq}
      /\ NoSeq \notin Seqs /\ Range(running) \in SUBSET Seqs /\ Range(waiting) \subseteq Seqs
      /\ Len(running) \in Nat /\ DOMAIN running = 1 .. Len(running)
  <2>1. /\ running \in Seq(Seqs) /\ waiting \in Seq(Seqs) /\ chunked_req \in Seqs \cup {NoSeq}
        /\ NoSeq \notin Seqs
    BY BatchTypes
  <2>2. /\ Len(running) \in Nat /\ DOMAIN running = 1 .. Len(running)
        /\ \A i \in DOMAIN running : running[i] \in Seqs
        /\ \A i \in DOMAIN waiting : waiting[i] \in Seqs
    BY <2>1
  <2>3. \A q \in Range(running) \cup Range(waiting) : q \in Seqs
    BY <2>2 DEF Range
  <2>. QED
    BY <2>1, <2>2, <2>3
<1>7. \A s \in Seqs : num_new_tokens[s] = 0
  <2>1. step = EmptyStep
    BY <1>1, <1>a DEF PhaseInv
  <2>2. Range(step.prefill) = {} /\ DOMAIN step.decode = {}
    BY <2>1 DEF EmptyStep, Range
  <2>3. \A s \in Seqs : ~(num_new_tokens[s] > 0) /\ num_new_tokens[s] \in Nat
    BY <1>a, <2>2 DEF TokensInv, TypeOK
  <2>. QED
    BY <2>3
<1>8. \A s \in Seqs : status[s] # "RUNNING" => Fresh(s)
  <2>1. \A j : ~Claimed(j)
    BY <1>1 DEF Claimed
  <2>2. \A q : ~Releasing(q)
    BY <1>1 DEF Releasing, NoCall
  <2>3. \A s \in Seqs : status[s] \in {"new", "WAITING", "RUNNING", "FINISHED"}
    BY <1>a DEF SchedTypeOK, Statuses
  <2>. QED
    BY <1>a, <2>1, <2>2, <2>3 DEF HoldingInv
<1>9. /\ step'.chunk # NoSeq => step'.chunk \in Seqs /\ step'.chunk = chunked_req /\ n # 0
      /\ step'.chunk # NoSeq => step'.chunk \notin Range(running) /\ status[step'.chunk] = "RUNNING"
      /\ step'.chunk = NoSeq => n = 0
  BY <1>3, <1>6, <1>a DEF QueueInv
<1>10. \A s \in Range(running) : s \in Seqs /\ status[s] = "RUNNING"
  BY <1>6, <1>a DEF QueueInv
<1>11. SchedTypeOK' /\ PhaseInv' /\ AtInv'
  <2>1. SchedTypeOK'
    BY <1>1, <1>2, <1>3, <1>a, <1>b DEF SchedTypeOK, Phases
  <2>2. PhaseInv'
    BY <1>1 DEF PhaseInv, NoCall
  <2>3. AtInv'
    BY <1>1, <1>3 DEF AtInv
  <2>. QED
    BY <2>1, <2>2, <2>3
<1>12. QueueInv'
  <2>1. Range(step.prefill) = {}
    <3>1. step = EmptyStep
      BY <1>1, <1>a DEF PhaseInv
    <3>. QED
      BY <3>1 DEF EmptyStep, Range
  <2>. QED
    BY <1>2, <1>a, <2>1 DEF QueueInv, Chunked
<1>13. DecodeInv'
  BY <1>2, <1>3, <1>4, <1>6, <1>a DEF DecodeInv, QueueInv
<1>14. ChunkInv'
  <2>1. PICK r \in Nat, c \in {0, 1}, k \in {0, 1} :
            r = Len(running) /\ c = Chunked /\ k = (IF step'.chunk = NoSeq THEN 0 ELSE 1)
    BY <1>6 DEF Chunked
  <2>2. k <= c
    BY <1>6, <1>9, <2>1 DEF Chunked
  <2>3. r + c <= MaxNumSeqs /\ MaxNumSeqs \in Nat
    BY <1>a, <2>1, SchedulerAssumption DEF QueueInv
  <2>4. r + k + 0 <= MaxNumSeqs /\ (r + c) + 0 <= MaxNumSeqs
    BY <2>1, <2>2, <2>3
  <2>5. Len(step'.decode) + (IF step'.chunk = NoSeq THEN 0 ELSE 1) + Len(step'.admitted) <= MaxNumSeqs
    BY <1>3, <1>5, <2>1, <2>4
  <2>6. step'.active + Len(step'.admitted) <= MaxNumSeqs
    BY <1>3, <1>5, <2>1, <2>4
  <2>7. step'.chunk = NoSeq => n = 0 /\ (chunked_req # NoSeq => step'.ranked = <<>>)
    BY <1>3, <1>9
  <2>8. step'.active = Len(running') + Chunked'
    BY <1>2, <1>3 DEF Chunked
  <2>. QED
    BY <1>2, <1>3, <1>9, <2>5, <2>6, <2>7, <2>8 DEF ChunkInv
<1>15. PrefillInv' /\ AdmittedInv' /\ LastPartialInv' /\ RowsInv'
  <2>1. PrefillInv'
    BY <1>4, <1>5 DEF PrefillInv
  <2>2. AdmittedInv'
    BY <1>5 DEF AdmittedInv
  <2>3. LastPartialInv' /\ RowsInv'
    BY <1>1, <1>4 DEF LastPartialInv, RowsInv
  <2>. QED
    BY <2>1, <2>2, <2>3
<1>16. RankedInv'
  <2>1. \A i \in DOMAIN step'.ranked : step'.ranked[i] \in Range(waiting)
    BY <1>3 DEF Range
  <2>2. \A s \in Range(waiting) : s \in Seqs /\ status[s] = "WAITING"
    BY <1>6, <1>a DEF QueueInv
  <2>. QED
    BY <1>2, <1>3, <1>5, <2>1, <2>2 DEF RankedInv
<1>17. PartialInv'
  <2>1. \A q : SeqLen(q)' = SeqLen(q)
    BY <1>2 DEF SeqLen
  <2>2. step'.ranked # <<>> /\ step'.chunk # NoSeq =>
            num_cached_tokens[step'.chunk] + n = SeqLen(step'.chunk)
    BY <1>3, <1>6, <1>9
  <2>3. step'.chunk_tokens = n /\ step'.admitted = <<>>
    BY <1>3
  <2>. QED
    BY <1>2, <1>5, <2>1, <2>2, <2>3 DEF PartialInv
<1>18. HoldingInv'
  <2>1. \A s \in Seqs : Fresh(s)' <=> Fresh(s)
    BY <1>2 DEF Fresh
  <2>2. \A s \in Seqs : status[s] = "RUNNING" => block_table[s] # <<>>
    BY <1>1, <1>a DEF HoldingInv, NoCall
  <2>. QED
    BY <1>2, <1>5, <1>8, <2>1, <2>2 DEF HoldingInv
<1>19. TokensInv'
  <2>1. \A i \in DOMAIN step'.decode : ~(i < 1)
    BY <1>3, <1>6
  <2>2. \A s \in Seqs : ~(num_new_tokens[s] > 0)
    BY <1>7
  <2>3. /\ \A s \in Seqs : num_prompt_tokens[s] <= SeqLen(s)
        /\ \A s \in Seqs : status[s] = "RUNNING" => num_cached_tokens[s] < SeqLen(s)
    BY <1>a DEF TokensInv
  <2>4. \A q : SeqLen(q)' = SeqLen(q)
    BY <1>2 DEF SeqLen
  <2>5. step'.chunk # NoSeq =>
          n >= 1 /\ num_cached_tokens[step'.chunk] + n <= SeqLen(step'.chunk)
    BY <1>3, <1>9
  <2>6. ~(ChunkRows' = 1) /\ ~ \E i \in 1 .. 0 : TRUE
    BY <1>4
  <2>. QED
    BY <1>2, <1>3, <1>4, <2>1, <2>2, <2>3, <2>4, <2>5, <2>6 DEF TokensInv
<1> DEFINE chunk == IF n = 0 THEN NoSeq ELSE chunked_req
           S == Range(running)
           ones == [s \in Seqs |-> IF s \in S THEN 1 ELSE 0]
           blocksDue == [s \in Seqs |-> IF s \in S THEN NumBlocksToAppend(s, 1) ELSE 0]
<1>20. \A s \in Seqs : Pending(s)' = IF s = chunk THEN n ELSE IF s \in S THEN 1 ELSE 0
  <2>. SUFFICES ASSUME NEW s \in Seqs
                PROVE  Pending(s)' = IF s = chunk THEN n ELSE IF s \in S THEN 1 ELSE 0
    OBVIOUS
  <2>1. step'.chunk = chunk /\ step'.chunk_tokens = n /\ step'.decode = running
    BY <1>3
  <2>2. (\E i \in 1 .. Len(running) : running[i] = s) <=> s \in S
    BY <1>6 DEF Range
  <2>3. ~ \E i \in 0 + 1 .. 0 : step'.admitted[i].seq = s
    OBVIOUS
  <2>. HIDE DEF chunk, S
  <2>4. Pending(s)' = IF s = chunk THEN n
                      ELSE IF \E i \in 1 .. Len(running) : running[i] = s THEN 1 ELSE 0
    BY <1>4, <1>5, <2>1, <2>3 DEF Pending
  <2>. QED
    BY <2>2, <2>4
<1>21. PICK c : c = Coming' /\ c = [s \in Seqs |-> IF s = chunk THEN n ELSE IF s \in S THEN 1 ELSE 0]
  <2>. HIDE DEF chunk, S
  <2>1. \A s \in Seqs : 0 + Pending(s)' = Pending(s)'
    BY <1>20, <1>3
  <2>2. \A s \in Seqs : num_new_tokens'[s] + Pending(s)' = IF s = chunk THEN n ELSE IF s \in S THEN 1 ELSE 0
    BY <1>2, <1>7, <1>20, <2>1
  <2>. QED
    BY <2>2 DEF Coming
<1>22. chunk # NoSeq => chunk \in Seqs /\ chunk = chunked_req /\ n # 0 /\ chunk \notin S
                          /\ num_cached_tokens[chunk] + n <= SeqLen(chunk)
                          /\ NumBlocksToAppend(chunk, n) <= F
  BY <1>3, <1>6, <1>9
<1>23. chunk = NoSeq => n = 0
  BY <1>6, <1>3
<1>24. MaxLen \in Nat /\ (Seqs # {} => MaxLen >= 1)
  <2>1. \A s \in Seqs : SeqLen(s) \in 1 .. MaxLen
    BY <1>a DEF TypeOK
  <2>. QED
    BY <2>1, BlockManagerAssumption
<1>25. \A s \in Seqs : /\ SeqLen(s) \in 1 .. MaxLen /\ num_cached_tokens[s] \in Nat
                       /\ num_cached_tokens[s] <= SeqLen(s)
                       /\ s \in S => num_cached_tokens[s] + 1 <= SeqLen(s)
  <2>. SUFFICES ASSUME NEW s \in Seqs
                PROVE  /\ SeqLen(s) \in 1 .. MaxLen /\ num_cached_tokens[s] \in Nat
                       /\ num_cached_tokens[s] <= SeqLen(s)
                       /\ s \in S => num_cached_tokens[s] + 1 <= SeqLen(s)
    OBVIOUS
  <2>1. SeqLen(s) \in 1 .. MaxLen /\ num_cached_tokens[s] \in Nat /\ num_new_tokens[s] = 0
    BY <1>7, <1>a DEF TypeOK
  <2>2. num_cached_tokens[s] + num_new_tokens[s] <= SeqLen(s)
    BY <1>a DEF CommittedInv, ContextEnd
  <2>3. s \in S => num_cached_tokens[s] < SeqLen(s)
    BY <1>10, <1>a DEF TokensInv
  <2>. QED
    BY <1>24, <2>1, <2>2, <2>3
<1>. HIDE DEF chunk, S
<1>26. \A s \in Seqs : num_cached_tokens[s] + c[s] <= SeqLen(s) /\ c[s] \in 0 .. MaxLen
  <2>. SUFFICES ASSUME NEW s \in Seqs
                PROVE  num_cached_tokens[s] + c[s] <= SeqLen(s) /\ c[s] \in 0 .. MaxLen
    OBVIOUS
  <2>1. c[s] = IF s = chunk THEN n ELSE IF s \in S THEN 1 ELSE 0
    BY <1>21
  <2>2. num_cached_tokens[s] + c[s] <= SeqLen(s) /\ c[s] \in Nat
    <3>1. CASE s = chunk
      BY <1>6, <1>22, <2>1, <3>1
    <3>2. CASE s # chunk
      BY <1>25, <2>1, <3>2
    <3>. QED
      BY <3>1, <3>2
  <2>. QED
    BY <1>24, <1>25, <2>2
<1>27. Total(c) = Len(running) + n
  <2>1. Total(ones) = Len(running)
    <3>1. S \in SUBSET Seqs /\ Cardinality(S) = Len(running)
      BY <1>6, <1>a, InjectiveLength DEF QueueInv, S
    <3>2. CASE S = {}
      <4>1. Len(running) = 0
        BY <3>1, <3>2, FS_EmptySet
      <4>2. ones = [s \in Seqs |-> 0]
        BY <3>2
      <4>. QED
        BY <4>1, <4>2, TotalZero
    <3>3. CASE S # {}
      <4>1. MaxLen >= 1
        BY <1>24, <3>1, <3>3
      <4>. QED
        BY <3>1, <4>1, TotalOnes
    <3>. QED
      BY <3>2, <3>3
  <2>2. CASE chunk = NoSeq
    <3>1. c = ones /\ n = 0
      BY <1>6, <1>21, <1>23, <2>2
    <3>. QED
      BY <1>6, <2>1, <3>1
  <2>3. CASE chunk # NoSeq
    <3>1. ones \in [Seqs -> 0 .. MaxLen] /\ c \in [Seqs -> 0 .. MaxLen]
      BY <1>21, <1>24, <1>26
    <3>2. chunk \in Seqs /\ ones[chunk] = 0 /\ c[chunk] = n /\ \A s \in Seqs \ {chunk} : c[s] = ones[s]
      BY <1>21, <1>22, <2>3
    <3>. HIDE DEF ones
    <3>3. Total(c) + ones[chunk] = Total(ones) + c[chunk]
      BY <3>1, <3>2, TotalUpdate
    <3>4. Total(c) \in Nat
      BY TotalType
    <3>. QED
      BY <2>1, <3>2, <3>3, <3>4
  <2>. QED
    BY <2>2, <2>3
<1>28. BudgetInv'
  <2>1. PICK r \in Nat, t \in Nat : r = Len(running) /\ t = step'.token_budget /\ t = T - n
    <3>1. T - n \in Nat
      BY <1>3
    <3>. QED
      BY <1>3, <1>6, <3>1
  <2>2. (r + n) + t = MaxNumBatchedTokens
    BY <1>3, <2>1
  <2>3. Total(Coming)' = r + n
    BY <1>21, <1>27, <2>1 DEF Total
  <2>. QED
    BY <1>2, <1>21, <1>26, <2>1, <2>2, <2>3 DEF BudgetInv, SeqLen
<1>29. PICK d : d = Need' /\ d = [s \in Seqs |-> NumBlocksToAppend(s, c[s])]
  BY <1>2, <1>21 DEF Need, NumBlocksToAppend
<1>30. \A s \in Seqs : NumBlocksToAppend(s, 0) = 0
  <2>. SUFFICES ASSUME NEW s \in Seqs PROVE NumBlocksToAppend(s, 0) = 0
    OBVIOUS
  <2>1. ContextEnd(s) <= Len(block_table[s]) * BlockSize
    BY <1>1, <1>a DEF CoverInv, NoCall
  <2>2. PICK k \in Nat, L \in Nat, y \in Nat :
            /\ k = num_cached_tokens[s] /\ L = Len(block_table[s]) /\ y = L * BlockSize
            /\ num_new_tokens[s] = 0
    <3>1. Len(block_table[s]) \in Nat /\ num_cached_tokens[s] \in Nat
      BY <1>a DEF TypeOK
    <3>. QED
      BY <1>7, <3>1, BlockManagerAssumption, MulFacts
  <2>3. k <= y /\ k + 0 = k
    BY <2>1, <2>2 DEF ContextEnd
  <2>4. CeilDiv(k, BlockSize) \in Nat /\ (L < CeilDiv(k, BlockSize) => L * BlockSize < k)
    BY BlockManagerAssumption, CeilDivFacts
  <2>5. CeilDiv(k, BlockSize) <= L
    BY <2>2, <2>3, <2>4
  <2>. QED
    BY <2>2, <2>3, <2>4, <2>5 DEF NumBlocksToAppend
<1>31. d \in [Seqs -> 0 .. MaxLen]
  <2>1. \A s \in Seqs : NumBlocksToAppend(s, c[s]) \in 0 .. MaxLen
    <3>. SUFFICES ASSUME NEW s \in Seqs PROVE NumBlocksToAppend(s, c[s]) \in 0 .. MaxLen
      OBVIOUS
    <3>1. c[s] \in Nat /\ num_cached_tokens[s] + c[s] <= SeqLen(s)
      BY <1>24, <1>26
    <3>. QED
      BY <1>a, <3>1, AppendType
  <2>. QED
    BY <1>29, <2>1
<1>32. blocksDue \in [Seqs -> 0 .. MaxLen] /\ Total(blocksDue) = DecodeBlocks
  <2>1. \A s \in Seqs : s \in S => NumBlocksToAppend(s, 1) \in 0 .. MaxLen
    <3>. SUFFICES ASSUME NEW s \in Seqs, s \in S PROVE NumBlocksToAppend(s, 1) \in 0 .. MaxLen
      OBVIOUS
    <3>1. num_cached_tokens[s] + 1 <= SeqLen(s)
      BY <1>25
    <3>. QED
      BY <1>a, <3>1, AppendType
  <2>2. blocksDue \in [Seqs -> 0 .. MaxLen]
    BY <1>24, <2>1
  <2>3. Total(blocksDue) = DecodeBlocks
    BY DEF DecodeBlocks, BlocksDue, S
  <2>. QED
    BY <2>2, <2>3
<1>33. Total(d) = DecodeBlocks + (IF n = 0 THEN 0 ELSE NumBlocksToAppend(chunked_req, n))
  <2>1. \A s \in Seqs : s # chunk => d[s] = blocksDue[s]
    BY <1>21, <1>29, <1>30
  <2>2. CASE chunk = NoSeq
    <3>1. d = blocksDue /\ n = 0
      <4>1. \A s \in Seqs : d[s] = blocksDue[s]
        BY <1>6, <2>1, <2>2
      <4>2. d = [s \in Seqs |-> d[s]]
        BY <1>31
      <4>. QED
        BY <1>23, <2>2, <4>1, <4>2
    <3>2. DecodeBlocks \in Nat
      BY <1>32, TotalType
    <3>. QED
      BY <1>32, <3>1, <3>2
  <2>3. CASE chunk # NoSeq
    <3>1. chunk \in Seqs /\ blocksDue[chunk] = 0 /\ d[chunk] = NumBlocksToAppend(chunk, n)
      BY <1>21, <1>22, <1>29, <2>3
    <3>2. \A s \in Seqs \ {chunk} : d[s] = blocksDue[s]
      BY <2>1
    <3>. HIDE DEF blocksDue
    <3>3. Total(d) + blocksDue[chunk] = Total(blocksDue) + d[chunk]
      BY <1>31, <1>32, <3>1, <3>2, TotalUpdate
    <3>4. Total(d) \in Nat
      BY TotalType
    <3>5. chunk = chunked_req /\ n # 0
      BY <1>22, <2>3
    <3>. QED
      BY <1>32, <3>1, <3>3, <3>4, <3>5
  <2>. QED
    BY <2>2, <2>3
<1>34. ReserveInv'
  <2>1. PICK D \in Nat, L \in Nat, x \in Nat :
            /\ D = DecodeBlocks /\ L = Len(free_block_ids) /\ F + D = L
            /\ x = (IF n = 0 THEN 0 ELSE NumBlocksToAppend(chunked_req, n)) /\ x <= F
    <3>1. DecodeBlocks \in Nat
      BY <1>32, TotalType
    <3>2. Len(free_block_ids) \in Nat
      BY <1>a DEF TypeOK
    <3>3. n # 0 => NumBlocksToAppend(chunked_req, n) \in Nat
      <4>. SUFFICES ASSUME n # 0 PROVE NumBlocksToAppend(chunked_req, n) \in Nat
        OBVIOUS
      <4>1. NumBlocksToAppend(chunked_req, n) \in 0 .. MaxLen
        BY <1>3, <1>6, <1>a, AppendType
      <4>. QED
        BY <1>24, <4>1
    <3>. QED
      BY <1>3, <3>1, <3>2, <3>3
  <2>2. ToClaim' = {} /\ Cardinality(ToClaim') = 0
    <3>1. Planned' = {}
      BY <1>1, <1>5 DEF Planned, NoCall
    <3>2. ToClaim' = {}
      BY <3>1 DEF ToClaim
    <3>. QED
      BY <3>2, FS_EmptySet
  <2>3. Total(Need)' = D + x
    BY <1>29, <1>33, <2>1 DEF Total
  <2>4. step'.free_budget = F - x
    BY <1>3, <2>1
  <2>5. (D + x) + 0 + (F - x) <= L /\ (D + x) + 0 + 0 <= L
    BY <2>1
  <2>6. DecodeBlocks' = DecodeBlocks
    BY <1>1, <1>2 DEF DecodeBlocks, BlocksDue, NumBlocksToAppend, Total
  <2>7. (D + x) + 0 + (IF pc' = "freeze" THEN step'.free_budget ELSE 0) <= L
    BY <2>4, <2>5
  <2>. QED
    BY <1>2, <1>3, <2>1, <2>2, <2>3, <2>6, <2>7 DEF ReserveInv
<1>35. PlansInv'
  <2>1. \A q, p : PlanIsCurrent(q, p)' = PlanIsCurrent(q, p)
    BY <1>1 DEF PlanIsCurrent, ClaimedPrefixValid, Stores, BlockHash, SeqBlock, Prefix, LineageOf,
                TableAt, Resident, IsUsed, IsFree, SeqLen, NumSeqBlocks, Owner, OwnerIn,
                bmVars, poolVars, seqVars
  <2>2. PICK ranked, initial : ranked = step'.ranked /\ initial = step'.initial
    OBVIOUS
  <2>3. ASSUME NEW i \in DOMAIN ranked PROVE PlanIsCurrent(ranked[i], initial[ranked[i]])
    <3>1. ranked[i] \in Range(waiting) /\ initial[ranked[i]] = MatchPrefix(ranked[i])
      BY <1>3, <2>2 DEF Range
    <3>2. ranked[i] \in Seqs /\ status[ranked[i]] = "WAITING"
      BY <1>6, <1>a, <3>1 DEF QueueInv
    <3>3. Fresh(ranked[i])
      BY <1>8, <3>2
    <3>. QED
      BY <1>a, <3>1, <3>2, <3>3, MatchIsCurrent
  <2>4. \A i \in DOMAIN ranked : PlanIsCurrent(ranked[i], initial[ranked[i]])'
    BY <2>1, <2>3
  <2>. QED
    BY <1>5, <2>2, <2>4 DEF PlansInv
<1>. QED
  BY <1>b, <1>11, <1>12, <1>13, <1>14, <1>15, <1>16, <1>17, <1>18, <1>19, <1>28, <1>34, <1>35 DEF SchedInv

-----------------------------------------------------------------------------
(* The invariant holds in every state                                      *)

LEMMA InitSched ==
    ASSUME SchedInit
    PROVE  SchedInv
<1>1. /\ Init /\ status = [s \in Seqs |-> "new"]
      /\ num_prompt_tokens = [s \in Seqs |-> Len(token_ids[s])]
      /\ waiting = <<>> /\ running = <<>> /\ chunked_req = NoSeq
      /\ pc = "idle" /\ step = EmptyStep /\ kv = [b \in BlockIds |-> <<>>]
      /\ call = NoCall /\ token_ids \in [Seqs -> Prompts]
      /\ block_table = [s \in Seqs |-> <<>>]
      /\ num_cached_tokens = [s \in Seqs |-> 0] /\ num_new_tokens = [s \in Seqs |-> 0]
  BY DEF SchedInit, Init
<1>2. EvictionInv /\ TypeOK
  <2>1. EvictionInv
    BY <1>1, InitEviction
  <2>. QED
    BY <2>1 DEF EvictionInv, CallsInv, CacheInv, PoolInv
<1>3. \A s \in Seqs : SeqLen(s) \in 1 .. MaxLen /\ num_prompt_tokens[s] = SeqLen(s)
  BY <1>1, BlockManagerAssumption DEF SeqLen
<1>4. SchedTypeOK
  <2>1. num_prompt_tokens \in [Seqs -> 1 .. MaxLen]
    BY <1>1, <1>3 DEF SeqLen
  <2>2. step \in Step
    BY <1>1, EmptyStepType
  <2>. QED
    BY <1>1, <1>2, <2>1, <2>2 DEF SchedTypeOK, Statuses, Phases
<1>5. Range(waiting) = {} /\ Range(running) = {}
  BY <1>1 DEF Range
<1>6. PhaseInv
  BY <1>1 DEF PhaseInv, NoCall
<1>7. QueueInv
  BY <1>1, <1>5, SchedulerAssumption DEF QueueInv, Chunked, IsInjective
<1>8. AtInv
  BY <1>1 DEF AtInv
<1>9. ~Scheduling /\ ~Processing /\ ~InBatch
  BY <1>1 DEF Scheduling, Processing, InBatch
<1>10. DecodeInv /\ ChunkInv /\ PrefillInv /\ RankedInv /\ AdmittedInv
  BY <1>9 DEF DecodeInv, ChunkInv, PrefillInv, RankedInv, AdmittedInv
<1>11. PartialInv /\ LastPartialInv /\ BudgetInv
  BY <1>1, <1>9 DEF PartialInv, LastPartialInv, BudgetInv
<1>12. RowsInv /\ ReserveInv /\ PlansInv
  BY <1>1, <1>9 DEF RowsInv, ReserveInv, PlansInv
<1>13. HoldingInv
  BY <1>1, <1>9 DEF HoldingInv, Fresh
<1>14. TokensInv
  <2>1. \A s \in Seqs : num_prompt_tokens[s] <= SeqLen(s)
    BY <1>3
  <2>. QED
    BY <1>1, <1>9, <2>1 DEF TokensInv
<1>. QED
  BY <1>2, <1>4, <1>6, <1>7, <1>8, <1>10, <1>11, <1>12, <1>13, <1>14 DEF SchedInv

(* A step of the engine between two calls of the block manager.             *)
LEMMA ScheduleStep ==
    ASSUME SchedInv, Schedule
    PROVE  SchedInv' /\ [Next]_bmVars
<1>1. CASE PreemptTail
  BY <1>1, PreemptKeeps
<1>2. CASE PlanStep
  BY <1>2, PlanKeeps DEF PlanStep
<1>3. CASE ChunkAppend
  <2>1. CASE step.chunk = NoSeq
    BY <1>3, <2>1, NoChunkKeeps DEF ChunkAppend
  <2>2. CASE step.chunk # NoSeq
    BY <1>3, <2>2, ChunkKeeps
  <2>. QED
    BY <2>1, <2>2
<1>4. CASE CommitClaim
  BY <1>4, CommitClaimKeeps
<1>5. CASE CommitAllocate
  BY <1>5, CommitAllocateKeeps
<1>6. CASE CommitEnd
  BY <1>6, CommitEndKeeps DEF CommitEnd
<1>7. CASE Freeze
  BY <1>7, FreezeKeeps DEF Freeze
<1>8. CASE FreezeEnd
  BY <1>8, FreezeEndKeeps DEF FreezeEnd
<1>9. CASE FrozenClaim
  <2>1. CASE step.at > Len(step.admitted)
    BY <1>9, <2>1, FrozenClaimEndKeeps DEF FrozenClaim
  <2>2. CASE ~(step.at > Len(step.admitted))
    BY <1>9, <2>2, FrozenClaimKeeps
  <2>. QED
    BY <2>1, <2>2
<1>10. CASE FrozenAllocate
  <2>1. CASE step.at > Len(step.admitted)
    BY <1>10, <2>1, FrozenAllocateEndKeeps DEF FrozenAllocate
  <2>2. CASE ~(step.at > Len(step.admitted))
    BY <1>10, <2>2, FrozenAllocateKeeps
  <2>. QED
    BY <2>1, <2>2
<1>11. CASE DecodeAppend
  BY <1>11, DecodeKeeps
<1>12. CASE ScheduleEnd
  BY <1>12, ScheduleEndKeeps DEF ScheduleEnd
<1>13. CASE DecodeAssertionRaises \/ NoProgressRaises
  <2>1. call = NoCall /\ pc = "decode" /\ pc' = "raised" /\ UNCHANGED <<bmVars, schedVars, step>>
    BY <1>13 DEF DecodeAssertionRaises, NoProgressRaises, At, Goto
  <2>. QED
    BY <2>1, LeavesKeep
<1>. QED
  BY <1>1, <1>2, <1>3, <1>4, <1>5, <1>6, <1>7, <1>8, <1>9, <1>10, <1>11, <1>12, <1>13 DEF Schedule

LEMMA NextSched ==
    ASSUME SchedInv, [SchedNext]_vars
    PROVE  SchedInv' /\ [Next]_bmVars
<1>1. CASE StartStep
  <2>1. call = NoCall /\ pc = "idle" /\ pc' = "preempt" /\ UNCHANGED <<bmVars, schedVars, step>>
    BY <1>1 DEF StartStep, At, Goto
  <2>. QED
    BY <2>1, LeavesKeep
<1>2. CASE Schedule
  BY <1>2, ScheduleStep
<1>3. CASE Run
  BY <1>3, RunKeeps DEF Run
<1>4. CASE Postprocess
  <2>1. CASE \E t \in Token : Sample(t)
    BY <2>1, SampleKeeps
  <2>2. CASE Finish
    BY <2>2, FinishKeeps
  <2>3. CASE SampleEnd
    BY <2>3, SampleEndKeeps DEF SampleEnd
  <2>4. CASE AdvanceBatch
    BY <2>4, AdvanceKeeps
  <2>. QED
    BY <1>4, <2>1, <2>2, <2>3, <2>4 DEF Postprocess
<1>5. CASE BlockManagerStep
  <2>1. CallStep /\ Next
    BY <1>5 DEF BlockManagerStep, Next
  <2>2. SchedInv'
    BY <1>5, <2>1, ClaimKeeps, FillKeeps, ReleaseKeeps DEF CallStep
  <2>. QED
    BY <2>1, <2>2
<1>6. CASE \E s \in Seqs : Add(s)
  BY <1>6, AddKeeps DEF Add
<1>7. CASE UNCHANGED vars
  BY <1>7, StutterKeeps DEF vars
<1>. QED
  BY <1>1, <1>2, <1>3, <1>4, <1>5, <1>6, <1>7 DEF SchedNext, Engine, Stopped

LEMMA SchedulerInvariant == SchedSpec => []SchedInv
BY InitSched, NextSched, PTL DEF SchedSpec

-----------------------------------------------------------------------------
(* What follows                                                            *)

(* The scheduler only makes legal calls: it never asks for more tokens than  *)
(* a sequence has nor for more blocks than are free, claims only matches     *)
(* that still hold, and never continues a sequence whose tokens are in       *)
(* flight (Scheduler.schedule, postprocess).                               *)
THEOREM SchedulerCallsLegally == SchedSpec => LegalCalls
<1>1. SchedInit => Init
  BY DEF SchedInit
<1>. QED
  BY <1>1, SchedulerInvariant, NextSched, PTL DEF SchedSpec, LegalCalls, Spec

(* So what is proved of the block manager holds of the engine: no block is   *)
(* lost, a table names only blocks that store the request's own prefix, no   *)
(* assertion of BlockManager fires, and no reference outlives its block.     *)
THEOREM CacheSoundUnderScheduler ==
    SchedSpec => [](BlocksAccounted /\ PrefixSound /\ AssertionsHold /\ ReferencesResident)
BY SchedulerCallsLegally, NoBlockLost, PrefixReuseSound, NoAssertionFires,
   NoDanglingReference, PTL DEF LegalCalls

(* Under the scheduler too the block manager keeps the promise of the        *)
(* abstract page cache, step by step (Scheduler.schedule, postprocess).     *)
THEOREM SchedulerImplementsPageCache == SchedSpec => Implements
BY SchedulerCallsLegally, BlockManagerImplementsPageCache DEF LegalCalls

(* Every variable of the scheduler keeps its domain (Scheduler.__init__).    *)
THEOREM SchedulerTypeCorrect == SchedSpec => []SchedTypeOK
<1>1. SchedInv => SchedTypeOK
  BY DEF SchedInv
<1>. QED
  BY <1>1, SchedulerInvariant, PTL

LEMMA QueuesFollow ==
    ASSUME SchedInv
    PROVE  QueuesConsistent
<1>1. QueueInv /\ HoldingInv /\ PhaseInv /\ SchedTypeOK
  BY DEF SchedInv
<1>2. IsInjective(waiting) /\ IsInjective(running)
  BY <1>1 DEF QueueInv
<1>. SUFFICES ASSUME pc = "idle", call = NoCall, NEW s \in Seqs
              PROVE  /\ s \in Range(waiting) <=> status[s] = "WAITING"
                     /\ (s \in Range(running)) # (s = chunked_req) <=> status[s] = "RUNNING"
                     /\ status[s] # "RUNNING" <=> block_table[s] = <<>>
                     /\ Len(running) + (IF chunked_req = NoSeq THEN 0 ELSE 1) <= MaxNumSeqs
  <2>1. Len(running) + (IF chunked_req = NoSeq THEN 0 ELSE 1) <= MaxNumSeqs
    BY <1>1 DEF QueueInv, Chunked
  <2>. QED
    BY <1>2, <2>1 DEF QueuesConsistent
<1>3. step.prefill = <<>> /\ step.admitted = <<>>
  BY <1>1 DEF PhaseInv, EmptyStep
<1>4. s # NoSeq
  BY SchedulerAssumption
<1>5. (s \in Range(running)) # (s = chunked_req) <=> status[s] = "RUNNING"
  <2>1. s \in Range(running) => status[s] = "RUNNING"
    BY <1>1 DEF QueueInv
  <2>2. s = chunked_req => status[s] = "RUNNING" /\ s \notin Range(running)
    BY <1>1, <1>4 DEF QueueInv
  <2>3. status[s] = "RUNNING" => s \in Range(running) \/ s = chunked_req
    <3>1. s \notin Range(step.prefill)
      BY <1>3 DEF Range
    <3>. QED
      BY <1>1, <3>1 DEF QueueInv
  <2>. QED
    BY <2>1, <2>2, <2>3
<1>6. status[s] # "RUNNING" <=> block_table[s] = <<>>
  <2>1. ~Releasing(s) /\ call.op # "fill"
    BY DEF Releasing, NoCall
  <2>2. DOMAIN step.admitted = {}
    BY <1>3
  <2>3. status[s] \in Statuses
    BY <1>1 DEF SchedTypeOK
  <2>4. status[s] # "RUNNING" => Fresh(s)
    BY <1>1, <2>1, <2>2, <2>3 DEF HoldingInv, Statuses
  <2>5. status[s] = "RUNNING" => block_table[s] # <<>>
    BY <1>1, <2>1 DEF HoldingInv
  <2>. QED
    BY <2>4, <2>5 DEF Fresh
<1>. QED
  BY <1>1, <1>5, <1>6 DEF QueueInv, Chunked

(* Between two steps every request is in exactly one queue, as its status    *)
(* says, and only waiting requests hold no block (Scheduler.add, preempt,    *)
(* _finish, postprocess).                                                  *)
THEOREM SchedulerQueuesConsistent == SchedSpec => []QueuesConsistent
BY QueuesFollow, SchedulerInvariant, PTL

LEMMA ReserveFollows ==
    ASSUME SchedInv
    PROVE  DecodeReserved
<1>. SUFFICES ASSUME Scheduling
              PROVE  BlocksDue({s \in Range(step.decode) : num_new_tokens[s] = 0})
                         <= Len(free_block_ids)
  BY DEF DecodeReserved, Scheduling
<1> DEFINE left == {s \in Range(step.decode) : num_new_tokens[s] = 0}
<1>1. /\ InBatch /\ ReserveInv /\ TokensInv /\ TypeOK
  BY BatchTypes DEF SchedInv, InBatch
<1>2. /\ Need \in [Seqs -> 0 .. MaxLen] /\ MaxLen \in Nat
      /\ \A s \in Seqs : Coming[s] = num_new_tokens[s] + Pending(s)
                         /\ Need[s] = NumBlocksToAppend(s, Coming[s])
  BY NeedTypes, BlockManagerAssumption
<1>3. PICK D \in Nat : D = Len(step.decode) /\ DOMAIN step.decode = 1 .. D
                       /\ \A i \in 1 .. D : step.decode[i] \in Seqs
  BY BatchTypes
<1>4. PICK d \in Nat : d = DecodeFrom /\ d >= 1
  BY <1>1, BatchTypes DEF DecodeFrom, SchedInv, AtInv
<1>5. ASSUME NEW s \in left PROVE s \in Seqs /\ Need[s] = NumBlocksToAppend(s, 1)
  <2>1. PICK i \in 1 .. D : step.decode[i] = s
    BY <1>3 DEF Range
  <2>2. ~(i < d)
    <3>1. i < d => num_new_tokens[s] = 1
      BY <1>1, <1>3, <1>4, <2>1 DEF TokensInv
    <3>. QED
      BY <3>1
  <2>3. i \in d .. D
    BY <2>2
  <2>4. s \in Seqs
    BY <1>3, <2>1
  <2>5. Pending(s) = 1
    BY <1>1, <1>3, <1>4, <2>1, <2>3, <2>4, PendingFacts
  <2>6. Coming[s] = 1
    BY <1>2, <2>4, <2>5
  <2>. QED
    BY <1>2, <2>4, <2>6
<1>. HIDE DEF left
<1> DEFINE f == [s \in Seqs |-> IF s \in left THEN NumBlocksToAppend(s, 1) ELSE 0]
<1>6. \A s \in Seqs : f[s] \in Nat /\ f[s] <= Need[s] /\ Need[s] \in Nat
  BY <1>2, <1>5
<1>7. Total(f) <= Total(Need)
  <2>1. f \in [Seqs -> Nat] /\ Need \in [Seqs -> Nat]
    BY <1>2, <1>6
  <2>. HIDE DEF f
  <2>. QED
    BY <1>6, <2>1, TotalMonotone
<1>8. BlocksDue(left) = Total(f)
  BY DEF BlocksDue
<1>. HIDE DEF f
<1>9. /\ Total(f) \in Nat /\ Total(Need) \in Nat /\ Cardinality(ToClaim) \in Nat
      /\ step.free_budget \in Nat /\ Len(free_block_ids) \in Nat
  <2>1. step.free_budget \in Nat /\ Len(free_block_ids) \in Nat
    BY <1>1, BatchTypes DEF TypeOK
  <2>. QED
    BY <1>1, <2>1, TotalType, ToClaimFinite
<1>10. Total(Need) + Cardinality(ToClaim)
          + (IF pc = "freeze" THEN step.free_budget ELSE 0) <= Len(free_block_ids)
  BY <1>1 DEF ReserveInv
<1>11. Total(f) <= Len(free_block_ids)
  BY <1>7, <1>9, <1>10
<1>. QED
  BY <1>8, <1>11 DEF left

(* Whatever is admitted, the decode rows still to come find their blocks     *)
(* (Scheduler.schedule, reserved_decode_blocks).                            *)
THEOREM DecodeKeepsItsBlocks == SchedSpec => []DecodeReserved
BY ReserveFollows, SchedulerInvariant, PTL

(* A table of whole blocks needs one more for each block of the new tokens.  *)
LEMMA WholeBlocks ==
    ASSUME NEW L \in Nat, NEW n \in Nat, NEW d \in Nat \ {0}
    PROVE  /\ CeilDiv(n, d) \in Nat /\ CeilDiv(L * d + n, d) \in Nat
           /\ CeilDiv(n, d) + L <= CeilDiv(L * d + n, d)
<1>1. PICK y \in Nat : y = L * d
  BY MulFacts
<1>2. PICK m \in Nat : m = y + n
  OBVIOUS
<1>3. PICK c \in Nat : c = CeilDiv(m, d) /\ m <= c * d
  BY CeilDivCovers
<1>4. CeilDiv(n, d) \in Nat
  BY CeilDivCovers
<1>5. L <= c
  <2>1. L * d <= m => L <= CeilDiv(m, d)
    BY CeilDivFacts
  <2>. QED
    BY <1>1, <1>2, <1>3, <2>1
<1>6. PICK k \in Nat : c = L + k
  BY <1>5
<1>7. c * d = y + k * d /\ k * d \in Nat
  BY <1>1, <1>6, MulFacts
<1>8. n <= k * d
  BY <1>2, <1>3, <1>7
<1>9. ~(k < CeilDiv(n, d))
  <2>1. k < CeilDiv(n, d) => k * d < n
    BY CeilDivFacts
  <2>. QED
    BY <1>7, <1>8, <2>1
<1>10. CeilDiv(n, d) + L <= c
  BY <1>4, <1>6, <1>9
<1>. QED
  BY <1>1, <1>2, <1>3, <1>4, <1>10

(* An admitted request that holds its plan can be allocated.                 *)
LEMMA ClaimedIsReady ==
    ASSUME SchedInv, Scheduling, call = NoCall, NEW i \in 1 .. Len(step.admitted),
           i \in Allocated + 1 .. Len(step.admitted), Claimed(i)
    PROVE  /\ ClaimedPrefixValid(step.admitted[i].seq)
           /\ CeilDiv(step.admitted[i].new, BlockSize) <= Len(free_block_ids)
<1>1. /\ InBatch /\ EvictionInv /\ TypeOK /\ HoldingInv /\ ReserveInv
  BY BatchTypes DEF SchedInv, InBatch
<1>2. PICK s \in Seqs, n \in Nat : s = step.admitted[i].seq /\ n = step.admitted[i].new
  BY BatchTypes
<1>3. HoldsPlan(step.admitted[i])
  <2>1. i \in DOMAIN step.admitted
    BY BatchTypes
  <2>. QED
    BY <1>1, <2>1 DEF HoldingInv
<1>4. num_new_tokens[s] = 0 /\ num_cached_tokens[s] = Len(block_table[s]) * BlockSize
  BY <1>2, <1>3 DEF HoldsPlan
<1>5. ClaimedPrefixValid(s)
  BY <1>1, <1>4, ClaimsValid DEF EvictionInv, NoCall
<1>6. Pending(s) = n
  BY <1>1, <1>2, PendingFacts
<1>7. Need \in [Seqs -> 0 .. MaxLen] /\ Need[s] = NumBlocksToAppend(s, n)
  BY <1>4, <1>6, NeedTypes
<1>8. PICK L \in Nat : L = Len(block_table[s]) /\ num_cached_tokens[s] = L * BlockSize
  BY <1>1, <1>4 DEF TypeOK
<1>9. CeilDiv(n, BlockSize) \in Nat /\ CeilDiv(n, BlockSize) <= Need[s]
  <2>1. PICK c \in Nat, w \in Nat :
            c = CeilDiv(L * BlockSize + n, BlockSize) /\ w = CeilDiv(n, BlockSize) /\ w + L <= c
    BY WholeBlocks, BlockManagerAssumption
  <2>2. Need[s] = IF c - L > 0 THEN c - L ELSE 0
    BY <1>7, <1>8, <2>1 DEF NumBlocksToAppend
  <2>. QED
    BY <2>1, <2>2
<1>10. Need[s] <= Total(Need) /\ Total(Need) \in Nat /\ Need[s] \in Nat
  BY <1>7, TotalBound
<1>11. Cardinality(ToClaim) \in Nat /\ step.free_budget \in Nat /\ Len(free_block_ids) \in Nat
  <2>1. step.free_budget \in Nat /\ Len(free_block_ids) \in Nat
    BY <1>1, BatchTypes DEF TypeOK
  <2>. QED
    BY <1>1, <2>1, ToClaimFinite
<1>12. Total(Need) + Cardinality(ToClaim)
          + (IF pc = "freeze" THEN step.free_budget ELSE 0) <= Len(free_block_ids)
  BY <1>1 DEF ReserveInv
<1>13. CeilDiv(n, BlockSize) <= Len(free_block_ids)
  BY <1>9, <1>10, <1>11, <1>12
<1>. QED
  BY <1>2, <1>5, <1>13

LEMMA PlansFollow ==
    ASSUME SchedInv
    PROVE  PlansCurrent
<1>1. AtInv /\ PlansInv
  BY DEF SchedInv
<1>2. ASSUME At("claim"), step.at <= Len(step.admitted)
      PROVE  LET a == step.admitted[step.at] IN PlanIsCurrent(a.seq, a.plan)
  <2>1. pc = "claim" /\ Scheduling /\ InBatch
    BY <1>2 DEF At, Scheduling, InBatch
  <2>2. PICK N \in Nat : N = Len(step.admitted) /\ DOMAIN step.admitted = 1 .. N
    BY <2>1, BatchTypes
  <2>3. PICK i \in 1 .. N : i = step.at
    BY <1>1, <1>2, <2>1, <2>2 DEF AtInv
  <2>4. i >= step.at
    BY <2>3
  <2>. QED
    BY <1>1, <2>1, <2>2, <2>3, <2>4 DEF PlansInv
<1>3. ASSUME At("admit")
      PROVE  LET a == Last(step.admitted) IN
             ClaimedPrefixValid(a.seq) /\ CeilDiv(a.new, BlockSize) <= Len(free_block_ids)
  <2>1. pc = "admit" /\ call = NoCall /\ Scheduling /\ InBatch
    BY <1>3 DEF At, Scheduling, InBatch
  <2>2. PICK N \in Nat : N = Len(step.admitted)
    BY <2>1, BatchTypes
  <2>3. N >= 1 /\ Allocated = N - 1
    <3>1. Allocated = N - 1 /\ Allocated \in 0 .. N
      BY <2>1, <2>2, BatchTypes DEF Allocated
    <3>. QED
      BY <3>1
  <2>4. N \in 1 .. Len(step.admitted) /\ N \in Allocated + 1 .. Len(step.admitted)
    BY <2>2, <2>3
  <2>5. Claimed(N)
    BY <2>1, <2>2 DEF Claimed
  <2>6. Last(step.admitted) = step.admitted[N]
    BY <2>2 DEF Last
  <2>. QED
    BY <2>1, <2>4, <2>5, <2>6, ClaimedIsReady
<1>4. ASSUME At("allocate"), step.at <= Len(step.admitted)
      PROVE  LET a == step.admitted[step.at] IN
             ClaimedPrefixValid(a.seq) /\ CeilDiv(a.new, BlockSize) <= Len(free_block_ids)
  <2>1. pc = "allocate" /\ call = NoCall /\ Scheduling /\ InBatch
    BY <1>4 DEF At, Scheduling, InBatch
  <2>2. PICK N \in Nat : N = Len(step.admitted)
    BY <2>1, BatchTypes
  <2>3. PICK i \in 1 .. N : i = step.at /\ Allocated = i - 1
    BY <1>1, <1>4, <2>1, <2>2 DEF AtInv, Allocated
  <2>4. i \in 1 .. Len(step.admitted) /\ i \in Allocated + 1 .. Len(step.admitted) /\ i > Allocated
    BY <2>2, <2>3
  <2>5. Claimed(i)
    BY <2>1, <2>4 DEF Claimed
  <2>. QED
    BY <2>1, <2>3, <2>4, <2>5, ClaimedIsReady
<1>. QED
  BY <1>2, <1>3, <1>4 DEF PlansCurrent

(* A frozen plan is still what the index holds when it is claimed, and a     *)
(* claimed prefix is still valid, with room for the rest, when the suffix is *)
(* allocated (Scheduler.schedule, _validate_claimed_prefix).                *)
THEOREM PlansStayCurrent == SchedSpec => []PlansCurrent
BY PlansFollow, SchedulerInvariant, PTL

(* A batch has at most one row that does not reach the end of its sequence.  *)
LEMMA OnePartial ==
    ASSUME SchedInv, pc = "run"
    PROVE  \A s \in Range(Scheduled) : ContextEnd(s) < SeqLen(s) =>
               s = step.prefill[Len(step.prefill)]
<1>. SUFFICES ASSUME NEW s \in Range(Scheduled), ContextEnd(s) < SeqLen(s)
              PROVE  s = step.prefill[Len(step.prefill)]
  OBVIOUS
<1>1. /\ InBatch /\ TokensInv /\ PartialInv /\ PrefillInv /\ TypeOK
  BY BatchTypes DEF SchedInv, InBatch, Processing
<1>2. PICK N \in Nat, D \in Nat, c \in {0, 1} :
          /\ N = Len(step.admitted) /\ D = Len(step.decode) /\ c = ChunkRows
          /\ Allocated = N /\ DecodeFrom = D + 1
          /\ DOMAIN step.decode = 1 .. D /\ DOMAIN step.admitted = 1 .. N
  <2>1. Allocated = Len(step.admitted) /\ DecodeFrom = Len(step.decode) + 1
    BY DEF Allocated, DecodeFrom, Scheduling
  <2>. QED
    BY <2>1, BatchTypes
<1>3. Len(step.prefill) = c + N /\ DOMAIN step.prefill = 1 .. c + N
  BY <1>1, <1>2, BatchTypes DEF PrefillInv
<1>4. s \in Seqs /\ Range(Scheduled) = Range(step.prefill) \cup Range(step.decode)
  BY RunFacts
<1>5. PICK l \in Nat, k \in Nat, n \in Nat :
          l = SeqLen(s) /\ k = num_cached_tokens[s] /\ n = num_new_tokens[s] /\ k + n < l
  <2>1. SeqLen(s) \in Nat /\ num_cached_tokens[s] \in Nat /\ num_new_tokens[s] \in Nat
    BY <1>1, <1>4, BlockManagerAssumption DEF TypeOK
  <2>. QED
    BY <2>1 DEF ContextEnd
<1>6. s \notin Range(step.decode)
  <2>. SUFFICES ASSUME s \in Range(step.decode) PROVE FALSE
    OBVIOUS
  <2>1. PICK j \in 1 .. D : s = step.decode[j]
    BY <1>2 DEF Range
  <2>2. j < DecodeFrom
    BY <1>2, <2>1
  <2>3. n = 1 /\ l - k = 1
    BY <1>1, <1>2, <1>5, <2>1, <2>2 DEF TokensInv, DecodeReady
  <2>. QED
    BY <1>5, <2>3
<1>7. PICK j \in 1 .. c + N : s = step.prefill[j]
  BY <1>3, <1>4, <1>6 DEF Range
<1>8. CASE c = 1 /\ j = 1 /\ s = step.chunk /\ step.chunk # NoSeq
  <2>1. n = step.chunk_tokens
    BY <1>1, <1>2, <1>5, <1>8 DEF TokensInv
  <2>2. step.admitted = <<>>
    BY <1>1, <1>5, <1>8, <2>1 DEF PartialInv
  <2>3. N = 0
    BY <1>2, <2>2
  <2>. QED
    BY <1>3, <1>7, <1>8, <2>3
<1>9. CASE j - c \in 1 .. N /\ s = step.admitted[j - c].seq
  <2>1. PICK i \in 1 .. N : i = j - c
    BY <1>9
  <2>2. n = step.admitted[i].new /\ k = Len(step.admitted[i].plan) * BlockSize
    BY <1>1, <1>2, <1>5, <1>9, <2>1 DEF TokensInv
  <2>3. ~(i < N)
    <3>1. i < N => k + n = l
      BY <1>1, <1>2, <1>5, <1>9, <2>1, <2>2 DEF PartialInv
    <3>. QED
      BY <1>5, <3>1
  <2>4. j = c + N
    BY <2>1, <2>3
  <2>. QED
    BY <1>3, <1>7, <2>4
<1>. QED
  BY <1>1, <1>2, <1>3, <1>7, <1>8, <1>9, PrefillRows

LEMMA BatchFollows ==
    ASSUME SchedInv
    PROVE  BatchWellFormed
<1>. SUFFICES ASSUME pc = "run"
              PROVE  /\ IsInjective(Scheduled)
                     /\ Len(Scheduled) <= MaxNumSeqs
                     /\ Total([s \in Seqs |-> IF s \in Range(Scheduled) THEN num_new_tokens[s] ELSE 0])
                            <= MaxNumBatchedTokens
                     /\ \A s \in Range(Scheduled) :
                            /\ num_new_tokens[s] > 0
                            /\ ContextEnd(s) <= SeqLen(s)
                            /\ CeilDiv(ContextEnd(s), BlockSize) = Len(block_table[s])
                     /\ Cardinality({s \in Range(Scheduled) : ContextEnd(s) < SeqLen(s)}) <= 1
  BY DEF BatchWellFormed
<1>1. /\ InBatch /\ BudgetInv /\ EvictionInv /\ TypeOK /\ PhaseInv /\ CoverInv /\ TableInv
  BY BatchTypes DEF SchedInv, InBatch, Processing, EvictionInv, CallsInv, CacheInv
<1>2. /\ IsInjective(Scheduled) /\ Len(Scheduled) <= MaxNumSeqs /\ Scheduled \in Seq(Seqs)
      /\ \A s \in Range(Scheduled) :
            s \in Seqs /\ num_new_tokens[s] > 0 /\ ContextEnd(s) <= SeqLen(s)
  BY RunFacts
<1> DEFINE f == [s \in Seqs |-> IF s \in Range(Scheduled) THEN num_new_tokens[s] ELSE 0]
<1>3. Total(f) <= MaxNumBatchedTokens
  <2>1. /\ Coming \in [Seqs -> 0 .. MaxLen] /\ MaxLen \in Nat
        /\ \A s \in Seqs : Coming[s] = num_new_tokens[s] + Pending(s)
    BY NeedTypes, BlockManagerAssumption
  <2>2. \A s \in Seqs : f[s] \in Nat /\ Coming[s] \in Nat /\ f[s] <= Coming[s]
    <3>. SUFFICES ASSUME NEW s \in Seqs
                  PROVE  f[s] \in Nat /\ Coming[s] \in Nat /\ f[s] <= Coming[s]
      OBVIOUS
    <3>1. num_new_tokens[s] \in Nat /\ Pending(s) \in Nat
      BY <1>1, PendingFacts DEF TypeOK
    <3>. QED
      BY <2>1, <3>1
  <2>3. f \in [Seqs -> Nat] /\ Coming \in [Seqs -> Nat]
    BY <2>1, <2>2
  <2>. HIDE DEF f
  <2>4. Total(f) <= Total(Coming)
    BY <2>2, <2>3, TotalMonotone
  <2>5. Total(f) \in Nat /\ Total(Coming) \in Nat
    BY TotalType
  <2>6. Total(Coming) + step.token_budget = MaxNumBatchedTokens /\ step.token_budget \in Nat
    BY <1>1, BatchTypes DEF BudgetInv
  <2>. QED
    BY <2>4, <2>5, <2>6
<1>4. ASSUME NEW s \in Range(Scheduled)
      PROVE  CeilDiv(ContextEnd(s), BlockSize) = Len(block_table[s])
  <2>1. call.op \notin {"fill", "release"}
    BY <1>1 DEF PhaseInv
  <2>2. PICK c \in Nat, L \in Nat : c = ContextEnd(s) /\ L = Len(block_table[s])
    BY <1>1, <1>2 DEF TypeOK, ContextEnd
  <2>3. c <= L * BlockSize
    BY <1>1, <1>2, <2>1, <2>2 DEF CoverInv
  <2>4. L >= 1 => (L - 1) * BlockSize < c
    BY <1>1, <1>2, <2>2 DEF TableInv
  <2>5. /\ CeilDiv(c, BlockSize) \in Nat /\ c <= CeilDiv(c, BlockSize) * BlockSize
        /\ (L < CeilDiv(c, BlockSize) => L * BlockSize < c)
    BY BlockManagerAssumption, CeilDivFacts, CeilDivCovers
  <2>6. CeilDiv(c, BlockSize) <= L
    <3>1. L * BlockSize \in Nat
      BY BlockManagerAssumption, MulFacts
    <3>. QED
      BY <2>3, <2>5, <3>1
  <2>7. ~(CeilDiv(c, BlockSize) < L)
    <3>. SUFFICES ASSUME CeilDiv(c, BlockSize) < L PROVE FALSE
      OBVIOUS
    <3>1. PICK m \in Nat, w \in Nat : m = CeilDiv(c, BlockSize) /\ w = L - 1 /\ m <= w
      BY <2>5
    <3>2. m * BlockSize <= w * BlockSize /\ m * BlockSize \in Nat /\ w * BlockSize \in Nat
      BY <3>1, BlockManagerAssumption, MulFacts
    <3>3. w * BlockSize < c /\ c <= m * BlockSize
      BY <2>4, <2>5, <3>1
    <3>. QED
      BY <3>2, <3>3
  <2>. QED
    BY <2>2, <2>5, <2>6, <2>7
<1>5. Cardinality({s \in Range(Scheduled) : ContextEnd(s) < SeqLen(s)}) <= 1
  <2> DEFINE P == {s \in Range(Scheduled) : ContextEnd(s) < SeqLen(s)}
  <2>1. \A s \in P : s = step.prefill[Len(step.prefill)]
    BY OnePartial
  <2>2. Cardinality(P) \in Nat
    <3>1. P \subseteq Seqs
      BY <1>2
    <3>. QED
      BY <3>1, BlockManagerAssumption, FS_Subset, FS_CardinalityType
  <2>. HIDE DEF P
  <2>3. ~(Cardinality(P) > 1)
    BY <2>1, TwoMembers
  <2>4. Cardinality(P) <= 1
    BY <2>2, <2>3
  <2>. QED
    BY <2>4 DEF P
<1>. QED
  BY <1>2, <1>3, <1>4, <1>5

(* Every batch respects the budgets, has no sequence twice, computes a token *)
(* of each, has a block for each, and leaves at most one prefill partial     *)
(* (Scheduler.schedule, prepare_model_input).                               *)
THEOREM BatchesWellFormed == SchedSpec => []BatchWellFormed
BY BatchFollows, SchedulerInvariant, PTL

-----------------------------------------------------------------------------
(* What the pages store                                                    *)

(* The rows of a batch write different pages: a page that is not full belongs *)
(* to one request, and a page is claimed only behind what a request writes.  *)
PagesInv ==
    /\ \A s, q \in Seqs : \A j \in WrittenPages(s), k \in WrittenPages(q) :
        block_table[s][j] = block_table[q][k] => s = q
    /\ call.op = "fill" => num_cached_tokens[call.seq] \div BlockSize < call.index

(* The batch has been computed, and its requests not yet been advanced.      *)
Computed == pc \in {"sample", "stop", "advance"}
(* The pages the next forward pass will write.                               *)
Dirty ==
    {b \in BlockIds : \E s \in Seqs :
        num_new_tokens[s] > 0 /\ \E k \in WrittenPages(s) : block_table[s][k] = b}
(* The pages that are in the cache or in a table.                            *)
Stored(b) == Published(b) \/ \E s \in Seqs : b \in Range(block_table[s])
(* The partial page of s stores its cached tokens.                           *)
PartialStored(s) ==
    num_cached_tokens[s] % BlockSize # 0 /\ ~Releasing(s) =>
        LET p == num_cached_tokens[s] \div BlockSize + 1 IN
        /\ p <= Len(block_table[s])
        /\ kv[block_table[s][p]] = Prefix(s, num_cached_tokens[s])
KvInv ==
    /\ \A b \in BlockIds : Stored(b) /\ (b \in Dirty => Computed) => kv[b] = chain[b]
    /\ ~Computed => \A s \in Seqs : PartialStored(s)

LEMMA DivMoves ==
    ASSUME NEW a \in Nat, NEW b \in Nat, NEW d \in Nat \ {0}
    PROVE  /\ a \div d \in Nat /\ a % d \in Nat
           /\ a <= b => a \div d <= b \div d
           /\ (a * d) \div d = a /\ (a * d) % d = 0
           /\ 0 \div d = 0 /\ 0 % d = 0
           /\ (a \div d) * d \in Nat /\ (a \div d) * d <= a
           /\ a % d = a - (a \div d) * d
           /\ a % d # 0 => (a \div d) * d < a
<1>1. \A n \in Nat : n \div d \in Nat /\ (n \div d) * d \in Nat /\ (n \div d) * d <= n
                     /\ n < (n \div d) * d + d
  BY DivFacts, MulFacts
<1>2. \A n \in Nat : n % d \in Nat /\ n % d = n - (n \div d) * d
  OBVIOUS
<1>3. \A m \in Nat, n \in Nat : (m < n => m * d + d <= n * d) /\ m * d \in Nat
  BY MulFacts
<1>4. a <= b => a \div d <= b \div d
  <2>. SUFFICES ASSUME a <= b, b \div d < a \div d PROVE FALSE
    BY <1>1
  <2>1. PICK p \in Nat, q \in Nat : p = a \div d /\ q = b \div d
    BY <1>1
  <2>2. q * d + d <= p * d /\ p * d <= a /\ b < q * d + d /\ p * d \in Nat /\ q * d \in Nat
    BY <1>1, <1>3, <2>1
  <2>. QED
    BY <2>2
<1>5. (a * d) \div d = a
  <2>1. PICK n \in Nat : n = a * d
    BY <1>3
  <2>2. PICK q \in Nat, y \in Nat : q = n \div d /\ y = q * d /\ y <= n /\ n < y + d
    BY <1>1
  <2>3. (q < a => y + d <= n) /\ (a < q => n + d <= y)
    BY <1>3, <2>1, <2>2
  <2>4. ~(q < a) /\ ~(a < q)
    BY <2>2, <2>3
  <2>. QED
    BY <2>1, <2>2, <2>4
<1>6. (a * d) % d = 0
  BY <1>2, <1>3, <1>5
<1>7. 0 \div d = 0 /\ 0 % d = 0
  OBVIOUS
<1>8. /\ a \div d \in Nat /\ (a \div d) * d \in Nat /\ (a \div d) * d <= a
      /\ a % d \in Nat /\ a % d = a - (a \div d) * d
  BY <1>1, <1>2
<1>9. a % d # 0 => (a \div d) * d < a
  <2>1. PICK y \in Nat : y = (a \div d) * d /\ y <= a /\ a % d = a - y
    BY <1>8
  <2>2. a - y # 0 => y < a
    BY <2>1
  <2>. QED
    BY <2>1, <2>2
<1>. QED
  BY <1>4, <1>5, <1>6, <1>7, <1>8, <1>9, Zenon

(* A step of the block manager is an iteration of a call, or a quiet one.    *)
LEMMA StepKinds ==
    ASSUME [Next]_bmVars
    PROVE  \/ ClaimBlock \/ FillBlock \/ ReleaseBlock
           \/ UNCHANGED bmVars
           \/ /\ call = NoCall /\ UNCHANGED <<poolVars, block_table, chain>>
              /\ \/ \E s \in Seqs : CallFill(s)
                 \/ \E S \in SUBSET Seqs : Advance(S)
                 \/ \E s \in Seqs, t \in Token : AppendToken(s, t)
                 \/ UNCHANGED <<seqVars, token_ids>> /\ call'.op \in {"claim", "release"}
<1>1. CASE CallStep
  BY <1>1 DEF CallStep
<1>2. ASSUME NEW s \in Seqs, Call(s)
      PROVE  /\ call = NoCall /\ UNCHANGED <<poolVars, block_table, chain>>
             /\ \/ CallFill(s)
                \/ UNCHANGED <<seqVars, token_ids>> /\ call'.op \in {"claim", "release"}
  <2>1. CASE CallFill(s)
    BY <2>1 DEF CallFill, AllocateNew, MayAppend
  <2>2. CASE CallClaim(s)
    BY <2>2 DEF CallClaim, ClaimPrefix, seqVars
  <2>3. CASE Deallocate(s)
    BY <2>3 DEF Deallocate, seqVars
  <2>. QED
    BY <1>2, <2>1, <2>2, <2>3 DEF Call
<1>3. ASSUME NEW S \in SUBSET Seqs, Advance(S)
      PROVE  call = NoCall /\ UNCHANGED <<poolVars, block_table, chain>>
  BY <1>3 DEF Advance
<1>4. ASSUME NEW s \in Seqs, NEW t \in Token, AppendToken(s, t)
      PROVE  call = NoCall /\ UNCHANGED <<poolVars, block_table, chain>>
  BY <1>4 DEF AppendToken, seqVars
<1>. QED
  BY <1>1, <1>2, <1>3, <1>4 DEF Next

(* Pages leave what a request writes, and enter it free.                     *)
LEMMA NextPages ==
    ASSUME EvictionInv, PagesInv, [Next]_bmVars
    PROVE  PagesInv'
<1>1. /\ CacheInv /\ PoolInv /\ TypeOK /\ CommittedInv /\ BlockSize \in Nat \ {0}
      /\ \A s \in Seqs : /\ num_cached_tokens[s] \in Nat /\ num_new_tokens[s] \in Nat
                         /\ block_table[s] \in Seq(BlockIds) /\ Len(block_table[s]) \in Nat
  BY BlockManagerAssumption DEF EvictionInv, CallsInv, CacheInv, PoolInv, TypeOK
<1>2. ASSUME \A s \in Seqs : \A k \in WrittenPages(s)' :
                 k \in WrittenPages(s) /\ block_table'[s][k] = block_table[s][k],
             call'.op = "fill" => num_cached_tokens'[call'.seq] \div BlockSize < call'.index
      PROVE  PagesInv'
  BY <1>2 DEF PagesInv
<1>3. ASSUME UNCHANGED block_table, \A s \in Seqs : num_cached_tokens'[s] \in Nat
                                        /\ num_cached_tokens[s] <= num_cached_tokens'[s]
      PROVE  \A s \in Seqs : \A k \in WrittenPages(s)' :
                 k \in WrittenPages(s) /\ block_table'[s][k] = block_table[s][k]
  <2>. SUFFICES ASSUME NEW s \in Seqs, NEW k \in WrittenPages(s)' PROVE k \in WrittenPages(s)
    BY <1>3
  <2>1. PICK p \in Nat, q \in Nat, L \in Nat :
            /\ p = num_cached_tokens[s] \div BlockSize /\ q = num_cached_tokens'[s] \div BlockSize
            /\ p <= q /\ L = Len(block_table[s])
    <3>1. PICK c \in Nat, e \in Nat : c = num_cached_tokens[s] /\ e = num_cached_tokens'[s] /\ c <= e
      BY <1>1, <1>3
    <3>2. c \div BlockSize \in Nat /\ e \div BlockSize \in Nat /\ c \div BlockSize <= e \div BlockSize
      BY <1>1, <3>1, DivMoves
    <3>. QED
      BY <1>1, <3>1, <3>2
  <2>2. k \in q + 1 .. L
    BY <1>3, <2>1 DEF WrittenPages
  <2>3. k \in p + 1 .. L
    BY <2>1, <2>2
  <2>. QED
    BY <2>1, <2>3 DEF WrittenPages
<1>4. CASE UNCHANGED bmVars
  BY <1>4 DEF PagesInv, WrittenPages, bmVars, seqVars
<1>5. CASE /\ call = NoCall /\ UNCHANGED <<poolVars, block_table, chain>>
           /\ UNCHANGED <<seqVars, token_ids>> /\ call'.op \in {"claim", "release"}
  BY <1>5 DEF PagesInv, WrittenPages, seqVars
<1>6. ASSUME NEW s \in Seqs, CallFill(s) PROVE PagesInv'
  <2>1. /\ UNCHANGED <<block_table, num_cached_tokens>>
        /\ \/ ClaimedPrefixValid(s)
              /\ call' = [op |-> "fill", seq |-> s, index |-> Len(block_table[s]) + 1]
           \/ call' = [op |-> "fill", seq |-> s,
                       index |-> (num_cached_tokens[s] \div BlockSize) + 1]
    BY <1>6 DEF CallFill, AllocateNew, MayAppend
  <2>2. PICK L \in Nat, c \in Nat : L = Len(block_table[s]) /\ c = num_cached_tokens[s]
    BY <1>1
  <2>3. c = L * BlockSize => c \div BlockSize = L
    BY <1>1, DivMoves
  <2>4. ClaimedPrefixValid(s) => c = L * BlockSize
    BY <2>2 DEF ClaimedPrefixValid
  <2>5. c \div BlockSize \in Nat
    BY <1>1, DivMoves
  <2>6. call'.seq = s /\ c \div BlockSize < call'.index
    BY <2>1, <2>2, <2>3, <2>4, <2>5
  <2>. QED
    BY <1>2, <1>3, <1>1, <2>1, <2>2, <2>6
<1>7. ASSUME NEW S \in SUBSET Seqs, Advance(S) PROVE PagesInv'
  <2>1. /\ call' = NoCall /\ UNCHANGED block_table
        /\ \A s \in Seqs : num_cached_tokens'[s] = IF s \in S THEN ContextEnd(s) ELSE num_cached_tokens[s]
    BY <1>7 DEF Advance
  <2>2. \A s \in Seqs : num_cached_tokens'[s] \in Nat /\ num_cached_tokens[s] <= num_cached_tokens'[s]
    BY <1>1, <2>1 DEF ContextEnd
  <2>. QED
    BY <1>2, <1>3, <2>1, <2>2 DEF NoCall
<1>8. ASSUME NEW s \in Seqs, NEW t \in Token, AppendToken(s, t) PROVE PagesInv'
  BY <1>8 DEF AppendToken, PagesInv, WrittenPages, seqVars
<1>9. CASE ClaimBlock
  <2>1. PICK s, plan, b : s \in Seqs /\ ClaimStep(s, plan, b)
    BY <1>1, <1>9, ClaimUnfolded
  <2>2. /\ \A q \in Seqs \ {s} : block_table'[q] = block_table[q]
        /\ Len(block_table'[s]) = Len(block_table[s]) + 1
        /\ num_cached_tokens'[s] = (Len(block_table[s]) + 1) * BlockSize
    BY <1>1, <2>1, ClaimPlace
  <2>3. /\ call'.op # "fill"
        /\ \A q \in Seqs \ {s} : num_cached_tokens'[q] = num_cached_tokens[q]
    BY <1>1, <2>1 DEF ClaimStep, NoCall, TypeOK
  <2>4. WrittenPages(s)' = {}
    <3>1. PICK n \in Nat : n = Len(block_table[s]) + 1
      BY <1>1, <2>1
    <3>2. num_cached_tokens'[s] \div BlockSize = n /\ Len(block_table'[s]) = n
      BY <1>1, <2>2, <3>1, DivMoves
    <3>3. n + 1 .. n = {}
      OBVIOUS
    <3>. QED
      BY <3>2, <3>3 DEF WrittenPages
  <2>5. \A q \in Seqs \ {s} : WrittenPages(q)' = WrittenPages(q)
    BY <2>2, <2>3 DEF WrittenPages
  <2>. QED
    BY <1>2, <2>2, <2>3, <2>4, <2>5
<1>10. CASE ReleaseBlock
  <2>1. PICK s \in Seqs :
          /\ call.op = "release" /\ call.seq = s
          /\ Len(block_table[s]) \in Nat /\ Len(block_table[s]) >= 1
          /\ Len(block_table'[s]) = Len(block_table[s]) - 1
          /\ \A k \in 1 .. Len(block_table[s]) - 1 : block_table'[s][k] = block_table[s][k]
          /\ \A q \in Seqs \ {s} : block_table'[q] = block_table[q]
          /\ \/ Len(block_table[s]) = 1 /\ call' = NoCall
             \/ Len(block_table[s]) # 1 /\ call' = call
    BY <1>1, <1>10, ReleaseUnfolded
  <2>2. /\ num_cached_tokens' = IF Len(block_table[s]) = 1
                                THEN [num_cached_tokens EXCEPT ![s] = 0] ELSE num_cached_tokens
    BY <1>10, <2>1 DEF ReleaseBlock
  <2>3. /\ call'.op # "fill"
        /\ \A q \in Seqs \ {s} : num_cached_tokens'[q] = num_cached_tokens[q]
        /\ num_cached_tokens'[s] = IF Len(block_table[s]) = 1 THEN 0 ELSE num_cached_tokens[s]
    BY <1>1, <2>1, <2>2 DEF NoCall, TypeOK
  <2>4. \A q \in Seqs \ {s} : WrittenPages(q)' = WrittenPages(q)
    BY <2>1, <2>3 DEF WrittenPages
  <2>5. \A k \in WrittenPages(s)' : k \in WrittenPages(s) /\ block_table'[s][k] = block_table[s][k]
    <3>1. PICK L \in Nat, p \in Nat : L = Len(block_table[s]) /\ L >= 1
                                      /\ p = num_cached_tokens[s] \div BlockSize
      BY <1>1, <2>1, DivMoves
    <3>2. CASE L = 1
      <4>1. num_cached_tokens'[s] \div BlockSize = 0
        BY <1>1, <2>3, <3>1, <3>2, DivMoves
      <4>2. WrittenPages(s)' = 1 .. 0
        BY <2>1, <3>1, <3>2, <4>1 DEF WrittenPages
      <4>. QED
        BY <4>2
    <3>3. CASE L # 1
      <4>1. WrittenPages(s)' = p + 1 .. L - 1 /\ WrittenPages(s) = p + 1 .. L
        BY <2>1, <2>3, <3>1, <3>3 DEF WrittenPages
      <4>2. \A k \in 1 .. L - 1 : block_table'[s][k] = block_table[s][k]
        BY <2>1, <3>1
      <4>3. ASSUME NEW k \in p + 1 .. L - 1 PROVE k \in p + 1 .. L /\ k \in 1 .. L - 1
        OBVIOUS
      <4>. QED
        BY <4>1, <4>2, <4>3
    <3>. QED
      BY <3>2, <3>3
  <2>. QED
    BY <1>2, <2>1, <2>3, <2>4, <2>5
<1>11. CASE FillBlock
  <2>1. PICK s \in Seqs, k \in Nat \ {0}, b \in BlockIds : \E blk, map : FillStep(s, k, b, blk, map)
    BY <1>1, <1>11, FillUnfolded
  <2>2. PICK blk, map : FillStep(s, k, b, blk, map)
    BY <2>1
  <2>3. \A q \in Seqs \ {s} : b \notin Range(block_table[q])
    BY <1>1, <2>2, FillPlace
  <2>4. /\ call.op = "fill" /\ call.seq = s /\ call.index = k
        /\ num_cached_tokens' = num_cached_tokens
        /\ \/ call' = NoCall
           \/ call' = [op |-> "fill", seq |-> s, index |-> k + 1]
        /\ \/ block_table' = block_table
           \/ block_table' = [block_table EXCEPT ![s] = Append(@, b)]
    BY <2>2 DEF FillStep
  <2>5. PICK L \in Nat, p \in Nat : L = Len(block_table[s]) /\ p = num_cached_tokens[s] \div BlockSize
    BY <1>1, DivMoves
  <2>6. p < k
    BY <2>4, <2>5 DEF PagesInv
  <2>7. call'.op = "fill" => num_cached_tokens'[call'.seq] \div BlockSize < call'.index
    <3>1. p < k + 1
      BY <2>6
    <3>. QED
      BY <2>4, <2>5, <3>1 DEF NoCall
  <2>8. CASE block_table' = block_table
    BY <1>1, <1>2, <1>3, <2>4, <2>7, <2>8
  <2>9. CASE block_table' = [block_table EXCEPT ![s] = Append(@, b)]
    <3>1. /\ block_table'[s] = Append(block_table[s], b) /\ Len(block_table'[s]) = L + 1
          /\ \A q \in Seqs \ {s} : block_table'[q] = block_table[q]
          /\ block_table'[s][L + 1] = b
          /\ \A j \in 1 .. L : block_table'[s][j] = block_table[s][j]
      BY <1>1, <2>5, <2>9 DEF TypeOK
    <3>2. WrittenPages(s)' \subseteq WrittenPages(s) \cup {L + 1} /\ WrittenPages(s) \subseteq 1 .. L
      <4>1. WrittenPages(s)' = p + 1 .. L + 1 /\ WrittenPages(s) = p + 1 .. L
        BY <2>4, <2>5, <3>1 DEF WrittenPages
      <4>. QED
        BY <4>1
    <3>3. \A q \in Seqs \ {s} : WrittenPages(q)' = WrittenPages(q)
      BY <2>4, <3>1 DEF WrittenPages
    <3>4. \A q \in Seqs \ {s} : \A j \in WrittenPages(q) : block_table[q][j] # b
      <4>. SUFFICES ASSUME NEW q \in Seqs \ {s}, NEW j \in WrittenPages(q) PROVE block_table[q][j] # b
        OBVIOUS
      <4>1. j \in 1 .. Len(block_table[q])
        <5>1. num_cached_tokens[q] \div BlockSize \in Nat
          BY <1>1, DivMoves
        <5>. QED
          BY <5>1 DEF WrittenPages
      <4>2. block_table[q][j] \in Range(block_table[q])
        BY <1>1, <4>1 DEF Range
      <4>. QED
        BY <2>3, <4>2
    <3>5. ASSUME NEW q \in Seqs, NEW r \in Seqs,
                 NEW i \in WrittenPages(q)', NEW j \in WrittenPages(r)',
                 block_table'[q][i] = block_table'[r][j], q # r
          PROVE  FALSE
      <4>1. CASE q = s /\ i = L + 1
        BY <3>1, <3>3, <3>4, <3>5, <4>1
      <4>2. CASE r = s /\ j = L + 1
        BY <3>1, <3>3, <3>4, <3>5, <4>2
      <4>3. CASE ~(q = s /\ i = L + 1) /\ ~(r = s /\ j = L + 1)
        <5>1. i \in WrittenPages(q) /\ j \in WrittenPages(r)
          BY <3>2, <3>3, <4>3
        <5>2. block_table'[q][i] = block_table[q][i] /\ block_table'[r][j] = block_table[r][j]
          BY <3>1, <3>2, <5>1
        <5>. QED
          BY <3>5, <5>1, <5>2 DEF PagesInv
      <4>. QED
        BY <4>1, <4>2, <4>3
    <3>. QED
      BY <2>7, <3>5 DEF PagesInv
  <2>. QED
    BY <2>4, <2>8, <2>9
<1>. QED
  BY <1>4, <1>5, <1>6, <1>7, <1>8, <1>9, <1>10, <1>11, StepKinds

(* A step of the block manager keeps it, where no request is advanced: what  *)
(* a fill writes is dirty.                                                 *)
LEMMA KvStep ==
    ASSUME EvictionInv, PagesInv, KvInv, [Next]_bmVars, kv' = kv, Computed' = Computed,
           Computed => call.op # "fill",
           call.op = "release" => Computed \/ \A s \in Seqs : num_new_tokens[s] = 0,
           call = NoCall /\ ~Computed => num_cached_tokens' = num_cached_tokens
    PROVE  KvInv'
<1>1. /\ CacheInv /\ PoolInv /\ TypeOK /\ CoverInv /\ BlockSize \in Nat \ {0}
      /\ \A s \in Seqs : /\ num_cached_tokens[s] \in Nat /\ num_new_tokens[s] \in Nat
                         /\ block_table[s] \in Seq(BlockIds) /\ Len(block_table[s]) \in Nat
  BY BlockManagerAssumption DEF EvictionInv, CallsInv, CacheInv, PoolInv, TypeOK
<1>2. ASSUME \A b \in BlockIds : Stored(b)' /\ (b \in Dirty' => Computed) =>
                 Stored(b) /\ (b \in Dirty => Computed) /\ chain'[b] = chain[b],
             ~Computed => \A s \in Seqs : PartialStored(s)'
      PROVE  KvInv'
  BY <1>2 DEF KvInv, Computed
<1>3. ASSUME UNCHANGED <<blocks, block_table, chain>>,
             ~Computed => /\ UNCHANGED num_cached_tokens
                          /\ \A s \in Seqs : num_new_tokens[s] > 0 => num_new_tokens'[s] > 0
                          /\ \A s \in Seqs : Prefix(s, num_cached_tokens[s])'
                                                 = Prefix(s, num_cached_tokens[s])
                          /\ call = NoCall \/ call' = call
      PROVE  KvInv'
  <2>1. \A b \in BlockIds : Stored(b)' <=> Stored(b)
    BY <1>3 DEF Stored, Published
  <2>2. ~Computed => \A b \in BlockIds : b \in Dirty => b \in Dirty'
    BY <1>3 DEF Dirty, WrittenPages
  <2>3. ~Computed => \A s \in Seqs : PartialStored(s)'
    <3>. SUFFICES ASSUME ~Computed, NEW s \in Seqs PROVE PartialStored(s)'
      OBVIOUS
    <3>1. PartialStored(s)
      BY DEF KvInv
    <3>2. Releasing(s) => Releasing(s)'
      BY <1>3 DEF Releasing, NoCall
    <3>3. Prefix(s, num_cached_tokens[s])' = Prefix(s, num_cached_tokens[s])
      BY <1>3
    <3>. QED
      BY <1>3, <3>1, <3>2, <3>3 DEF PartialStored
  <2>. QED
    BY <1>2, <1>3, <2>1, <2>2, <2>3
<1>4. CASE UNCHANGED bmVars
  BY <1>3, <1>4 DEF bmVars, seqVars, poolVars, Prefix
<1>5. CASE /\ call = NoCall /\ UNCHANGED <<poolVars, block_table, chain>>
           /\ UNCHANGED <<seqVars, token_ids>>
  BY <1>3, <1>5 DEF seqVars, poolVars, Prefix
<1>6. ASSUME NEW s \in Seqs, CallFill(s) PROVE KvInv'
  <2>1. PICK n \in Nat : /\ n >= 1 /\ num_new_tokens' = [num_new_tokens EXCEPT ![s] = n]
                         /\ call = NoCall
                         /\ UNCHANGED <<poolVars, token_ids, block_table, num_cached_tokens, chain>>
    <3>1. PICK n \in 1 .. SeqLen(s) - num_cached_tokens[s] : AllocateNew(s, n) \/ MayAppend(s, n)
      BY <1>6 DEF CallFill
    <3>2. n \in Nat /\ n >= 1
      BY <1>1, <3>1 DEF TypeOK
    <3>. QED
      BY <3>1, <3>2 DEF AllocateNew, MayAppend
  <2>2. \A q \in Seqs : num_new_tokens[q] > 0 => num_new_tokens'[q] > 0
    BY <1>1, <2>1 DEF TypeOK
  <2>. QED
    BY <1>3, <2>1, <2>2 DEF poolVars, Prefix
<1>7. ASSUME NEW S \in SUBSET Seqs, Advance(S) PROVE KvInv'
  <2>1. /\ call = NoCall /\ UNCHANGED <<poolVars, token_ids, block_table, chain, call>>
        /\ \A q \in Seqs : num_cached_tokens'[q] = IF q \in S THEN ContextEnd(q) ELSE num_cached_tokens[q]
        /\ \A q \in Seqs : num_new_tokens'[q] = IF q \in S THEN 0 ELSE num_new_tokens[q]
    BY <1>7 DEF Advance
  <2>2. ~Computed => \A q \in Seqs : num_new_tokens[q] > 0 => num_new_tokens'[q] > 0
    <3>. SUFFICES ASSUME ~Computed, NEW q \in Seqs, num_new_tokens[q] > 0
                  PROVE  num_new_tokens'[q] > 0
      OBVIOUS
    <3>1. num_cached_tokens'[q] = num_cached_tokens[q]
      BY <2>1
    <3>2. q \notin S
      BY <1>1, <2>1, <3>1 DEF ContextEnd
    <3>. QED
      BY <2>1, <3>2
  <2>. QED
    BY <1>3, <2>1, <2>2 DEF poolVars, Prefix
<1>8. ASSUME NEW s \in Seqs, NEW t \in Token, AppendToken(s, t) PROVE KvInv'
  <2>1. /\ call = NoCall /\ UNCHANGED <<poolVars, seqVars, chain, call>>
        /\ token_ids' = [token_ids EXCEPT ![s] = Append(@, t)]
    BY <1>8 DEF AppendToken
  <2>2. ASSUME NEW q \in Seqs PROVE Prefix(q, num_cached_tokens[q])' = Prefix(q, num_cached_tokens[q])
    <3>1. token_ids[q] \in Seq(Token) /\ num_cached_tokens[q] \in 0 .. Len(token_ids[q])
      <4>1. /\ token_ids[q] \in Seq(Token) /\ SeqLen(q) \in Nat /\ num_cached_tokens[q] \in Nat
            /\ num_new_tokens[q] \in Nat /\ ContextEnd(q) <= SeqLen(q)
        BY <1>1, Types
      <4>. QED
        BY <4>1 DEF SeqLen, ContextEnd
    <3>2. num_cached_tokens'[q] = num_cached_tokens[q]
      BY <2>1 DEF seqVars
    <3>3. CASE q = s
      <4>1. token_ids'[q] = Append(token_ids[q], t)
        BY <1>1, <2>1, <3>3 DEF TypeOK
      <4>. QED
        BY <3>1, <3>2, <4>1, AppendPrefix DEF Prefix
    <3>4. CASE q # s
      <4>1. token_ids'[q] = token_ids[q]
        BY <1>1, <2>1, <3>4 DEF TypeOK
      <4>. QED
        BY <3>2, <4>1 DEF Prefix
    <3>. QED
      BY <3>3, <3>4
  <2>. QED
    BY <1>3, <2>1, <2>2 DEF seqVars, poolVars
<1>9. CASE ClaimBlock
  <2>1. PICK s, plan, b : s \in Seqs /\ ClaimStep(s, plan, b)
    BY <1>1, <1>9, ClaimUnfolded
  <2>2. PICK L \in Nat : L = Len(block_table[s])
    BY <1>1, <2>1
  <2>3. /\ SameContent /\ b \in BlockIds /\ b = plan[1] /\ Len(plan) \in Nat /\ Len(plan) >= 1
        /\ block_table'[s] = Append(block_table[s], b)
        /\ Range(block_table'[s]) = Range(block_table[s]) \cup {b}
        /\ \A q \in Seqs \ {s} : block_table'[q] = block_table[q]
        /\ Continues(s, plan)
        /\ ContextEnd(s) + Len(plan) * BlockSize <= SeqLen(s)
        /\ ContextEnd(s) = L * BlockSize
        /\ num_cached_tokens'[s] = (L + 1) * BlockSize
    <3>1. s \in Seqs /\ ClaimStep(s, plan, b) /\ CacheInv
      BY <1>1, <2>1
    <3>2. /\ SameContent /\ b \in BlockIds /\ b = plan[1] /\ Len(plan) \in Nat /\ Len(plan) >= 1
          /\ block_table'[s] = Append(block_table[s], b)
          /\ Range(block_table'[s]) = Range(block_table[s]) \cup {b}
      BY <3>1, ClaimPlace
    <3>3. \A q \in Seqs \ {s} : block_table'[q] = block_table[q]
      BY <3>1, ClaimPlace
    <3>4. /\ Continues(s, plan)
          /\ ContextEnd(s) + Len(plan) * BlockSize <= SeqLen(s)
          /\ ContextEnd(s) = Len(block_table[s]) * BlockSize
          /\ num_cached_tokens'[s] = (Len(block_table[s]) + 1) * BlockSize
      BY <3>1, ClaimPlace
    <3>. QED
      BY <2>2, <3>2, <3>3, <3>4
  <2>4. /\ chain' = chain /\ num_new_tokens' = num_new_tokens /\ token_ids' = token_ids
        /\ num_new_tokens[s] = 0 /\ call.op = "claim"
        /\ call'.op # "release"
        /\ \A q \in Seqs \ {s} : num_cached_tokens'[q] = num_cached_tokens[q]
    BY <1>1, <2>1 DEF ClaimStep, NoCall, TypeOK, CacheInv, ClaimInv
  <2>5. Published(b)
    <3>1. Stores(plan[1], s, L + 1, TableAt(s, L))
      BY <2>2, <2>3 DEF Continues
    <3>2. (L + 1) * BlockSize <= SeqLen(s)
      <4>1. PICK n \in Nat, x \in Nat, y \in Nat, z \in Nat :
                n = Len(plan) /\ x = L * BlockSize /\ y = n * BlockSize /\ z = (L + 1) * BlockSize
                /\ z = x + BlockSize /\ BlockSize <= y /\ x + y <= SeqLen(s)
        <5>1. /\ L * BlockSize \in Nat /\ Len(plan) * BlockSize \in Nat
              /\ 1 * BlockSize <= Len(plan) * BlockSize
              /\ (L + 1) * BlockSize = L * BlockSize + 1 * BlockSize
              /\ 1 * BlockSize = BlockSize /\ (L + 1) * BlockSize \in Nat
          <6>1. PICK n \in Nat : n = Len(plan) /\ 1 <= n
            BY <2>3
          <6>2. PICK d \in Nat \ {0} : d = BlockSize
            BY <1>1
          <6>3. n * d \in Nat /\ L * d \in Nat /\ 1 * d <= n * d
            BY <6>1, MulFacts
          <6>4. (L + 1) * d = L * d + 1 * d /\ (L + 1) * d \in Nat
            BY MulFacts
          <6>5. 1 * d = d
            OBVIOUS
          <6>. QED
            BY <6>1, <6>2, <6>3, <6>4, <6>5
        <5>. QED
          BY <2>3, <5>1
      <4>2. SeqLen(s) \in Nat
        BY <1>1, <2>1, Types
      <4>. QED
        BY <1>1, <4>1, <4>2
    <3>3. BlockHash(s, L + 1) \in Nat
      BY <1>1, <2>1, <3>2, HashType
    <3>. QED
      BY <2>3, <3>1, <3>3 DEF Stores, Published, NoHash
  <2>6. \A c \in BlockIds : Stored(c)' => Stored(c)
    <3>1. \A c \in BlockIds : Published(c)' <=> Published(c)
      BY <2>3 DEF SameContent, Published
    <3>. QED
      BY <2>3, <2>5, <3>1 DEF Stored
  <2>7. \A q \in Seqs \ {s} : WrittenPages(q)' = WrittenPages(q)
    BY <2>3, <2>4 DEF WrittenPages
  <2>8. \A c \in BlockIds : c \in Dirty => c \in Dirty'
    BY <2>3, <2>4, <2>7 DEF Dirty
  <2>9. ~Computed => \A q \in Seqs : PartialStored(q)'
    <3>. SUFFICES ASSUME ~Computed, NEW q \in Seqs PROVE PartialStored(q)'
      OBVIOUS
    <3>1. CASE q = s
      <4>1. num_cached_tokens'[s] % BlockSize = 0
        <5>1. PICK m \in Nat : m = L + 1
          OBVIOUS
        <5>2. (m * BlockSize) % BlockSize = 0
          BY <1>1, DivMoves
        <5>. QED
          BY <2>3, <5>1, <5>2
      <4>. QED
        BY <3>1, <4>1 DEF PartialStored
    <3>2. CASE q # s
      <4>1. ~Releasing(q) /\ PartialStored(q)
        BY <2>4 DEF Releasing, KvInv
      <4>. QED
        BY <2>3, <2>4, <3>2, <4>1 DEF PartialStored, Prefix
    <3>. QED
      BY <3>1, <3>2
  <2>. QED
    BY <1>2, <2>4, <2>6, <2>8, <2>9
<1>10. CASE ReleaseBlock
  <2>1. PICK s \in Seqs :
          /\ SameContent /\ token_ids' = token_ids /\ chain' = chain
          /\ call.op = "release" /\ call.seq = s
          /\ Len(block_table[s]) \in Nat /\ Len(block_table[s]) >= 1
          /\ Range(block_table'[s]) \subseteq Range(block_table[s])
          /\ \A q \in Seqs \ {s} : block_table'[q] = block_table[q]
          /\ \/ Len(block_table[s]) = 1 /\ call' = NoCall
             \/ Len(block_table[s]) # 1 /\ call' = call
    BY <1>1, <1>10, ReleaseUnfolded
  <2>2. /\ num_cached_tokens' = IF Len(block_table[s]) = 1
                                THEN [num_cached_tokens EXCEPT ![s] = 0] ELSE num_cached_tokens
        /\ num_new_tokens' = IF Len(block_table[s]) = 1
                             THEN [num_new_tokens EXCEPT ![s] = 0] ELSE num_new_tokens
    BY <1>10, <2>1 DEF ReleaseBlock
  <2>3. /\ \A q \in Seqs \ {s} : num_cached_tokens'[q] = num_cached_tokens[q]
        /\ Len(block_table[s]) = 1 => num_cached_tokens'[s] = 0
    BY <1>1, <2>2 DEF TypeOK
  <2>4. \A c \in BlockIds : Stored(c)' => Stored(c)
    <3>1. \A c \in BlockIds : Published(c)' <=> Published(c)
      BY <2>1 DEF SameContent, Published
    <3>. QED
      BY <2>1, <3>1 DEF Stored
  <2>5. ~Computed => Dirty = {}
    <3>. SUFFICES ASSUME ~Computed PROVE Dirty = {}
      OBVIOUS
    <3>1. \A q \in Seqs : num_new_tokens[q] = 0
      BY <2>1
    <3>. QED
      BY <3>1 DEF Dirty
  <2>6. ~Computed => \A q \in Seqs : PartialStored(q)'
    <3>. SUFFICES ASSUME ~Computed, NEW q \in Seqs PROVE PartialStored(q)'
      OBVIOUS
    <3>1. CASE q = s
      <4>1. CASE Len(block_table[s]) = 1
        <5>1. num_cached_tokens'[s] % BlockSize = 0
          BY <1>1, <2>3, <4>1, DivMoves
        <5>. QED
          BY <3>1, <5>1 DEF PartialStored
      <4>2. CASE Len(block_table[s]) # 1
        BY <2>1, <3>1, <4>2 DEF PartialStored, Releasing
      <4>. QED
        BY <4>1, <4>2
    <3>2. CASE q # s
      <4>1. ~Releasing(q) /\ PartialStored(q)
        BY <2>1, <3>2 DEF Releasing, KvInv
      <4>. QED
        BY <2>1, <2>3, <3>2, <4>1 DEF PartialStored, Prefix
    <3>. QED
      BY <3>1, <3>2
  <2>. QED
    BY <1>2, <2>1, <2>4, <2>5, <2>6
<1>11. CASE FillBlock
  <2>1. PICK s \in Seqs, k \in Nat \ {0}, b \in BlockIds : \E blk, map : FillStep(s, k, b, blk, map)
    BY <1>1, <1>11, FillUnfolded
  <2>2. PICK blk, map : FillStep(s, k, b, blk, map)
    BY <2>1
  <2>3. PICK L \in Nat, p \in Nat : L = Len(block_table[s]) /\ p = num_cached_tokens[s] \div BlockSize
    BY <1>1, DivMoves
  <2>4. /\ call.op = "fill" /\ call.seq = s /\ call.index = k
        /\ num_cached_tokens' = num_cached_tokens /\ num_new_tokens' = num_new_tokens
        /\ token_ids' = token_ids /\ call'.op # "release"
        /\ \A c \in BlockIds \ {b} : blocks'[c] = blocks[c] /\ chain'[c] = chain[c]
        /\ \/ k <= L /\ block_table' = block_table /\ b = block_table[s][k]
           \/ k = L + 1 /\ block_table' = [block_table EXCEPT ![s] = Append(@, b)]
    <3>1. /\ \A c \in BlockIds \ {b} : blocks'[c] = blocks[c] /\ chain'[c] = chain[c]
      BY <1>1, <2>2 DEF FillStep, TypeOK
    <3>. QED
      BY <2>2, <2>3, <3>1 DEF FillStep, NoCall
  <2>5. p < k /\ num_new_tokens[s] >= 1 /\ ~Computed
    BY <1>1, <2>3, <2>4 DEF PagesInv, CacheInv, FillInv
  <2>6. /\ \A q \in Seqs \ {s} : block_table'[q] = block_table[q]
        /\ \A j \in 1 .. L : block_table'[s][j] = block_table[s][j]
        /\ block_table'[s][k] = b /\ k <= Len(block_table'[s]) /\ L <= Len(block_table'[s])
        /\ Range(block_table'[s]) \subseteq Range(block_table[s]) \cup {b}
        /\ Len(block_table'[s]) \in Nat
    <3>1. CASE k <= L /\ block_table' = block_table /\ b = block_table[s][k]
      BY <1>1, <2>3, <3>1
    <3>2. CASE k = L + 1 /\ block_table' = [block_table EXCEPT ![s] = Append(@, b)]
      <4>1. block_table'[s] = Append(block_table[s], b)
        BY <1>1, <3>2 DEF TypeOK
      <4>2. Range(Append(block_table[s], b)) = Range(block_table[s]) \cup {b}
        BY <1>1, AppendFacts
      <4>3. /\ Len(Append(block_table[s], b)) = L + 1 /\ Append(block_table[s], b)[L + 1] = b
            /\ \A j \in 1 .. L : Append(block_table[s], b)[j] = block_table[s][j]
        BY <1>1, <2>3
      <4>. QED
        BY <1>1, <2>3, <3>2, <4>1, <4>2, <4>3 DEF TypeOK
    <3>. QED
      BY <2>4, <3>1, <3>2
  <2>7. b \in Dirty'
    <3>1. WrittenPages(s)' = p + 1 .. Len(block_table'[s])
      BY <2>3, <2>4 DEF WrittenPages
    <3>2. k \in WrittenPages(s)'
      BY <2>5, <2>6, <3>1
    <3>3. /\ s \in Seqs /\ num_new_tokens'[s] > 0 /\ b \in BlockIds
          /\ k \in WrittenPages(s)' /\ block_table'[s][k] = b
      BY <1>1, <2>4, <2>5, <2>6, <3>2
    <3>. QED
      BY <3>3 DEF Dirty
  <2>8. \A c \in BlockIds \ {b} : Stored(c)' => Stored(c)
    BY <2>4, <2>6 DEF Stored, Published
  <2>9. \A c \in Dirty : c \in Dirty'
    <3>. SUFFICES ASSUME NEW c \in Dirty PROVE c \in Dirty'
      OBVIOUS
    <3>0. PICK q \in Seqs : num_new_tokens[q] > 0 /\ \E j \in WrittenPages(q) : block_table[q][j] = c
      BY DEF Dirty
    <3>1. PICK j \in WrittenPages(q) : block_table[q][j] = c /\ num_new_tokens[q] > 0
      BY <3>0
    <3>2. CASE q # s
      <4>1. WrittenPages(q)' = WrittenPages(q)
        BY <2>4, <2>6, <3>2 DEF WrittenPages
      <4>. QED
        BY <2>4, <2>6, <3>1, <3>2, <4>1 DEF Dirty
    <3>3. CASE q = s
      <4>1. WrittenPages(s) = p + 1 .. L /\ WrittenPages(s)' = p + 1 .. Len(block_table'[s])
        BY <2>3, <2>4 DEF WrittenPages
      <4>2. j \in 1 .. L /\ j \in WrittenPages(s)'
        BY <2>6, <3>1, <3>3, <4>1
      <4>. QED
        BY <2>4, <2>6, <3>1, <3>3, <4>2 DEF Dirty
    <3>. QED
      BY <3>2, <3>3
  <2>10. \A q \in Seqs : PartialStored(q)'
    <3>. SUFFICES ASSUME NEW q \in Seqs PROVE PartialStored(q)'
      OBVIOUS
    <3>1. ~Releasing(q) /\ PartialStored(q)
      BY <2>4, <2>5 DEF Releasing, KvInv
    <3>2. CASE q # s
      BY <2>4, <2>6, <3>1, <3>2 DEF PartialStored, Prefix
    <3>3. CASE q = s
      <4>1. num_cached_tokens[s] % BlockSize # 0 =>
                p + 1 \in 1 .. L /\ kv[block_table[s][p + 1]] = Prefix(s, num_cached_tokens[s])
        BY <2>3, <3>1, <3>3 DEF PartialStored
      <4>2. num_cached_tokens[s] % BlockSize # 0 =>
                /\ p + 1 <= Len(block_table'[s])
                /\ kv[block_table'[s][p + 1]] = Prefix(s, num_cached_tokens[s])
        BY <2>6, <4>1
      <4>. QED
        BY <2>3, <2>4, <3>3, <4>2 DEF PartialStored, Prefix
    <3>. QED
      BY <3>2, <3>3
  <2>. QED
    BY <1>2, <2>4, <2>5, <2>7, <2>8, <2>9, <2>10
<1>. QED
  BY <1>4, <1>5, <1>6, <1>7, <1>8, <1>9, <1>10, <1>11, StepKinds

(* After the forward pass every page that may be read stores its prefix.     *)
LEMMA RunStores ==
    ASSUME SchedInv, PagesInv, KvInv, pc = "run"
    PROVE  \A b \in BlockIds : Stored(b) => KvAfter[b] = chain[b]
<1>1. /\ InBatch /\ EvictionInv /\ CacheInv /\ PoolInv /\ PrefixSound /\ PhaseInv /\ TokensInv /\ TypeOK
      /\ BlockSize \in Nat \ {0} /\ MaxLen \in Nat /\ ~Computed
      /\ \A s \in Seqs : /\ num_cached_tokens[s] \in Nat /\ num_new_tokens[s] \in Nat
                         /\ block_table[s] \in Seq(BlockIds) /\ Len(block_table[s]) \in Nat
  <2>1. /\ EvictionInv /\ CacheInv /\ PoolInv /\ PrefixSound /\ PhaseInv /\ TokensInv /\ TypeOK
        /\ InBatch /\ ~Computed
    BY DEF SchedInv, InBatch, Processing, Computed, EvictionInv, CallsInv, CacheInv, PoolInv
  <2>2. BlockSize \in Nat \ {0} /\ MaxLen \in Nat
    BY BlockManagerAssumption
  <2>3. \A s \in Seqs : /\ num_cached_tokens[s] \in Nat /\ num_new_tokens[s] \in Nat
                         /\ block_table[s] \in Seq(BlockIds)
    BY <2>1 DEF TypeOK
  <2>. QED
    BY <2>1, <2>2, <2>3
<1>2. \A s, k : Reached(s, k) = ContextEnd(s)
  BY <1>1 DEF PhaseInv, Reached
<1>3. ASSUME NEW s \in Seqs, NEW k \in WrittenPages(s)
      PROVE  k \in 1 .. Len(block_table[s]) /\ block_table[s][k] \in BlockIds
  <2>1. PICK p \in Nat : p = num_cached_tokens[s] \div BlockSize
    BY <1>1, DivMoves
  <2>2. k \in p + 1 .. Len(block_table[s])
    BY <2>1 DEF WrittenPages
  <2>. QED
    BY <1>1, <2>2
<1>4. /\ Range(Scheduled) \subseteq Seqs
      /\ Range(Scheduled) = Range(step.prefill) \cup Range(step.decode)
  BY RunFacts
<1>5. ASSUME NEW s \in Range(Scheduled) PROVE Len(block_table[s]) <= MaxLen
  <2>1. CeilDiv(ContextEnd(s), BlockSize) = Len(block_table[s])
    BY BatchFollows DEF BatchWellFormed
  <2>2. ContextEnd(s) \in Nat /\ ContextEnd(s) <= SeqLen(s) /\ SeqLen(s) \in Nat /\ SeqLen(s) <= MaxLen
    BY <1>1, <1>4, Types
  <2>3. CeilDiv(ContextEnd(s), BlockSize) <= ContextEnd(s)
    BY <1>1, <2>2, CeilDivSmall
  <2>. QED
    BY <1>1, <1>4, <2>1, <2>2, <2>3
<1>6. ASSUME NEW b \in Dirty PROVE Writers(b) # {}
  <2>0. PICK s \in Seqs : num_new_tokens[s] > 0 /\ \E k \in WrittenPages(s) : block_table[s][k] = b
    BY DEF Dirty
  <2>1. PICK k \in WrittenPages(s) : block_table[s][k] = b /\ num_new_tokens[s] > 0
    BY <2>0
  <2>2. s \in Range(Scheduled)
    <3>1. s \in Range(step.prefill) \/ \E i \in DOMAIN step.decode : step.decode[i] = s
      BY <1>1, <2>1 DEF TokensInv
    <3>2. (\E i \in DOMAIN step.decode : step.decode[i] = s) => s \in Range(step.decode)
      BY DEF Range
    <3>. QED
      BY <1>4, <3>1, <3>2
  <2>3. k \in 1 .. MaxLen
    BY <1>1, <1>3, <1>5, <2>1, <2>2
  <2>4. <<s, k>> \in Writers(b)
    BY <2>1, <2>2, <2>3 DEF Writers
  <2>. QED
    BY <2>4
<1>. SUFFICES ASSUME NEW b \in BlockIds, Stored(b) PROVE KvAfter[b] = chain[b]
  OBVIOUS
<1>7. CASE Writers(b) = {}
  <2>1. b \notin Dirty
    BY <1>6, <1>7
  <2>. QED
    BY <1>7, <2>1 DEF KvAfter, KvInv
<1>8. CASE Writers(b) # {}
  <2>1. PICK w : w = CHOOSE v \in Writers(b) : TRUE
    OBVIOUS
  <2>2. w \in Writers(b)
    BY <1>8, <2>1
  <2>3. PICK s \in Range(Scheduled), k \in 1 .. MaxLen :
            w[1] = s /\ w[2] = k /\ k \in WrittenPages(s) /\ block_table[s][k] = b
    BY <2>2 DEF Writers
  <2>4. KvAfter[b] = Prefix(s, MinOf(k * BlockSize, ContextEnd(s)))
    BY <1>8, <2>1, <2>3 DEF KvAfter
  <2>5. k \in 1 .. Len(block_table[s])
    BY <1>3, <1>4, <2>3
  <2>6. chain[b] = Prefix(s, StoredTokens(s, k))
    BY <1>1, <1>4, <2>3, <2>5 DEF PrefixSound
  <2>. QED
    BY <1>2, <2>4, <2>6 DEF StoredTokens
<1>. QED
  BY <1>7, <1>8

(* The partial page of a request stands for its cached tokens.               *)
PartialsHeld ==
    \A s \in Seqs : num_cached_tokens[s] % BlockSize # 0 =>
        LET p == num_cached_tokens[s] \div BlockSize + 1 IN
        /\ p <= Len(block_table[s]) /\ block_table[s][p] \in BlockIds
        /\ block_table[s][p] \in Range(block_table[s])
        /\ chain[block_table[s][p]] = Prefix(s, num_cached_tokens[s])

LEMMA PartialFollows ==
    EvictionInv /\ call = NoCall /\ (\A s \in Seqs : num_new_tokens[s] = 0) => PartialsHeld
<1>. SUFFICES ASSUME EvictionInv, call = NoCall, \A r \in Seqs : num_new_tokens[r] = 0,
                     NEW s \in Seqs, num_cached_tokens[s] % BlockSize # 0,
                     NEW p, p = num_cached_tokens[s] \div BlockSize + 1
              PROVE  /\ p <= Len(block_table[s]) /\ block_table[s][p] \in BlockIds
                     /\ block_table[s][p] \in Range(block_table[s])
                     /\ chain[block_table[s][p]] = Prefix(s, num_cached_tokens[s])
  BY DEF PartialsHeld
<1>1. /\ CacheInv /\ PrefixSound /\ CoverInv /\ BlockSize \in Nat \ {0}
      /\ num_cached_tokens[s] \in Nat
      /\ block_table[s] \in Seq(BlockIds) /\ Len(block_table[s]) \in Nat
  <2>1. CacheInv /\ PrefixSound /\ CoverInv /\ TypeOK
    BY DEF EvictionInv, CallsInv, CacheInv, PoolInv
  <2>2. BlockSize \in Nat \ {0}
    BY BlockManagerAssumption
  <2>3. num_cached_tokens[s] \in Nat /\ block_table[s] \in Seq(BlockIds)
    BY <2>1 DEF TypeOK
  <2>. QED
    BY <2>1, <2>2, <2>3
<1>2. PICK n \in Nat, L \in Nat : n = num_cached_tokens[s] /\ L = Len(block_table[s])
                                  /\ n = ContextEnd(s)
  BY <1>1 DEF ContextEnd
<1>3. n <= L * BlockSize
  BY <1>1, <1>2 DEF CoverInv, NoCall
<1>4. PICK q \in Nat : q = n \div BlockSize
  BY <1>1, DivMoves
<1>5. q * BlockSize < n /\ n < q * BlockSize + BlockSize /\ q * BlockSize \in Nat
  <2>1. PICK y \in Nat : y = q * BlockSize /\ y <= n /\ n < y + BlockSize
    <3>1. (n \div BlockSize) * BlockSize \in Nat
      BY <1>1, DivMoves
    <3>. QED
      BY <1>1, <1>4, <3>1, DivFacts
  <2>2. n % BlockSize # 0 => (n \div BlockSize) * BlockSize < n
    BY <1>1, DivMoves
  <2>3. y < n
    BY <1>2, <1>4, <2>1, <2>2
  <2>. QED
    BY <2>1, <2>3
<1>6. (q + 1) * BlockSize = q * BlockSize + BlockSize /\ L * BlockSize \in Nat
  <2>1. (q + 1) * BlockSize = q * BlockSize + 1 * BlockSize /\ L * BlockSize \in Nat
    BY <1>1, MulFacts
  <2>. QED
    BY <1>1, <2>1
<1>7. q < L
  <2>1. L <= q => L * BlockSize <= q * BlockSize
    BY <1>1, MulFacts
  <2>. QED
    BY <1>3, <1>5, <1>6, <2>1
<1>8. p = q + 1 /\ p \in 1 .. L
  BY <1>2, <1>4, <1>7
<1>9. MinOf(p * BlockSize, n) = n
  <2>1. PICK y \in Nat : y = q * BlockSize /\ p * BlockSize = y + BlockSize /\ n < y + BlockSize
    BY <1>5, <1>6, <1>8
  <2>2. ~(y + BlockSize < n)
    BY <1>1, <2>1
  <2>. QED
    BY <2>1, <2>2 DEF MinOf
<1>10. StoredTokens(s, p) = n
  BY <1>2, <1>9 DEF StoredTokens, Reached, NoCall
<1>11. block_table[s][p] \in BlockIds /\ block_table[s][p] \in Range(block_table[s])
  BY <1>1, <1>2, <1>8 DEF Range
<1>. QED
  BY <1>1, <1>2, <1>8, <1>10, <1>11 DEF PrefixSound

(* Nobody has tokens to be computed when there is no batch.                  *)
LEMMA NothingPlanned ==
    SchedInv /\ step = EmptyStep /\ pc \in {"idle", "preempt"} => \A s \in Seqs : num_new_tokens[s] = 0
<1>. SUFFICES ASSUME SchedInv, step = EmptyStep, pc \in {"idle", "preempt"}, NEW s \in Seqs
              PROVE  num_new_tokens[s] = 0
  OBVIOUS
<1>1. TokensInv /\ num_new_tokens[s] \in Nat
  BY BatchTypes DEF SchedInv, TypeOK
<1>2. step.prefill = <<>> /\ step.decode = <<>>
  BY DEF EmptyStep
<1>3. ~(num_new_tokens[s] > 0)
  BY <1>1, <1>2 DEF TokensInv, Range
<1>. QED
  BY <1>1, <1>3

LEMMA AdvanceKv ==
    ASSUME SchedInv, SchedInv', KvInv, AdvanceBatch
    PROVE  KvInv'
<1>1. /\ pc = "advance" /\ pc' = "idle" /\ step' = EmptyStep /\ call = NoCall
      /\ UNCHANGED <<blocks, block_table, chain, call, kv>>
  BY DEF AdvanceBatch, At, Goto, Advance, poolVars
<1>2. Computed /\ ~Computed'
  BY <1>1 DEF Computed
<1>3. \A b \in BlockIds : Stored(b)' => kv'[b] = chain'[b]
  BY <1>1, <1>2 DEF KvInv, Stored, Published
<1>4. (\A s \in Seqs : num_new_tokens[s] = 0)'
  <2>1. SchedInv' /\ (step = EmptyStep)' /\ (pc \in {"idle", "preempt"})'
    BY <1>1
  <2>. QED
    BY <2>1, NothingPlanned, PTL
<1>5. PartialsHeld'
  <2>1. EvictionInv' /\ (call = NoCall)'
    BY <1>1 DEF SchedInv
  <2>. QED
    BY <1>4, <2>1, PartialFollows, PTL
<1>6. ASSUME NEW s \in Seqs PROVE PartialStored(s)'
  BY <1>3, <1>5 DEF PartialStored, PartialsHeld, Stored
<1>. QED
  BY <1>3, <1>6 DEF KvInv

LEMMA RunKv ==
    ASSUME SchedInv, PagesInv, KvInv, Run
    PROVE  KvInv'
<1>1. /\ pc = "run" /\ pc' = "sample" /\ kv' = KvAfter
      /\ UNCHANGED <<blocks, block_table, chain>>
  BY DEF Run, At, Goto, bmVars, poolVars, seqVars
<1>2. \A b \in BlockIds : Stored(b)' => kv'[b] = chain'[b]
  BY <1>1, RunStores DEF Stored, Published
<1>. QED
  BY <1>1, <1>2 DEF KvInv, Computed

LEMMA InitKv ==
    ASSUME SchedInit
    PROVE  PagesInv /\ KvInv
<1>1. /\ blocks = [b \in BlockIds |-> NewBlock] /\ call = NoCall
      /\ block_table = [s \in Seqs |-> <<>>] /\ num_cached_tokens = [s \in Seqs |-> 0]
  BY DEF SchedInit, Init
<1>2. BlockSize \in Nat \ {0} /\ 0 \div BlockSize = 0 /\ 0 % BlockSize = 0
  BY BlockManagerAssumption, DivMoves
<1>3. \A s \in Seqs : WrittenPages(s) = {}
  <2>. SUFFICES ASSUME NEW s \in Seqs PROVE WrittenPages(s) = {}
    OBVIOUS
  <2>1. WrittenPages(s) = 0 + 1 .. 0
    BY <1>1, <1>2 DEF WrittenPages
  <2>. QED
    BY <2>1
<1>4. \A b \in BlockIds : ~Stored(b)
  BY <1>1 DEF Stored, Published, NewBlock, Range
<1>5. \A s \in Seqs : PartialStored(s)
  BY <1>1, <1>2 DEF PartialStored
<1>. QED
  BY <1>1, <1>3, <1>4, <1>5 DEF PagesInv, KvInv, NoCall

(* The steps that neither compute a batch nor advance its requests.          *)
QuietStep ==
    /\ kv' = kv /\ Computed' = Computed
    /\ call = NoCall /\ ~Computed => num_cached_tokens' = num_cached_tokens

LEMMA ScheduleQuiet ==
    ASSUME Schedule
    PROVE  QuietStep
<1>1. CASE PreemptTail
  BY <1>1 DEF PreemptTail, At, Deallocate, QuietStep, Computed, seqVars
<1>2. CASE PlanStep
  BY <1>2 DEF PlanStep, At, Goto, QuietStep, Computed, schedVars, bmVars, seqVars
<1>3. CASE ChunkAppend
  BY <1>3 DEF ChunkAppend, At, Goto, QuietStep, Computed, schedVars, bmVars, seqVars, MayAppend
<1>4. CASE CommitClaim
  BY <1>4 DEF CommitClaim, At, Goto, QuietStep, Computed, schedVars, bmVars, seqVars, ClaimPrefix
<1>5. CASE CommitAllocate
  BY <1>5 DEF CommitAllocate, At, Goto, QuietStep, Computed, Admit, AllocateNew
<1>6. CASE CommitEnd \/ FreezeEnd \/ ScheduleEnd \/ DecodeAssertionRaises \/ NoProgressRaises
  BY <1>6 DEF CommitEnd, FreezeEnd, ScheduleEnd, DecodeAssertionRaises, NoProgressRaises,
              At, Goto, QuietStep, Computed, schedVars, bmVars, seqVars
<1>7. CASE Freeze
  BY <1>7 DEF Freeze, QuietStep, Computed, schedVars, bmVars, seqVars
<1>8. CASE FrozenClaim
  BY <1>8 DEF FrozenClaim, At, Goto, QuietStep, Computed, schedVars, bmVars, seqVars, ClaimPrefix
<1>9. CASE FrozenAllocate
  BY <1>9 DEF FrozenAllocate, At, Goto, QuietStep, Computed, Admit, AllocateNew, schedVars, bmVars,
              seqVars
<1>10. CASE DecodeAppend
  BY <1>10 DEF DecodeAppend, QuietStep, Computed, schedVars, MayAppend
<1>. QED
  BY <1>1, <1>2, <1>3, <1>4, <1>5, <1>6, <1>7, <1>8, <1>9, <1>10 DEF Schedule

LEMMA NextKv ==
    ASSUME SchedInv, PagesInv, KvInv, [SchedNext]_vars
    PROVE  PagesInv' /\ KvInv'
<1>1. SchedInv' /\ [Next]_bmVars /\ EvictionInv
  BY NextSched DEF SchedInv
<1>2. PagesInv'
  BY <1>1, NextPages
<1>3. ASSUME QuietStep PROVE KvInv'
  <2>1. Computed => call.op # "fill"
    BY DEF SchedInv, PhaseInv, Computed
  <2>2. call.op = "release" => Computed \/ \A s \in Seqs : num_new_tokens[s] = 0
    <3>1. call.op = "release" => pc = "preempt" \/ Computed
      BY DEF SchedInv, PhaseInv, Computed
    <3>2. pc = "preempt" => step = EmptyStep
      BY DEF SchedInv, PhaseInv
    <3>. QED
      BY <3>1, <3>2, NothingPlanned
  <2>. QED
    BY <1>1, <1>3, <2>1, <2>2, KvStep DEF QuietStep
<1>4. CASE StartStep \/ UNCHANGED vars \/ \E s \in Seqs : Add(s)
  <2>1. QuietStep
    BY <1>4 DEF StartStep, Add, At, Goto, QuietStep, Computed, vars, schedVars, bmVars, seqVars
  <2>. QED
    BY <1>2, <1>3, <2>1
<1>5. CASE Schedule
  BY <1>2, <1>3, <1>5, ScheduleQuiet
<1>6. CASE Run
  BY <1>2, <1>6, RunKv
<1>7. CASE AdvanceBatch
  BY <1>1, <1>2, <1>7, AdvanceKv
<1>8. CASE Finish \/ SampleEnd \/ \E t \in Token : Sample(t)
  <2>1. ASSUME Finish PROVE QuietStep
    BY <2>1 DEF Finish, At, Goto, QuietStep, Computed, schedVars
  <2>2. ASSUME SampleEnd PROVE QuietStep
    BY <2>2 DEF SampleEnd, At, Goto, QuietStep, Computed, schedVars
  <2>3. ASSUME NEW t \in Token, Sample(t) PROVE QuietStep
    BY <2>3 DEF Sample, At, Goto, QuietStep, Computed, schedVars
  <2>4. QuietStep
    BY <1>8, <2>1, <2>2, <2>3
  <2>. QED
    BY <1>2, <1>3, <2>4
<1>9. CASE BlockManagerStep
  <2>2. call.op \in {"claim", "fill", "release"}
    <3>1. CallStep
      BY <1>9 DEF BlockManagerStep
    <3>. QED
      BY <3>1, Zenon DEF CallStep, ClaimBlock, FillBlock, ReleaseBlock
  <2>3. call # NoCall
    BY <2>2 DEF NoCall
  <2>1. QuietStep
    BY <1>9, <2>3 DEF BlockManagerStep, QuietStep, Computed, schedVars
  <2>. QED
    BY <1>2, <1>3, <2>1
<1>. QED
  BY <1>2, <1>4, <1>5, <1>6, <1>7, <1>8, <1>9 DEF SchedNext, Engine, Postprocess, Stopped

LEMMA PagesInvariant == SchedSpec => [](SchedInv /\ PagesInv /\ KvInv)
BY InitSched, InitKv, NextSched, NextKv, PTL DEF SchedSpec

LEMMA AttentionFollows ==
    ASSUME SchedInv, PagesInv, KvInv
    PROVE  AttentionReadsOwnPrefix
<1>. SUFFICES ASSUME pc = "run"
              PROVE  /\ \A b \in BlockIds : Cardinality(Writers(b)) <= 1
                     /\ \A s \in Range(Scheduled) :
                         /\ \A k \in 1 .. Len(block_table[s]) :
                             KvAfter[block_table[s][k]] = Prefix(s, MinOf(k * BlockSize, ContextEnd(s)))
                         /\ num_cached_tokens[s] % BlockSize # 0 =>
                             kv[block_table[s][num_cached_tokens[s] \div BlockSize + 1]]
                                 = Prefix(s, num_cached_tokens[s])
  BY DEF AttentionReadsOwnPrefix
<1>1. /\ EvictionInv /\ CacheInv /\ PoolInv /\ PrefixSound /\ PhaseInv /\ ~Computed
      /\ BlockSize \in Nat \ {0} /\ MaxLen \in Nat
      /\ \A s \in Seqs : /\ num_cached_tokens[s] \in Nat
                         /\ block_table[s] \in Seq(BlockIds) /\ Len(block_table[s]) \in Nat
                         /\ IsInjective(block_table[s])
  <2>1. PoolInv
    BY DEF SchedInv, EvictionInv, CallsInv, CacheInv
  <2>2. \A s \in Seqs : IsInjective(block_table[s])
    BY <2>1, Types
  <2>. QED
    BY <2>2, BlockManagerAssumption DEF SchedInv, Computed, EvictionInv, CallsInv, CacheInv, PoolInv, TypeOK
<1>2. Range(Scheduled) \subseteq Seqs
  BY RunFacts
<1>3. ASSUME NEW b \in BlockIds PROVE Cardinality(Writers(b)) <= 1
  <2>1. ASSUME NEW v \in Writers(b), NEW w \in Writers(b) PROVE v = w
    <3>1. PICK s \in Seqs, i \in 1 .. MaxLen :
              v = <<s, i>> /\ i \in WrittenPages(s) /\ block_table[s][i] = b
      BY <1>2 DEF Writers
    <3>2. PICK q \in Seqs, j \in 1 .. MaxLen :
              w = <<q, j>> /\ j \in WrittenPages(q) /\ block_table[q][j] = b
      BY <1>2 DEF Writers
    <3>3. s = q
      BY <3>1, <3>2 DEF PagesInv
    <3>4. i \in DOMAIN block_table[s] /\ j \in DOMAIN block_table[s]
      <4>1. PICK p \in Nat : WrittenPages(s) = p + 1 .. Len(block_table[s])
        BY <1>1, DivMoves DEF WrittenPages
      <4>2. DOMAIN block_table[s] = 1 .. Len(block_table[s])
        BY <1>1
      <4>. QED
        BY <3>1, <3>2, <3>3, <4>1, <4>2
    <3>5. i = j
      BY <1>1, <3>1, <3>2, <3>3, <3>4 DEF IsInjective
    <3>. QED
      BY <3>1, <3>2, <3>3, <3>5
  <2>2. Cardinality(Writers(b)) \in Nat
    <3>1. IsFiniteSet(Seqs \X (1 .. MaxLen))
      BY BlockManagerAssumption, FS_Interval, ProductFinite
    <3>2. Writers(b) \subseteq Seqs \X (1 .. MaxLen)
      BY <1>2 DEF Writers
    <3>. QED
      BY <3>1, <3>2, FS_Subset, FS_CardinalityType
  <2>3. ~(Cardinality(Writers(b)) > 1)
    BY <2>1, TwoMembers
  <2>. QED
    BY <2>2, <2>3
<1>4. ASSUME NEW s \in Range(Scheduled), NEW k \in 1 .. Len(block_table[s])
      PROVE  KvAfter[block_table[s][k]] = Prefix(s, MinOf(k * BlockSize, ContextEnd(s)))
  <2>1. s \in Seqs /\ block_table[s][k] \in BlockIds /\ block_table[s][k] \in Range(block_table[s])
    BY <1>1, <1>2 DEF Range
  <2>2. KvAfter[block_table[s][k]] = chain[block_table[s][k]]
    BY <2>1, RunStores DEF Stored
  <2>3. Reached(s, k) = ContextEnd(s)
    BY <1>1 DEF PhaseInv, Reached
  <2>. QED
    BY <1>1, <2>1, <2>2, <2>3 DEF PrefixSound, StoredTokens
<1>5. ASSUME NEW s \in Range(Scheduled), num_cached_tokens[s] % BlockSize # 0
      PROVE  kv[block_table[s][num_cached_tokens[s] \div BlockSize + 1]] = Prefix(s, num_cached_tokens[s])
  <2>1. PartialStored(s) /\ ~Releasing(s)
    BY <1>1, <1>2 DEF KvInv, PhaseInv, Releasing
  <2>. QED
    BY <1>5, <2>1 DEF PartialStored
<1>. QED
  BY <1>3, <1>4, <1>5

(* What attention reads was computed for that very prefix, whatever was      *)
(* published ahead of its computation, evicted, shared or preempted: the     *)
(* pages of every row store its prefix, and each page is written for one row *)
(* (Scheduler.schedule, allocate_new, prepare_model_input).                 *)
THEOREM AttentionReadsItsPrefix == SchedSpec => []AttentionReadsOwnPrefix
BY AttentionFollows, PagesInvariant, PTL

LEMMA CachedFollows ==
    ASSUME SchedInv, KvInv
    PROVE  CachedBlocksComputed
<1>. SUFFICES ASSUME pc = "idle", call = NoCall, NEW b \in BlockIds, Published(b)
              PROVE  kv[b] = chain[b]
  BY DEF CachedBlocksComputed
<1>1. \A s \in Seqs : num_new_tokens[s] = 0
  BY NothingPlanned DEF SchedInv, PhaseInv
<1>2. b \notin Dirty
  BY <1>1 DEF Dirty
<1>. QED
  BY <1>2 DEF KvInv, Stored

(* Between two steps the index hands out no block that has not been computed *)
(* (_publish_full_block publishes before the forward pass).                 *)
THEOREM CachedBlocksAreComputed == SchedSpec => []CachedBlocksComputed
BY CachedFollows, PagesInvariant, PTL

=============================================================================
