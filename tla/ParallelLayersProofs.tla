------------------------ MODULE ParallelLayersProofs -------------------------
(***************************************************************************)
(* The operators of the forward pass, for every shape.  The activation      *)
(* kernel: for every number of rows and columns, threads per block and limit *)
(* of blocks, its grid-stride loop writes each element once, from the gate   *)
(* and the up of the same row and column, and reads nothing outside the      *)
(* input.  The shards of Qwen3 add up to the whole, for every number of ranks *)
(* and every model the constructors accept: what the loader puts where, that  *)
(* the order of the tensors does not matter, that each head meets its own    *)
(* key-value head, and that every weight counts once in a reduction.        *)
(***************************************************************************)
EXTENDS ParallelLayers, SiluKernel, TLAPS, FiniteSetTheorems

-----------------------------------------------------------------------------
(* Quotients and remainders, here and in the index arithmetic of the shards. *)

(* Division with remainder.                                                *)
LEMMA DivMod ==
    ASSUME NEW n \in Nat, NEW d \in Nat \ {0}
    PROVE  /\ n \div d \in Nat
           /\ n % d \in 0 .. d - 1
           /\ n = d * (n \div d) + (n % d)
  OBVIOUS

(* Quotient and remainder are determined by the number.                     *)
LEMMA DivUnique ==
    ASSUME NEW d \in Nat \ {0}, NEW q \in Nat, NEW p \in Nat,
           NEW r \in 0 .. d - 1, NEW s \in 0 .. d - 1, d * q + r = d * p + s
    PROVE  q = p /\ r = s
<1>1. ASSUME NEW a \in Nat, NEW b \in Nat, NEW x \in 0 .. d - 1, NEW y \in 0 .. d - 1,
             d * a + x = d * b + y, a < b
      PROVE  FALSE
  <2>1. PICK c \in Nat : b = a + 1 + c
    <3>1. b - a - 1 \in Nat /\ b = a + 1 + (b - a - 1)
      BY <1>1
    <3> QED  BY <3>1
  <2>2. d * b = d * a + d + d * c
    BY <2>1
  <2>3. d * c \in Nat /\ d * a \in Nat
    OBVIOUS
  <2> QED  BY <1>1, <2>2, <2>3
<1>2. ~(q < p) /\ ~(p < q)
  BY <1>1
<1>3. q = p
  BY <1>2
<1>4. d * q \in Nat
  OBVIOUS
<1> QED  BY <1>3, <1>4

(* A multiple has no remainder.                                            *)
LEMMA MultipleMod ==
    ASSUME NEW d \in Nat \ {0}, NEW q \in Nat
    PROVE  d * q \in Nat /\ (d * q) % d = 0 /\ (d * q) \div d = q
<1>1. d * q \in Nat
  OBVIOUS
<1> DEFINE n == d * q
<1>2. n \in Nat => n + 0 = d * (n \div d) + (n % d)
  <2> HIDE DEF n
  <2> QED  BY DivMod
<1>3. (d * q) \div d \in Nat /\ (d * q) % d \in 0 .. d - 1 /\ 0 \in 0 .. d - 1
  BY <1>1, DivMod
<1> QED  BY ONLY <1>1, <1>2, <1>3, DivUnique, d \in Nat \ {0}, q \in Nat DEF n

(* The quotient and the remainder of a number written with both.            *)
LEMMA DivModOfSum ==
    ASSUME NEW d \in Nat \ {0}, NEW q \in Nat, NEW r \in 0 .. d - 1
    PROVE  /\ d * q \in Nat
           /\ (d * q + r) \div d = q
           /\ (d * q + r) % d = r
<1>1. d * q \in Nat
  OBVIOUS
<1> DEFINE n == d * q + r
<1>2. n \in Nat
  BY <1>1
<1>3. n = d * q + r
  OBVIOUS
<1> HIDE DEF n
<1>4. n \div d \in Nat /\ n % d \in 0 .. d - 1 /\ n = d * (n \div d) + (n % d)
  BY <1>2, DivMod
<1>5. n \div d = q /\ n % d = r
  BY <1>3, <1>4, DivUnique
<1> QED  BY <1>1, <1>5 DEF n

(* A number without remainder is a multiple of its quotient.                *)
LEMMA ExactDiv ==
    ASSUME NEW n \in Nat, NEW d \in Nat \ {0}, n % d = 0
    PROVE  n \div d \in Nat /\ n = d * (n \div d)
<1>1. n \div d \in Nat /\ n = d * (n \div d) + (n % d)
  BY DivMod
<1>2. d * (n \div d) \in Nat
  BY <1>1
<1> QED  BY <1>1, <1>2

(* Rounding up changes nothing when there is no remainder.                  *)
LEMMA ExactCeiling ==
    ASSUME NEW n \in Nat, NEW d \in Nat \ {0}, n % d = 0
    PROVE  (n + d - 1) \div d = n \div d
<1> DEFINE q == n \div d
<1>1. q \in Nat /\ n = d * q
  BY ExactDiv
<1> HIDE DEF q
<1>2. n + d - 1 = d * q + (d - 1) /\ d - 1 \in 0 .. d - 1
  BY <1>1
<1>3. (n + d - 1) \div d = q
  BY <1>1, <1>2, DivModOfSum
<1> QED  BY <1>3 DEF q

(* Blocks of size units, one after the other: unit j of block r is inside    *)
(* the r-th part of the whole.                                             *)
LEMMA BlockIndex ==
    ASSUME NEW size \in Nat, NEW tp \in Nat \ {0},
           NEW r \in 0 .. tp - 1, NEW j \in 0 .. size - 1
    PROVE  r * size + j \in 0 .. (tp * size) - 1
<1>1. PICK above \in Nat : tp = r + 1 + above
  <2>1. tp - r - 1 \in Nat /\ tp = r + 1 + (tp - r - 1)
    OBVIOUS
  <2> QED  BY <2>1
<1>2. tp * size = (r * size) + size + (above * size) /\ r * size \in Nat /\ above * size \in Nat
  BY <1>1
<1> QED  BY <1>2

(* The block and the place in it are determined by the index.               *)
LEMMA BlockUnique ==
    ASSUME NEW size \in Nat, NEW r \in Nat, NEW s \in Nat,
           NEW j \in 0 .. size - 1, NEW k \in 0 .. size - 1,
           r * size + j = s * size + k
    PROVE  r = s /\ j = k
<1>1. size \in Nat \ {0} /\ size * r + j = size * s + k
  OBVIOUS
<1> QED  BY <1>1, DivUnique

(* Every index of tp blocks is in one of them.                              *)
LEMMA BlockOf ==
    ASSUME NEW size \in Nat, NEW tp \in Nat, NEW i \in 0 .. (tp * size) - 1
    PROVE  /\ size # 0
           /\ i \div size \in 0 .. tp - 1
           /\ i % size \in 0 .. size - 1
           /\ i = (i \div size) * size + (i % size)
<1>1. size # 0
  <2>1. tp * size \in Nat
    OBVIOUS
  <2> QED  BY <2>1
<1> DEFINE q == i \div size
           r == i % size
<1>2. i \in Nat
  OBVIOUS
<1>3. q \in Nat /\ r \in 0 .. size - 1 /\ i = size * q + r
  BY <1>1, <1>2, DivMod
<1> HIDE DEF q, r
<1>4. q < tp
  <2> SUFFICES ASSUME tp <= q PROVE FALSE
    BY <1>3
  <2>1. PICK c \in Nat : q = tp + c
    <3>1. q - tp \in Nat /\ q = tp + (q - tp)
      BY <1>3
    <3> QED  BY <3>1
  <2>2. size * q = (tp * size) + (size * c) /\ size * c \in Nat
    BY <2>1
  <2> QED  BY <1>3, <2>2
<1> QED  BY <1>1, <1>3, <1>4 DEF q, r

-----------------------------------------------------------------------------
(* The launch                                                              *)

(* Something is launched whenever there is something to do.                 *)
LEMMA StrideType ==
    ASSUME NEW elements \in Nat \ {0}
    PROVE  Blocks(elements) \in 1 .. MaxBlocks /\ Stride(elements) \in Nat \ {0}
<1> DEFINE n == elements + Threads - 1
           needed == n \div Threads
<1>1. Threads \in Nat \ {0} /\ MaxBlocks \in Nat \ {0}
  BY SiluKernelAssumption
<1>2. n \in Nat /\ n >= Threads
  BY <1>1
<1>3. needed \in Nat /\ n % Threads \in 0 .. Threads - 1 /\ n = Threads * needed + (n % Threads)
  BY <1>1, <1>2, DivMod
<1> HIDE DEF n, needed
<1>4. needed # 0
  BY <1>1, <1>2, <1>3
<1>5. Blocks(elements) = IF needed <= MaxBlocks THEN needed ELSE MaxBlocks
  BY DEF Blocks, n, needed
<1>6. Blocks(elements) \in 1 .. MaxBlocks
  BY <1>1, <1>3, <1>4, <1>5
<1> QED  BY <1>1, <1>6 DEF Stride

(* The loop from blockIdx.x * blockDim.x + threadIdx.x with the stride of    *)
(* the grid visits every element of the output, in exactly one thread: no   *)
(* element keeps what torch.empty left, and no two threads write one.       *)
THEOREM EveryElementOnce ==
    ASSUME NEW elements \in Nat, NEW i \in 0 .. elements - 1
    PROVE  \E t \in LaunchedThreads(elements) :
              /\ i \in Visited(t, elements)
              /\ \A u \in LaunchedThreads(elements) : i \in Visited(u, elements) => u = t
<1> DEFINE S == Stride(elements)
           t == i % S
           q == i \div S
<1>1. S \in Nat \ {0}
  BY StrideType
<1> HIDE DEF S
<1>2. i \in Nat /\ q \in Nat /\ t \in 0 .. S - 1 /\ i = S * q + t
  <2>1. i \in Nat
    OBVIOUS
  <2> QED  BY <1>1, <2>1, DivMod
<1> HIDE DEF t, q
<1>3. S * q \in Nat /\ (S * q) % S = 0
  BY <1>1, <1>2, MultipleMod
<1>4. i - t = S * q /\ i >= t
  BY <1>1, <1>2, <1>3
<1>5. t \in LaunchedThreads(elements)
  BY <1>2 DEF LaunchedThreads, S
<1>6. i \in Visited(t, elements)
  BY <1>3, <1>4 DEF Visited, S
<1>7. ASSUME NEW u \in LaunchedThreads(elements), i \in Visited(u, elements) PROVE u = t
  <2>1. u \in 0 .. S - 1
    BY DEF LaunchedThreads, S
  <2>2. i >= u /\ (i - u) % S = 0
    BY <1>7 DEF Visited, S
  <2>3. i - u \in Nat
    BY <1>2, <2>1, <2>2
  <2> DEFINE p == (i - u) \div S
  <2>4. p \in Nat /\ i - u = S * p + 0
    BY <1>1, <2>2, <2>3, DivMod
  <2> HIDE DEF p
  <2>5. S * p \in Nat
    BY <1>1, <2>4
  <2>6. S * q + t = S * p + u
    BY <1>2, <1>3, <2>1, <2>4, <2>5
  <2> QED  BY <1>1, <1>2, <2>1, <2>4, <2>6, DivUnique
<1> QED  BY <1>5, <1>6, <1>7

-----------------------------------------------------------------------------
(* The indices                                                             *)

(* Element row * hidden + column reads the gate and the up of its column of  *)
(* its row, both inside the input.                                         *)
THEOREM ReadsItsOwnRow ==
    ASSUME NEW rows \in Nat, NEW hidden \in Nat \ {0},
           NEW row \in 0 .. rows - 1, NEW column \in 0 .. hidden - 1,
           NEW i, i = row * hidden + column
    PROVE  /\ i \in 0 .. rows * hidden - 1
           /\ GateIndex(i, hidden) = row * (2 * hidden) + column
           /\ UpIndex(i, hidden) = row * (2 * hidden) + hidden + column
           /\ {GateIndex(i, hidden), UpIndex(i, hidden)} \subseteq
                0 .. rows * (2 * hidden) - 1
<1> DEFINE q == i \div hidden
           r == i % hidden
<1>1. row \in Nat /\ hidden * row \in Nat /\ row * hidden = hidden * row
  OBVIOUS
<1>2. i \in Nat
  BY <1>1
<1>3. q \in Nat /\ r \in 0 .. hidden - 1 /\ i = hidden * q + r
  BY <1>2, DivMod
<1>4. i = hidden * row + column
  BY <1>1
<1>5. q = row
  <2> HIDE DEF q, r
  <2> QED  BY <1>1, <1>3, <1>4, DivUnique
<1>6. PICK above \in Nat : rows = row + 1 + above
  <2>1. rows - row - 1 \in Nat /\ rows = row + 1 + (rows - row - 1)
    OBVIOUS
  <2> QED  BY <2>1
<1>7. rows * hidden = hidden * row + hidden + hidden * above /\ hidden * above \in Nat
  BY <1>6
<1>8. i \in 0 .. rows * hidden - 1
  BY <1>1, <1>2, <1>4, <1>7
<1>9. i - row * hidden = column
  BY <1>1, <1>4
<1>10. GateIndex(i, hidden) = row * (2 * hidden) + column
  BY <1>5, <1>9 DEF GateIndex
<1>11. UpIndex(i, hidden) = row * (2 * hidden) + hidden + column
  BY <1>1, <1>10 DEF UpIndex
<1>12. rows * (2 * hidden) = row * (2 * hidden) + 2 * hidden + 2 * (hidden * above)
       /\ row * (2 * hidden) \in Nat
  BY <1>6
<1>13. {GateIndex(i, hidden), UpIndex(i, hidden)} \subseteq 0 .. rows * (2 * hidden) - 1
  BY <1>7, <1>10, <1>11, <1>12
<1> QED  BY <1>8, <1>10, <1>11, <1>13

(* The kernel computes silu(gate) * up: the activation of the engine is the  *)
(* same whether or not it runs the in-tree kernel.                          *)
THEOREM KernelIsActivation ==
    ASSUME NEW rows \in Nat, NEW hidden \in Nat, NEW input
    PROVE  SiluAndMul(input, rows, hidden) =
                [i \in 0 .. rows * hidden - 1 |->
                    <<input[GateIndex(i, hidden)], input[UpIndex(i, hidden)]>>]
<1>1. rows * hidden \in Nat
  OBVIOUS
<1>2. ASSUME NEW i \in 0 .. rows * hidden - 1
      PROVE  \E t \in LaunchedThreads(rows * hidden) : i \in Visited(t, rows * hidden)
  BY <1>1, <1>2, EveryElementOnce
<1> QED  BY <1>2 DEF SiluAndMul

(* One row of a rank, as the engine calls it: the first half is the gate,    *)
(* the second the up.                                                      *)
THEOREM KernelOfOneRow ==
    ASSUME NEW hidden \in Nat \ {0}, NEW input
    PROVE  SiluAndMul(input, 1, hidden) =
                [j \in 0 .. hidden - 1 |-> <<input[j], input[hidden + j]>>]
<1>1. ASSUME NEW j \in 0 .. hidden - 1
      PROVE  GateIndex(j, hidden) = j /\ UpIndex(j, hidden) = hidden + j
  <2>1. hidden * 0 + j = j /\ j \div hidden = 0
    <3>1. 0 \in Nat /\ hidden * 0 + j = j
      OBVIOUS
    <3> QED  BY <3>1, DivModOfSum
  <2> QED  BY <2>1 DEF GateIndex, UpIndex
<1>2. 1 * hidden = hidden
  OBVIOUS
<1>3. SiluAndMul(input, 1, hidden) =
        [i \in 0 .. 1 * hidden - 1 |-> <<input[GateIndex(i, hidden)], input[UpIndex(i, hidden)]>>]
  BY KernelIsActivation
<1> QED  BY <1>1, <1>2, <1>3

-----------------------------------------------------------------------------
(* The shards                                                               *)

(* The shapes the constructors accept.                                     *)
Shape(hf, tp) ==
    /\ tp \in Nat \ {0}
    /\ hf.heads \in Nat \ {0} /\ hf.kv_heads \in Nat \ {0}
    /\ hf.inter \in Nat \ {0} /\ hf.vocab \in Nat \ {0}
    /\ Divisible(hf, tp)

(* The parts of the dimensions a rank holds.                                *)
QSize(hf, tp) == hf.heads \div tp
KvSize(hf, tp) == hf.kv_heads \div tp
Columns(hf, tp) == hf.inter \div tp
Words(hf, tp) == hf.vocab \div tp

(* The dimensions are the ranks times their parts.                          *)
LEMMA Parts ==
    ASSUME NEW hf, NEW tp, Shape(hf, tp)
    PROVE  /\ QSize(hf, tp) \in Nat /\ hf.heads = tp * QSize(hf, tp)
           /\ KvSize(hf, tp) \in Nat /\ hf.kv_heads = tp * KvSize(hf, tp)
           /\ Columns(hf, tp) \in Nat /\ hf.inter = tp * Columns(hf, tp)
           /\ Words(hf, tp) \in Nat /\ hf.vocab = tp * Words(hf, tp)
<1>1. tp \in Nat \ {0} /\ hf.heads \in Nat /\ hf.heads % tp = 0
  BY DEF Shape, Divisible, Divides
<1>2. hf.kv_heads \in Nat /\ hf.kv_heads % tp = 0
  BY DEF Shape, Divisible, Divides
<1>3. hf.inter \in Nat /\ hf.inter % tp = 0
  BY DEF Shape, Divisible, Divides
<1>4. hf.vocab \in Nat /\ hf.vocab % tp = 0
  BY DEF Shape, Divisible, Divides
<1> QED  BY <1>1, <1>2, <1>3, <1>4, ExactDiv DEF QSize, KvSize, Columns, Words

-----------------------------------------------------------------------------
(* Reductions                                                              *)

(* Terms that are dealt out in blocks, one block to each rank, are counted   *)
(* once each by all_reduce.                                                 *)
LEMMA BlocksAddUp ==
    ASSUME NEW tp \in Nat \ {0}, NEW size \in Nat, NEW T,
           \A a, b \in Indices(tp * size) : T[a] = T[b] => a = b
    PROVE  AllReduce([rank \in Indices(tp) |-> {T[(rank * size) + j] : j \in Indices(size)}])
                = Once({T[h] : h \in Indices(tp * size)})
<1> DEFINE terms == [rank \in Indices(tp) |-> {T[(rank * size) + j] : j \in Indices(size)}]
           whole == {T[h] : h \in Indices(tp * size)}
<1>1. ASSUME NEW h \in Indices(tp * size)
      PROVE  /\ h \div size \in Indices(tp) /\ h % size \in Indices(size)
             /\ h = (h \div size) * size + (h % size)
  BY BlockOf DEF Indices
<1>2. ASSUME NEW rank \in Indices(tp), NEW j \in Indices(size)
      PROVE  (rank * size) + j \in Indices(tp * size)
  BY BlockIndex DEF Indices
<1>3. UNION {terms[rank] : rank \in DOMAIN terms} = whole
  <2>1. ASSUME NEW rank \in Indices(tp), NEW t \in terms[rank] PROVE t \in whole
    BY <1>2
  <2>2. ASSUME NEW h \in Indices(tp * size) PROVE \E rank \in Indices(tp) : T[h] \in terms[rank]
    BY <1>1
  <2>3. DOMAIN terms = Indices(tp)
    OBVIOUS
  <2> HIDE DEF terms
  <2>4. \A t \in whole : \E rank \in Indices(tp) : t \in terms[rank]
    BY <2>2
  <2> HIDE DEF whole
  <2> QED  BY <2>1, <2>3, <2>4
<1>4. ASSUME NEW t \in whole
      PROVE  Cardinality({rank \in DOMAIN terms : t \in terms[rank]}) = 1
  <2>1. PICK h \in Indices(tp * size) : t = T[h]
    OBVIOUS
  <2> DEFINE r == h \div size
  <2>2. r \in Indices(tp) /\ t \in terms[r]
    BY <1>1, <2>1
  <2>3. ASSUME NEW s \in Indices(tp), t \in terms[s] PROVE s = r
    <3>1. PICK j \in Indices(size) : t = T[(s * size) + j]
      BY <2>3
    <3>2. (s * size) + j = (r * size) + (h % size)
      BY <1>1, <1>2, <2>1, <3>1
    <3>3. s \in Nat /\ r \in Nat /\ h % size \in 0 .. size - 1 /\ j \in 0 .. size - 1
      BY <1>1, <2>2 DEF Indices
    <3> HIDE DEF r
    <3> QED  BY <3>2, <3>3, BlockUnique
  <2>4. {rank \in DOMAIN terms : t \in terms[rank]} = {r}
    BY <2>2, <2>3
  <2> QED  BY <2>4, FS_Singleton
<1> HIDE DEF terms, whole
<1>5. AllReduce(terms) = Once(whole)
  BY <1>3, <1>4 DEF AllReduce, Once
<1> QED  BY <1>5 DEF terms, whole
-----------------------------------------------------------------------------
(* Grouped-query attention                                                 *)

(* The size of a group is the same on a rank as in the whole model, and the  *)
(* key-value head of the j-th query head of a rank is the one the whole     *)
(* model gives to that head.                                               *)
THEOREM QueryHeadMeetsItsKeyValueHead ==
    ASSUME NEW hf, NEW tp, Shape(hf, tp), QSize(hf, tp) % KvSize(hf, tp) = 0,
           NEW rank \in Indices(tp), NEW j \in Indices(QSize(hf, tp))
    PROVE  LET G == QSize(hf, tp) \div KvSize(hf, tp)
           IN  /\ hf.heads \div hf.kv_heads = G
               /\ j \div G \in Indices(KvSize(hf, tp))
               /\ ((rank * QSize(hf, tp)) + j) \div G = (rank * KvSize(hf, tp)) + (j \div G)
<1> DEFINE qs == QSize(hf, tp)
           ks == KvSize(hf, tp)
           G == qs \div ks
           d == j \div G
           m == j % G
<1>1. /\ tp \in Nat \ {0} /\ qs \in Nat /\ ks \in Nat
      /\ hf.heads = tp * qs /\ hf.kv_heads = tp * ks
      /\ hf.heads \in Nat \ {0} /\ hf.kv_heads \in Nat \ {0}
  BY Parts DEF Shape
<1>2. rank \in Nat /\ j \in Nat /\ j \in 0 .. qs - 1 /\ qs % ks = 0
  BY <1>1 DEF Indices
<1> HIDE DEF qs, ks
<1>3. ks # 0 /\ qs # 0
  BY <1>1
<1>4. G \in Nat /\ qs = ks * G
  BY <1>1, <1>2, <1>3, ExactDiv
<1> HIDE DEF G
<1>5. G # 0
  BY <1>1, <1>3, <1>4
<1>6. hf.heads \div hf.kv_heads = G
  <2>1. hf.heads = hf.kv_heads * G + 0 /\ 0 \in 0 .. hf.kv_heads - 1
    BY <1>1, <1>4
  <2> QED  BY <1>1, <1>4, <2>1, DivModOfSum
<1>7. d \in Indices(ks) /\ m \in 0 .. G - 1 /\ j = (d * G) + m
  <2>1. j \in 0 .. (ks * G) - 1
    BY <1>2, <1>4
  <2> QED  BY <1>1, <1>4, <2>1, BlockOf DEF Indices
<1> HIDE DEF d, m
<1>8. d \in Nat /\ (rank * qs) + j = G * ((rank * ks) + d) + m
  <2>1. d \in Nat
    BY <1>1, <1>7 DEF Indices
  <2>2. rank * qs = G * (rank * ks)
    BY <1>1, <1>2, <1>4
  <2>3. G * ((rank * ks) + d) = G * (rank * ks) + (d * G)
    BY <1>1, <1>2, <1>4, <2>1
  <2>4. rank * qs \in Nat /\ d * G \in Nat /\ m \in Nat
    BY <1>1, <1>2, <1>4, <1>7, <2>1
  <2> QED  BY <1>7, <2>1, <2>2, <2>3, <2>4
<1>9. ((rank * qs) + j) \div G = (rank * ks) + d
  <2> DEFINE q == (rank * ks) + d
  <2>1. q \in Nat /\ (rank * qs) + j = G * q + m
    BY <1>1, <1>2, <1>8
  <2> HIDE DEF q
  <2>2. (G * q + m) \div G = q
    BY <1>4, <1>5, <1>7, <2>1, DivModOfSum
  <2> QED  BY <2>1, <2>2 DEF q
<1> QED  BY <1>6, <1>7, <1>9 DEF qs, ks, G, d

(* What the loader has to leave in the parameters of the attention of a      *)
(* layer on one rank: its heads of q, then of k, then of v; its rows of      *)
(* o_proj; and the whole norms.                                            *)
QkvLoaded(hf, tp, rank, layer, qkv) ==
    LET qs == QSize(hf, tp)
        ks == KvSize(hf, tp)
    IN  /\ \A j \in Indices(qs) : qkv[j] = <<<<layer, "q_proj">>, (rank * qs) + j>>
        /\ \A j \in Indices(ks) : qkv[qs + j] = <<<<layer, "k_proj">>, (rank * ks) + j>>
        /\ \A j \in Indices(ks) : qkv[qs + ks + j] = <<<<layer, "v_proj">>, (rank * ks) + j>>
OProjLoaded(hf, tp, rank, layer, o) ==
    \A j \in Indices(QSize(hf, tp)) :
        o[j] = <<<<layer, "o_proj">>, (rank * QSize(hf, tp)) + j>>
AttentionLoaded(hf, tp, rank, layer, param) ==
    /\ QkvLoaded(hf, tp, rank, layer, param[<<layer, "qkv_proj">>])
    /\ OProjLoaded(hf, tp, rank, layer, param[<<layer, "o_proj">>])
    /\ \A name \in QkNorms(hf, layer) : param[name][0] = <<name, 0>>

(* Head h of the whole model.                                              *)
WholeHead(hf, layer, h) ==
    LET G == hf.heads \div hf.kv_heads
    IN  <<<<<<layer, "o_proj">>, h>>,
          <<<<<<layer, "q_proj">>, h>>, <<<<layer, "k_proj">>, h \div G>>,
            <<<<layer, "v_proj">>, h \div G>>, {<<name, 0>> : name \in QkNorms(hf, layer)}>>>>

(* The heads of a rank are a block of the heads of the model.               *)
LEMMA HeadsOfRank ==
    ASSUME NEW hf, NEW tp, Shape(hf, tp), QSize(hf, tp) % KvSize(hf, tp) = 0,
           NEW rank \in Indices(tp), NEW layer, NEW param,
           AttentionLoaded(hf, tp, rank, layer, param)
    PROVE  AttentionTerms(hf, tp, param, layer) =
                {WholeHead(hf, layer, (rank * QSize(hf, tp)) + j) : j \in Indices(QSize(hf, tp))}
<1> DEFINE qs == QSize(hf, tp)
           ks == KvSize(hf, tp)
           G == qs \div ks
           qkv == param[<<layer, "qkv_proj">>]
           o == param[<<layer, "o_proj">>]
           norms == {param[name][0] : name \in QkNorms(hf, layer)}
           Term(j) == <<o[j], <<qkv[j], qkv[qs + (j \div G)], qkv[qs + ks + (j \div G)], norms>>>>
<1>1. AttentionTerms(hf, tp, param, layer) = {Term(j) : j \in Indices(qs)}
  BY DEF AttentionTerms, QSize, KvSize
<1>2. norms = {<<name, 0>> : name \in QkNorms(hf, layer)}
  BY DEF AttentionLoaded
<1> HIDE DEF norms
<1>3. ASSUME NEW j \in Indices(qs)
      PROVE  Term(j) = WholeHead(hf, layer, (rank * qs) + j)
  <2> DEFINE d == j \div G
             h == (rank * qs) + j
  <2>1. d \in Indices(ks) /\ hf.heads \div hf.kv_heads = G /\ h \div G = (rank * ks) + d
    BY QueryHeadMeetsItsKeyValueHead
  <2>2. QkvLoaded(hf, tp, rank, layer, qkv) /\ OProjLoaded(hf, tp, rank, layer, o)
    BY DEF AttentionLoaded
  <2> HIDE DEF qkv, o, G, d
  <2>3. qkv[j] = <<<<layer, "q_proj">>, h>> /\ o[j] = <<<<layer, "o_proj">>, h>>
    BY <2>2 DEF QkvLoaded, OProjLoaded
  <2>4. /\ qkv[qs + d] = <<<<layer, "k_proj">>, (rank * ks) + d>>
        /\ qkv[qs + ks + d] = <<<<layer, "v_proj">>, (rank * ks) + d>>
    BY <2>1, <2>2 DEF QkvLoaded
  <2> HIDE DEF h, qs, ks
  <2>5. Term(j) = <<o[j], <<qkv[j], qkv[qs + d], qkv[qs + ks + d], norms>>>>
    BY DEF d
  <2>6. WholeHead(hf, layer, h) =
          <<<<<<layer, "o_proj">>, h>>,
            <<<<<<layer, "q_proj">>, h>>, <<<<layer, "k_proj">>, h \div G>>,
              <<<<layer, "v_proj">>, h \div G>>, norms>>>>
    BY <1>2, <2>1 DEF WholeHead
  <2>7. Term(j) = WholeHead(hf, layer, h)
    BY <2>1, <2>3, <2>4, <2>5, <2>6
  <2> QED  BY <2>7 DEF h, qs
<1> HIDE DEF Term
<1>4. {Term(j) : j \in Indices(qs)} =
        {WholeHead(hf, layer, (rank * qs) + j) : j \in Indices(qs)}
  BY <1>3
<1> QED  BY <1>1, <1>4

(* Tensor-parallel attention followed by the all_reduce of o_proj is the     *)
(* attention of one rank that holds every head, as soon as each rank holds  *)
(* its shards: no head is missing, counted twice or paired with the key and *)
(* value of another group.                                                 *)
THEOREM AttentionShardsAddUp ==
    ASSUME NEW hf, NEW tp, Shape(hf, tp), QSize(hf, tp) % KvSize(hf, tp) = 0,
           NEW layer, NEW params,
           \A rank \in Indices(tp) : AttentionLoaded(hf, tp, rank, layer, params[rank])
    PROVE  AttentionAddsUp(hf, tp, params, layer)
<1> DEFINE qs == QSize(hf, tp)
           T == [h \in Indices(tp * qs) |-> WholeHead(hf, layer, h)]
<1>1. tp \in Nat \ {0} /\ qs \in Nat /\ hf.heads = tp * qs
  BY Parts DEF Shape
<1> HIDE DEF qs
<1>2. ASSUME NEW rank \in Indices(tp)
      PROVE  AttentionTerms(hf, tp, params[rank], layer) =
                {T[(rank * qs) + j] : j \in Indices(qs)}
  <2>1. AttentionTerms(hf, tp, params[rank], layer) =
            {WholeHead(hf, layer, (rank * qs) + j) : j \in Indices(qs)}
    BY HeadsOfRank DEF qs
  <2>2. ASSUME NEW j \in Indices(qs)
        PROVE  T[(rank * qs) + j] = WholeHead(hf, layer, (rank * qs) + j)
    BY <1>1, BlockIndex DEF Indices
  <2> HIDE DEF T
  <2> QED  BY <2>1, <2>2
<1>3. WholeAttention(hf, layer) = {T[h] : h \in Indices(tp * qs)}
  <2>1. WholeAttention(hf, layer) = {WholeHead(hf, layer, h) : h \in Indices(tp * qs)}
    BY <1>1 DEF WholeAttention, WholeHead
  <2>2. \A h \in Indices(tp * qs) : T[h] = WholeHead(hf, layer, h)
    OBVIOUS
  <2> HIDE DEF T
  <2> QED  BY <2>1, <2>2
<1>4. \A a, b \in Indices(tp * qs) : T[a] = T[b] => a = b
  <2>1. \A a, b \in Indices(tp * qs) : T[a] = T[b] => T[a][1] = T[b][1]
    OBVIOUS
  <2>2. \A h \in Indices(tp * qs) : T[h][1] = <<<<layer, "o_proj">>, h>>
    BY DEF WholeHead
  <2> HIDE DEF T
  <2> QED  BY <2>1, <2>2
<1> HIDE DEF T
<1>5. AllReduce([rank \in Indices(tp) |-> {T[(rank * qs) + j] : j \in Indices(qs)}])
        = Once({T[h] : h \in Indices(tp * qs)})
  BY <1>1, <1>4, BlocksAddUp
<1>6. [rank \in Indices(tp) |-> AttentionTerms(hf, tp, params[rank], layer)]
        = [rank \in Indices(tp) |-> {T[(rank * qs) + j] : j \in Indices(qs)}]
  BY <1>2
<1> QED  BY <1>3, <1>5, <1>6 DEF AttentionAddsUp

-----------------------------------------------------------------------------
(* The MLP                                                                 *)

(* The gate columns of a rank, then its up columns; its rows of down_proj.   *)
MlpLoaded(hf, tp, rank, layer, param) ==
    LET c == Columns(hf, tp)
    IN  \A j \in Indices(c) :
            /\ param[<<layer, "gate_up_proj">>][j] = <<<<layer, "gate_proj">>, (rank * c) + j>>
            /\ param[<<layer, "gate_up_proj">>][c + j] = <<<<layer, "up_proj">>, (rank * c) + j>>
            /\ param[<<layer, "down_proj">>][j] = <<<<layer, "down_proj">>, (rank * c) + j>>

(* One row of silu_and_mul as PyTorch and FlashInfer compute it, and as the   *)
(* in-tree kernel does.                                                    *)
Activated(gate_up, columns) ==
    [j \in Indices(columns) |-> <<gate_up[j], gate_up[columns + j]>>]
ActivatedByKernel(gate_up, columns) == SiluAndMul(gate_up, 1, columns)

(* Either of them on every rank.                                           *)
GateUp(params, rank, layer) == params[rank][<<layer, "gate_up_proj">>]
ActiveRows(hf, tp, params, layer) ==
    [rank \in Indices(tp) |-> Activated(GateUp(params, rank, layer), Columns(hf, tp))]
KernelRows(hf, tp, params, layer) ==
    [rank \in Indices(tp) |-> ActivatedByKernel(GateUp(params, rank, layer), Columns(hf, tp))]

WholeColumn(layer, h) ==
    <<<<<<layer, "down_proj">>, h>>,
      <<<<<<layer, "gate_proj">>, h>>, <<<<layer, "up_proj">>, h>>>>>>

(* The MLP of the ranks followed by the all_reduce of down_proj is the MLP   *)
(* of one rank: each column meets the up and the row of down_proj of its     *)
(* own place, and counts once.                                             *)
THEOREM MlpShardsAddUp ==
    ASSUME NEW hf, NEW tp, Shape(hf, tp), NEW layer, NEW params,
           \A rank \in Indices(tp) : MlpLoaded(hf, tp, rank, layer, params[rank])
    PROVE  MlpAddsUp(hf, tp, params, layer, ActiveRows(hf, tp, params, layer))
<1> DEFINE c == Columns(hf, tp)
           T == [h \in Indices(tp * c) |-> WholeColumn(layer, h)]
           rows == ActiveRows(hf, tp, params, layer)
<1>1. tp \in Nat \ {0} /\ c \in Nat /\ hf.inter = tp * c
  BY Parts DEF Shape
<1> HIDE DEF c
<1>2. ASSUME NEW rank \in Indices(tp)
      PROVE  MlpTerms(hf, tp, params[rank], layer, rows[rank]) =
                {T[(rank * c) + j] : j \in Indices(c)}
  <2> DEFINE down == params[rank][<<layer, "down_proj">>]
             gate_up == params[rank][<<layer, "gate_up_proj">>]
  <2>0. rows[rank] = Activated(gate_up, c)
    BY DEF ActiveRows, GateUp, c
  <2> HIDE DEF rows
  <2>1. MlpTerms(hf, tp, params[rank], layer, rows[rank]) =
            {<<down[j], Activated(gate_up, c)[j]>> : j \in Indices(c)}
    BY <2>0 DEF MlpTerms, c, Columns
  <2>2. ASSUME NEW j \in Indices(c)
        PROVE  <<down[j], Activated(gate_up, c)[j]>> = T[(rank * c) + j]
    <3>1. MlpLoaded(hf, tp, rank, layer, params[rank])
      OBVIOUS
    <3>2. /\ down[j] = <<<<layer, "down_proj">>, (rank * c) + j>>
          /\ gate_up[j] = <<<<layer, "gate_proj">>, (rank * c) + j>>
          /\ gate_up[c + j] = <<<<layer, "up_proj">>, (rank * c) + j>>
      BY <3>1 DEF MlpLoaded, c
    <3> HIDE DEF down, gate_up
    <3>3. Activated(gate_up, c)[j] = <<gate_up[j], gate_up[c + j]>>
      BY DEF Activated
    <3>4. T[(rank * c) + j] = WholeColumn(layer, (rank * c) + j)
      BY <1>1, BlockIndex DEF Indices
    <3> HIDE DEF T
    <3> QED  BY <3>2, <3>3, <3>4 DEF WholeColumn
  <2> HIDE DEF T, down, gate_up
  <2> QED  BY <2>1, <2>2
<1>3. WholeMlp(hf, layer) = {T[h] : h \in Indices(tp * c)}
  <2>1. WholeMlp(hf, layer) = {WholeColumn(layer, h) : h \in Indices(tp * c)}
    BY <1>1 DEF WholeMlp, WholeColumn
  <2>2. \A h \in Indices(tp * c) : T[h] = WholeColumn(layer, h)
    OBVIOUS
  <2> HIDE DEF T
  <2> QED  BY <2>1, <2>2
<1>4. \A a, b \in Indices(tp * c) : T[a] = T[b] => a = b
  <2>1. \A a, b \in Indices(tp * c) : T[a] = T[b] => T[a][1] = T[b][1]
    OBVIOUS
  <2>2. \A h \in Indices(tp * c) : T[h][1] = <<<<layer, "down_proj">>, h>>
    BY DEF WholeColumn
  <2> HIDE DEF T
  <2> QED  BY <2>1, <2>2
<1> HIDE DEF T
<1>5. AllReduce([rank \in Indices(tp) |-> {T[(rank * c) + j] : j \in Indices(c)}])
        = Once({T[h] : h \in Indices(tp * c)})
  BY <1>1, <1>4, BlocksAddUp
<1> HIDE DEF rows
<1>6. [rank \in Indices(tp) |-> MlpTerms(hf, tp, params[rank], layer, rows[rank])]
        = [rank \in Indices(tp) |-> {T[(rank * c) + j] : j \in Indices(c)}]
  BY <1>2
<1> QED  BY <1>3, <1>5, <1>6 DEF MlpAddsUp, rows

(* The same with the in-tree kernel on each rank, whatever its launch.       *)
THEOREM MlpShardsAddUpByKernel ==
    ASSUME NEW hf, NEW tp, Shape(hf, tp), NEW layer, NEW params,
           \A rank \in Indices(tp) : MlpLoaded(hf, tp, rank, layer, params[rank])
    PROVE  MlpAddsUp(hf, tp, params, layer, KernelRows(hf, tp, params, layer))
<1>1. Columns(hf, tp) \in Nat \ {0}
  <2>1. Columns(hf, tp) \in Nat /\ hf.inter = tp * Columns(hf, tp)
    BY Parts
  <2>2. Columns(hf, tp) # 0
    BY <2>1 DEF Shape
  <2> QED  BY <2>1, <2>2
<1>2. ASSUME NEW rank \in Indices(tp)
      PROVE  ActivatedByKernel(GateUp(params, rank, layer), Columns(hf, tp))
                = Activated(GateUp(params, rank, layer), Columns(hf, tp))
  BY <1>1, KernelOfOneRow DEF ActivatedByKernel, Activated, Indices
<1>3. KernelRows(hf, tp, params, layer) = ActiveRows(hf, tp, params, layer)
  BY <1>2 DEF KernelRows, ActiveRows
<1> QED  BY <1>3, MlpShardsAddUp

-----------------------------------------------------------------------------
(* The vocabulary                                                          *)

EmbeddingLoaded(hf, tp, rank, param) ==
    \A j \in Indices(Words(hf, tp)) :
        param[<<0, "embed_tokens">>][j] = <<<<0, "embed_tokens">>, (rank * Words(hf, tp)) + j>>

(* Each word has one owner, whose row of the embedding is the one that the   *)
(* all_reduce adds to zeros.                                               *)
THEOREM EmbeddingShardsAddUp ==
    ASSUME NEW hf, NEW tp, Shape(hf, tp), NEW params,
           \A rank \in Indices(tp) : EmbeddingLoaded(hf, tp, rank, params[rank])
    PROVE  EmbeddingAddsUp(hf, tp, params)
<1> DEFINE size == Words(hf, tp)
<1>1. tp \in Nat \ {0} /\ size \in Nat /\ hf.vocab = tp * size
  BY Parts DEF Shape
<1> SUFFICES ASSUME NEW word \in Indices(hf.vocab)
             PROVE  AllReduce([rank \in Indices(tp) |->
                                EmbeddingTerms(hf, tp, params[rank], rank, word)])
                        = Once({<<<<0, "embed_tokens">>, word>>})
  BY DEF EmbeddingAddsUp
<1> DEFINE owner == word \div size
           place == word % size
           row == <<<<0, "embed_tokens">>, word>>
           terms == [rank \in Indices(tp) |-> EmbeddingTerms(hf, tp, params[rank], rank, word)]
<1>2. owner \in Indices(tp) /\ place \in Indices(size) /\ word = (owner * size) + place
  BY <1>1, BlockOf DEF Indices
<1>3. ASSUME NEW rank \in Indices(tp)
      PROVE  word >= rank * size /\ word < (rank + 1) * size <=> rank = owner
  <2> HIDE DEF size, owner, place
  <2>1. rank \in Nat /\ owner \in Nat /\ place \in 0 .. size - 1 /\ rank * size \in Nat
    BY <1>1, <1>2 DEF Indices
  <2>2. (rank + 1) * size = (rank * size) + size
    BY <1>1, <2>1
  <2>3. ASSUME word >= rank * size, word < (rank + 1) * size PROVE rank = owner
    <3> DEFINE k == word - rank * size
    <3>1. word \in Nat
      BY <1>1 DEF Indices
    <3>2. k \in 0 .. size - 1 /\ (rank * size) + k = (owner * size) + place
      BY <1>1, <1>2, <2>1, <2>2, <2>3, <3>1
    <3> HIDE DEF k
    <3> QED  BY <1>1, <2>1, <3>2, BlockUnique
  <2>4. ASSUME rank = owner PROVE word >= rank * size /\ word < (rank + 1) * size
    BY <1>1, <1>2, <2>1, <2>2, <2>4
  <2> QED  BY <2>3, <2>4
<1>4. ASSUME NEW rank \in Indices(tp)
      PROVE  terms[rank] = IF rank = owner THEN {row} ELSE {}
  <2>1. CASE rank = owner
    <3>1. word - rank * size = place
      <4> HIDE DEF owner, place, size
      <4>1. owner * size \in Nat /\ place \in Nat
        BY <1>1, <1>2 DEF Indices
      <4> QED  BY <1>2, <2>1, <4>1
    <3>2. params[rank][<<0, "embed_tokens">>][place] = row
      <4>1. EmbeddingLoaded(hf, tp, rank, params[rank])
        OBVIOUS
      <4> HIDE DEF owner, place
      <4> QED  BY <1>2, <2>1, <4>1 DEF EmbeddingLoaded
    <3> HIDE DEF owner, place, row
    <3>3. EmbeddingTerms(hf, tp, params[rank], rank, word) =
            {params[rank][<<0, "embed_tokens">>][word - rank * size]}
      BY <1>3, <2>1 DEF EmbeddingTerms, Words
    <3> QED  BY <2>1, <3>1, <3>2, <3>3
  <2>2. CASE rank # owner
    <3> HIDE DEF owner, row
    <3>1. EmbeddingTerms(hf, tp, params[rank], rank, word) = {}
      BY <1>3, <2>2 DEF EmbeddingTerms, Words
    <3> QED  BY <2>2, <3>1
  <2> QED  BY <2>1, <2>2
<1>5. DOMAIN terms = Indices(tp)
  OBVIOUS
<1> HIDE DEF terms, owner, row
<1>6. UNION {terms[rank] : rank \in DOMAIN terms} = {row}
  BY <1>2, <1>4, <1>5
<1>7. Cardinality({rank \in DOMAIN terms : row \in terms[rank]}) = 1
  <2>1. {rank \in DOMAIN terms : row \in terms[rank]} = {owner}
    BY <1>2, <1>4, <1>5
  <2> QED  BY <2>1, FS_Singleton
<1>8. AllReduce(terms) = Once({row})
  BY <1>6, <1>7 DEF AllReduce, Once
<1> QED  BY <1>8 DEF terms, row

(* The logits gathered on rank 0 are in the order of the vocabulary: the     *)
(* token that the sampler draws is the one whose logit was high.             *)
THEOREM LogitsGatheredInOrder ==
    ASSUME NEW hf, NEW tp, Shape(hf, tp), NEW params,
           \A rank \in Indices(tp) : \A j \in Indices(Words(hf, tp)) :
                params[rank][Storage(hf, <<0, "lm_head">>)][j] =
                    Tensor(hf, <<0, "lm_head">>)[(rank * Words(hf, tp)) + j]
    PROVE  LogitsInOrder(hf, tp, params)
<1> DEFINE size == Words(hf, tp)
           head == Tensor(hf, <<0, "lm_head">>)
<1>1. tp \in Nat \ {0} /\ size \in Nat /\ hf.vocab = tp * size
  BY Parts DEF Shape
<1>2. TensorSize(hf, <<0, "lm_head">>) = tp * size
  BY <1>1 DEF TensorSize
<1>3. head = [i \in Indices(tp * size) |-> head[i]]
  BY <1>2 DEF Tensor
<1>4. ASSUME NEW word \in Indices(tp * size)
      PROVE  params[word \div size][Storage(hf, <<0, "lm_head">>)][word % size] = head[word]
  <2> HIDE DEF head
  <2>1. /\ word \div size \in Indices(tp) /\ word % size \in Indices(size)
        /\ word = ((word \div size) * size) + (word % size)
    BY <1>1, BlockOf DEF Indices
  <2> QED  BY <2>1 DEF head
<1> HIDE DEF head
<1>5. GatheredLogits(hf, tp, params) = [i \in Indices(tp * size) |-> head[i]]
  BY <1>4 DEF GatheredLogits, Words
<1> QED  BY <1>3, <1>5 DEF LogitsInOrder, head

-----------------------------------------------------------------------------
(* The loader                                                              *)

(* chunk(tp)[rank] is the same cut as narrow(rank * size, size) when the     *)
(* dimension divides, which the constructors assert.                        *)
LEMMA ChunkIsShard ==
    ASSUME NEW tp \in Nat \ {0}, NEW size \in Nat, NEW rank \in Indices(tp),
           NEW tensor, DOMAIN tensor = Indices(tp * size)
    PROVE  Chunk(tensor, tp, rank) = RankShard(tensor, size, rank)
<1> DEFINE n == tp * size
<1>1. n \in Nat /\ Cardinality(DOMAIN tensor) = n
  <2>1. n \in Nat
    OBVIOUS
  <2>2. Cardinality(0 .. n - 1) = n
    <3> HIDE DEF n
    <3>1. 0 \in Int /\ n - 1 \in Int
      BY <2>1
    <3> QED  BY <2>1, <3>1, FS_Interval
  <2> QED  BY <2>1, <2>2 DEF Indices
<1>2. n % tp = 0 /\ n \div tp = size
  BY MultipleMod
<1>3. (n + tp - 1) \div tp = size
  <2> HIDE DEF n
  <2> QED  BY <1>1, <1>2, ExactCeiling
<1>4. ~(n - rank * size < size)
  <2>1. PICK above \in Nat : tp = rank + 1 + above
    <3>1. tp - rank - 1 \in Nat /\ tp = rank + 1 + (tp - rank - 1)
      BY DEF Indices
    <3> QED  BY <3>1
  <2>2. n = (rank * size) + size + (above * size) /\ above * size \in Nat /\ rank * size \in Nat
    BY <2>1 DEF Indices
  <2> HIDE DEF n
  <2> QED  BY <2>2
<1> HIDE DEF n
<1> QED  BY <1>1, <1>3, <1>4 DEF Chunk, RankShard

(* param.narrow(offset, size).copy_(tensor) fills that range and leaves the  *)
(* rest.                                                                   *)
LEMMA CopyFills ==
    ASSUME NEW offset \in Nat, NEW size \in Nat, NEW m \in Nat, offset + size <= m,
           NEW param, DOMAIN param = Indices(m),
           NEW tensor, DOMAIN tensor = Indices(size)
    PROVE  /\ DOMAIN CopyInto(param, offset, tensor) = Indices(m)
           /\ \A j \in Indices(size) : CopyInto(param, offset, tensor)[offset + j] = tensor[j]
           /\ \A i \in Indices(m) :
                i < offset \/ i >= offset + size => CopyInto(param, offset, tensor)[i] = param[i]
<1>1. DOMAIN CopyInto(param, offset, tensor) = Indices(m)
  BY DEF CopyInto
<1>2. ASSUME NEW j \in Indices(size)
      PROVE  CopyInto(param, offset, tensor)[offset + j] = tensor[j]
  <2>1. offset + j \in DOMAIN param /\ (offset + j) - offset = j
    BY DEF Indices
  <2> QED  BY <2>1 DEF CopyInto
<1>3. ASSUME NEW i \in Indices(m), i < offset \/ i >= offset + size
      PROVE  CopyInto(param, offset, tensor)[i] = param[i]
  <2>1. i - offset \notin DOMAIN tensor
    BY <1>3 DEF Indices
  <2> QED  BY <2>1 DEF CopyInto
<1> QED  BY <1>1, <1>2, <1>3

(* Where the shard of a packed tensor lies in the parameter of a rank.       *)
PartOffset(hf, tp, module) ==
    CASE module = "q_proj" -> 0
      [] module = "k_proj" -> QSize(hf, tp)
      [] module = "v_proj" -> QSize(hf, tp) + KvSize(hf, tp)
      [] module = "gate_proj" -> 0
      [] module = "up_proj" -> Columns(hf, tp)
PartSize(hf, tp, module) ==
    CASE module = "q_proj" -> QSize(hf, tp)
      [] module \in {"k_proj", "v_proj"} -> KvSize(hf, tp)
      [] module \in {"gate_proj", "up_proj"} -> Columns(hf, tp)
PartsOf(merged) ==
    IF merged = "qkv_proj" THEN {"q_proj", "k_proj", "v_proj"} ELSE {"gate_proj", "up_proj"}
MergedSize(hf, tp, merged) ==
    IF merged = "qkv_proj" THEN QSize(hf, tp) + (2 * KvSize(hf, tp)) ELSE 2 * Columns(hf, tp)

(* The shard of a packed tensor is in its place.                            *)
Placed(hf, tp, rank, layer, module, param) ==
    \A j \in Indices(PartSize(hf, tp, module)) :
        param[PartOffset(hf, tp, module) + j] =
            <<<<layer, module>>, (rank * PartSize(hf, tp, module)) + j>>

(* The parts of a merged parameter lie in it one after the other.            *)
LEMMA PartsDisjoint ==
    ASSUME NEW hf, NEW tp, Shape(hf, tp), NEW merged \in {"qkv_proj", "gate_up_proj"},
           NEW module \in PartsOf(merged), NEW other \in PartsOf(merged)
    PROVE  /\ PartOffset(hf, tp, module) \in Nat /\ PartSize(hf, tp, module) \in Nat
           /\ MergedSize(hf, tp, merged) \in Nat
           /\ PartOffset(hf, tp, module) + PartSize(hf, tp, module) <= MergedSize(hf, tp, merged)
           /\ other # module =>
                \/ PartOffset(hf, tp, other) + PartSize(hf, tp, other) <= PartOffset(hf, tp, module)
                \/ PartOffset(hf, tp, other) >= PartOffset(hf, tp, module) + PartSize(hf, tp, module)
<1>1. QSize(hf, tp) \in Nat /\ KvSize(hf, tp) \in Nat /\ Columns(hf, tp) \in Nat
  BY Parts
<1>2. CASE merged = "qkv_proj"
  BY <1>1, <1>2 DEF PartsOf, PartOffset, PartSize, MergedSize
<1>3. CASE merged = "gate_up_proj"
  BY <1>1, <1>3 DEF PartsOf, PartOffset, PartSize, MergedSize
<1> QED  BY <1>2, <1>3

(* The parameter a packed tensor is loaded into has room for its parts.      *)
LEMMA MergedParamSize ==
    ASSUME NEW hf, NEW tp, Shape(hf, tp), NEW layer,
           NEW merged \in {"qkv_proj", "gate_up_proj"}
    PROVE  ParamSize(hf, tp, <<layer, merged>>) = MergedSize(hf, tp, merged)
<1>1. /\ tp \in Nat \ {0} /\ QSize(hf, tp) \in Nat /\ KvSize(hf, tp) \in Nat
      /\ Columns(hf, tp) \in Nat
      /\ hf.heads = tp * QSize(hf, tp) /\ hf.kv_heads = tp * KvSize(hf, tp)
      /\ hf.inter = tp * Columns(hf, tp)
  BY Parts DEF Shape
<1>2. ASSUME NEW n \in Nat PROVE (tp * n) \div tp = n
  BY <1>1, MultipleMod
<1>3. CASE merged = "qkv_proj"
  <2> DEFINE n == QSize(hf, tp) + (2 * KvSize(hf, tp))
  <2>1. hf.heads + 2 * hf.kv_heads = tp * n /\ n \in Nat
    BY <1>1
  <2> HIDE DEF n
  <2>2. (hf.heads + 2 * hf.kv_heads) \div tp = n
    BY <1>2, <2>1
  <2> QED  BY <1>3, <2>2 DEF n, ParamSize, MergedSize
<1>4. CASE merged = "gate_up_proj"
  <2> DEFINE n == 2 * Columns(hf, tp)
  <2>1. 2 * hf.inter = tp * n /\ n \in Nat
    BY <1>1
  <2> HIDE DEF n
  <2>2. (2 * hf.inter) \div tp = n
    BY <1>2, <2>1
  <2> QED  BY <1>4, <2>2 DEF n, ParamSize, MergedSize
<1> QED  BY <1>3, <1>4

(* What the two weight_loaders do with the tensor of a part.                *)
LEMMA LoadedPart ==
    ASSUME NEW hf, NEW tp, Shape(hf, tp), NEW rank \in Indices(tp), NEW layer, NEW param,
           NEW merged \in {"qkv_proj", "gate_up_proj"}, NEW module \in PartsOf(merged)
    PROVE  Loaded(hf, tp, rank, param, <<layer, module>>) =
                CopyInto(param, PartOffset(hf, tp, module),
                         Chunk(Tensor(hf, <<layer, module>>), tp, rank))
<1>1. CASE merged = "qkv_proj"
  <2>1. CASE module = "q_proj"
    BY <2>1 DEF Loaded, Target, Packed, QkvOffset, PartOffset
  <2>2. CASE module = "k_proj"
    BY <2>2 DEF Loaded, Target, Packed, QkvOffset, PartOffset, QSize
  <2>3. CASE module = "v_proj"
    BY <2>3 DEF Loaded, Target, Packed, QkvOffset, PartOffset, QSize, KvSize
  <2> QED  BY <1>1, <2>1, <2>2, <2>3 DEF PartsOf
<1>2. CASE merged = "gate_up_proj"
  <2>1. CASE module = "gate_proj"
    BY <2>1 DEF Loaded, Target, Packed, MergedOffset, PartOffset
  <2>2. CASE module = "up_proj"
    BY <2>2 DEF Loaded, Target, Packed, MergedOffset, PartOffset, Columns
  <2> QED  BY <1>2, <2>1, <2>2 DEF PartsOf
<1> QED  BY <1>1, <1>2

(* The shard of a rank of a packed tensor.                                  *)
LEMMA ShardOfPart ==
    ASSUME NEW hf, NEW tp, Shape(hf, tp), NEW rank \in Indices(tp), NEW layer,
           NEW merged \in {"qkv_proj", "gate_up_proj"}, NEW module \in PartsOf(merged)
    PROVE  LET size == PartSize(hf, tp, module)
           IN  Chunk(Tensor(hf, <<layer, module>>), tp, rank) =
                    [j \in Indices(size) |-> <<<<layer, module>>, (rank * size) + j>>]
<1> DEFINE size == PartSize(hf, tp, module)
           tensor == Tensor(hf, <<layer, module>>)
<1>1. tp \in Nat \ {0} /\ size \in Nat /\ TensorSize(hf, <<layer, module>>) = tp * size
  <2>1. /\ QSize(hf, tp) \in Nat /\ hf.heads = tp * QSize(hf, tp)
        /\ KvSize(hf, tp) \in Nat /\ hf.kv_heads = tp * KvSize(hf, tp)
        /\ Columns(hf, tp) \in Nat /\ hf.inter = tp * Columns(hf, tp)
    BY Parts
  <2>2. module \in {"q_proj", "k_proj", "v_proj", "gate_proj", "up_proj"}
    BY DEF PartsOf
  <2> QED  BY <2>1, <2>2 DEF Shape, TensorSize, PartSize
<1>2. tensor = [i \in Indices(tp * size) |-> <<<<layer, module>>, i>>]
  <2>1. module # "lm_head"
    BY DEF PartsOf
  <2> HIDE DEF size
  <2> QED  BY <1>1, <2>1 DEF Tensor
<1> HIDE DEF size, tensor
<1>3. Chunk(tensor, tp, rank) = RankShard(tensor, size, rank)
  BY <1>1, <1>2, ChunkIsShard
<1>4. ASSUME NEW j \in Indices(size)
      PROVE  tensor[(rank * size) + j] = <<<<layer, module>>, (rank * size) + j>>
  <2>1. (rank * size) + j \in Indices(tp * size)
    BY <1>1, BlockIndex DEF Indices
  <2> QED  BY <1>2, <2>1
<1>5. RankShard(tensor, size, rank) =
        [j \in Indices(size) |-> <<<<layer, module>>, (rank * size) + j>>]
  BY <1>4 DEF RankShard, Narrow
<1> QED  BY <1>3, <1>5 DEF size, tensor

(* Loading a packed tensor puts the shard of the rank in its place and       *)
(* disturbs no other shard that is already there: whatever the order in     *)
(* which the checkpoint holds q, k, v, gate and up, and in however many     *)
(* files, the parameter ends up the same.                                  *)
THEOREM LoadPlaces ==
    ASSUME NEW hf, NEW tp, Shape(hf, tp), NEW rank \in Indices(tp), NEW layer, NEW param,
           NEW merged \in {"qkv_proj", "gate_up_proj"}, NEW module \in PartsOf(merged),
           DOMAIN param = Indices(ParamSize(hf, tp, <<layer, merged>>))
    PROVE  /\ DOMAIN Loaded(hf, tp, rank, param, <<layer, module>>) = DOMAIN param
           /\ Placed(hf, tp, rank, layer, module,
                     Loaded(hf, tp, rank, param, <<layer, module>>))
           /\ \A other \in PartsOf(merged) :
                Placed(hf, tp, rank, layer, other, param) =>
                    Placed(hf, tp, rank, layer, other,
                           Loaded(hf, tp, rank, param, <<layer, module>>))
<1> DEFINE size == PartSize(hf, tp, module)
           offset == PartOffset(hf, tp, module)
           m == MergedSize(hf, tp, merged)
           shard == Chunk(Tensor(hf, <<layer, module>>), tp, rank)
           new == CopyInto(param, offset, shard)
<1>1. Loaded(hf, tp, rank, param, <<layer, module>>) = new
  BY LoadedPart
<1>2. shard = [j \in Indices(size) |-> <<<<layer, module>>, (rank * size) + j>>]
  BY ShardOfPart
<1>3. offset \in Nat /\ size \in Nat /\ m \in Nat /\ offset + size <= m
  BY PartsDisjoint
<1>4. DOMAIN param = Indices(m)
  BY MergedParamSize
<1> HIDE DEF size, offset, m, shard
<1>5. /\ DOMAIN new = Indices(m)
      /\ \A j \in Indices(size) : new[offset + j] = shard[j]
      /\ \A i \in Indices(m) : i < offset \/ i >= offset + size => new[i] = param[i]
  BY <1>2, <1>3, <1>4, CopyFills
<1> HIDE DEF new
<1>6. Placed(hf, tp, rank, layer, module, new)
  BY <1>2, <1>5 DEF Placed, size, offset
<1>7. ASSUME NEW other \in PartsOf(merged), Placed(hf, tp, rank, layer, other, param)
      PROVE  Placed(hf, tp, rank, layer, other, new)
  <2>1. CASE other = module
    BY <1>6, <2>1
  <2>2. CASE other # module
    <3> DEFINE osize == PartSize(hf, tp, other)
               ooffset == PartOffset(hf, tp, other)
    <3>1. /\ ooffset \in Nat /\ osize \in Nat /\ ooffset + osize <= m
          /\ ooffset + osize <= offset \/ ooffset >= offset + size
      BY <2>2, PartsDisjoint DEF m, offset, size
    <3>2. \A j \in Indices(osize) :
            param[ooffset + j] = <<<<layer, other>>, (rank * osize) + j>>
      BY <1>7 DEF Placed
    <3> HIDE DEF osize, ooffset
    <3>3. ASSUME NEW j \in Indices(osize)
          PROVE  new[ooffset + j] = param[ooffset + j]
      <4>1. /\ ooffset + j \in Indices(m)
            /\ ooffset + j < offset \/ ooffset + j >= offset + size
        BY <1>3, <3>1 DEF Indices
      <4> QED  BY <1>5, <4>1
    <3>4. \A j \in Indices(osize) :
            new[ooffset + j] = <<<<layer, other>>, (rank * osize) + j>>
      BY <3>2, <3>3
    <3> QED  BY <3>4 DEF Placed, osize, ooffset
  <2> QED  BY <2>1, <2>2
<1> QED  BY <1>1, <1>4, <1>5, <1>6, <1>7

(* With all its parts in place, qkv_proj is what the attention of the rank   *)
(* needs.                                                                  *)
THEOREM PlacedIsLoaded ==
    ASSUME NEW hf, NEW tp, NEW rank, NEW layer, NEW param, Shape(hf, tp),
           \A module \in PartsOf("qkv_proj") : Placed(hf, tp, rank, layer, module, param)
    PROVE  QkvLoaded(hf, tp, rank, layer, param)
<1>1. QSize(hf, tp) \in Nat /\ KvSize(hf, tp) \in Nat
  BY Parts
<1>2. /\ Placed(hf, tp, rank, layer, "q_proj", param)
      /\ Placed(hf, tp, rank, layer, "k_proj", param)
      /\ Placed(hf, tp, rank, layer, "v_proj", param)
  BY DEF PartsOf
<1>3. \A j \in Indices(QSize(hf, tp)) :
        param[j] = <<<<layer, "q_proj">>, (rank * QSize(hf, tp)) + j>>
  <2>1. \A j \in Indices(QSize(hf, tp)) : 0 + j = j
    BY <1>1 DEF Indices
  <2> QED  BY <1>2, <2>1 DEF Placed, PartOffset, PartSize
<1>4. \A j \in Indices(KvSize(hf, tp)) :
        param[QSize(hf, tp) + j] = <<<<layer, "k_proj">>, (rank * KvSize(hf, tp)) + j>>
  BY <1>2 DEF Placed, PartOffset, PartSize
<1>5. \A j \in Indices(KvSize(hf, tp)) :
        param[QSize(hf, tp) + KvSize(hf, tp) + j] =
            <<<<layer, "v_proj">>, (rank * KvSize(hf, tp)) + j>>
  BY <1>2 DEF Placed, PartOffset, PartSize
<1> QED  BY <1>3, <1>4, <1>5 DEF QkvLoaded
=============================================================================
