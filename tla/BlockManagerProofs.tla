-------------------------- MODULE BlockManagerProofs --------------------------
(***************************************************************************)
(* For every number of requests and blocks, every block size, and every     *)
(* hash function, however it collides:                                     *)
(*   the bookkeeping: no block is lost, and none is lent twice by mistake;  *)
(*   prefix reuse is sound: a block table names only blocks that store the  *)
(*   request's own prefix, the block manager implements PageCache, its      *)
(*   assertions never fire, and no reference outlives what it refers to.    *)
(***************************************************************************)
EXTENDS BlockManager, TLAPS, FiniteSetTheorems, WellFoundedInduction

-----------------------------------------------------------------------------
(* Arithmetic                                                              *)

LEMMA DivFacts ==
    ASSUME NEW n \in Nat, NEW d \in Nat \ {0}
    PROVE  n \div d \in Nat /\ (n \div d) * d <= n /\ n < (n \div d) * d + d
OBVIOUS

LEMMA MulFacts ==
    ASSUME NEW a \in Nat, NEW b \in Nat, NEW d \in Nat \ {0}
    PROVE  /\ a <= b => a * d <= b * d
           /\ a < b => a * d + d <= b * d
           /\ a * d \in Nat /\ a <= a * d
           /\ (a + b) * d = a * d + b * d
<1>1. a <= b => a * d <= b * d
  OBVIOUS
<1>2. a < b => a * d + d <= b * d
  OBVIOUS
<1>3. a * d \in Nat /\ a <= a * d
  OBVIOUS
<1>4. (a + b) * d = a * d + b * d
  OBVIOUS
<1>. QED
  BY <1>1, <1>2, <1>3, <1>4

(* How many blocks of size d hold n tokens.                                 *)
LEMMA CeilDivFacts ==
    ASSUME NEW n \in Nat, NEW k \in Nat, NEW d \in Nat \ {0}
    PROVE  /\ CeilDiv(n, d) \in Nat
           /\ k < CeilDiv(n, d) => k * d < n
           /\ k * d <= n => k <= CeilDiv(n, d)
<1>1. /\ CeilDiv(n, d) \in Nat /\ CeilDiv(n, d) * d <= n + d - 1
      /\ n + d - 1 < CeilDiv(n, d) * d + d
  BY DivFacts DEF CeilDiv
<1>2. /\ k < CeilDiv(n, d) => k * d + d <= CeilDiv(n, d) * d
      /\ CeilDiv(n, d) < k => CeilDiv(n, d) * d + d <= k * d
      /\ k * d \in Nat /\ CeilDiv(n, d) * d \in Nat
  BY <1>1, MulFacts
<1>. QED
  BY <1>1, <1>2

(* A bounded set of numbers has a largest member.                           *)
LEMMA MaxExists ==
    ASSUME NEW S, S \subseteq Nat, S # {}, NEW B \in Nat, \A x \in S : x <= B
    PROVE  \E m \in S : \A x \in S : x <= m
<1> DEFINE T == {n \in Nat : n <= B /\ B - n \in S}
<1>1. IsWellFoundedOn(OpToRel(<, Nat), Nat)
  BY NatLessThanWellFounded
<1>2. T # {}
  <2>1. PICK x \in S : TRUE
    OBVIOUS
  <2>2. B - x \in T
    BY <2>1
  <2>. QED
    BY <2>2
<1>3. \E x \in T : \A y \in T : ~(<<y, x>> \in OpToRel(<, Nat))
  BY <1>1, <1>2, WFMin
<1>4. PICK n \in T : \A y \in T : ~(y < n)
  BY <1>3 DEF OpToRel
<1>5. B - n \in S /\ \A x \in S : x <= B - n
  <2>1. SUFFICES ASSUME NEW x \in S, x > B - n PROVE FALSE
    OBVIOUS
  <2>2. B - x \in T /\ B - x < n
    BY <2>1
  <2>. QED
    BY <2>2, <1>4
<1>. QED
  BY <1>5

-----------------------------------------------------------------------------
(* Sequences without repetition                                            *)

WithoutAt(q, at) == SubSeq(q, 1, at - 1) \o SubSeq(q, at + 1, Len(q))

LEMMA WithoutAtFacts ==
  ASSUME NEW S, NEW q \in Seq(S), NEW at \in 1 .. Len(q), IsInjective(q)
  PROVE /\ WithoutAt(q, at) \in Seq(S)
        /\ IsInjective(WithoutAt(q, at))
        /\ Range(WithoutAt(q, at)) = Range(q) \ {q[at]}
<1> DEFINE r == WithoutAt(q, at)
<1> DEFINE a == SubSeq(q, 1, at - 1)
           b == SubSeq(q, at + 1, Len(q))
<1>a. /\ a \in Seq(S) /\ Len(a) = at - 1 /\ \A i \in 1 .. at - 1 : a[i] = q[i]
      /\ b \in Seq(S) /\ Len(b) = Len(q) - at /\ \A i \in 1 .. Len(q) - at : b[i] = q[at + i]
  OBVIOUS
<1>b. r = a \o b
  BY DEF WithoutAt
<1>. HIDE DEF r, a, b
<1>1. r \in Seq(S) /\ Len(r) = Len(q) - 1
  BY <1>a, <1>b
<1>2. \A i \in 1 .. Len(q) - 1 : r[i] = IF i < at THEN q[i] ELSE q[i + 1]
  <2>1. ASSUME NEW i \in 1 .. Len(q) - 1, i < at PROVE r[i] = q[i]
    BY <1>a, <1>b, <2>1
  <2>2. ASSUME NEW i \in 1 .. Len(q) - 1, ~(i < at) PROVE r[i] = q[i + 1]
    <3>1. i - (at - 1) \in 1 .. Len(q) - at /\ at + (i - (at - 1)) = i + 1
      BY <2>2
    <3>2. r[i] = b[i - (at - 1)]
      BY <1>a, <1>b, <2>2
    <3>. QED
      BY <1>a, <3>1, <3>2
  <2>. QED
      BY <2>1, <2>2
<1>3. DOMAIN r = 1 .. Len(q) - 1 /\ DOMAIN q = 1 .. Len(q)
  BY <1>1
<1>4. IsInjective(r)
  <2>1. ASSUME NEW i \in 1 .. Len(q) - 1, NEW j \in 1 .. Len(q) - 1, r[i] = r[j]
        PROVE  i = j
    <3>1. PICK x \in 1 .. Len(q) : x = (IF i < at THEN i ELSE i + 1) /\ r[i] = q[x]
      BY <1>2
    <3>2. PICK y \in 1 .. Len(q) : y = (IF j < at THEN j ELSE j + 1) /\ r[j] = q[y]
      BY <1>2
    <3>3. x = y
      BY <2>1, <3>1, <3>2, <1>3 DEF IsInjective
    <3>. QED
      BY <3>1, <3>2, <3>3
  <2>. QED
    BY <2>1, <1>3 DEF IsInjective
<1>5. ASSUME NEW x PROVE x \in Range(r) <=> x \in Range(q) \ {q[at]}
  <2>1. ASSUME x \in Range(r) PROVE x \in Range(q) \ {q[at]}
    <3>1. PICK i \in 1 .. Len(q) - 1 : x = r[i]
      BY <2>1, <1>3 DEF Range
    <3>2. PICK j \in 1 .. Len(q) : j # at /\ x = q[j]
      BY <3>1, <1>2
    <3>. QED
      BY <3>2, <1>3 DEF Range, IsInjective
  <2>2. ASSUME x \in Range(q) \ {q[at]} PROVE x \in Range(r)
    <3>1. PICK j \in 1 .. Len(q) : j # at /\ x = q[j]
      BY <2>2, <1>3 DEF Range
    <3>2. CASE j < at
      BY <3>1, <3>2, <1>2, <1>3 DEF Range
    <3>3. CASE j > at
      <4>1. j - 1 \in 1 .. Len(q) - 1 /\ r[j - 1] = q[j]
        BY <3>1, <3>3, <1>2
      <4>. QED
      BY <4>1, <3>1, <1>3 DEF Range
    <3>. QED
      BY <3>1, <3>2, <3>3
  <2>. QED
      BY <2>1, <2>2
<1>. QED
  BY <1>1, <1>4, <1>5 DEF r

LEMMA AppendFacts ==
    ASSUME NEW S, NEW q \in Seq(S), NEW x \in S
    PROVE  /\ Append(q, x) \in Seq(S) /\ Len(Append(q, x)) = Len(q) + 1
           /\ Range(Append(q, x)) = Range(q) \cup {x}
           /\ IsInjective(q) /\ x \notin Range(q) => IsInjective(Append(q, x))
<1> DEFINE r == Append(q, x)
<1>1. /\ r \in Seq(S) /\ Len(r) = Len(q) + 1 /\ r[Len(q) + 1] = x
      /\ \A i \in 1 .. Len(q) : r[i] = q[i]
      /\ DOMAIN r = 1 .. Len(q) + 1 /\ DOMAIN q = 1 .. Len(q)
  OBVIOUS
<1>. HIDE DEF r
<1>2. Range(r) = Range(q) \cup {x}
  BY <1>1 DEF Range
<1>3. IsInjective(q) /\ x \notin Range(q) => IsInjective(r)
  BY <1>1 DEF Range, IsInjective
<1>. QED
  BY <1>1, <1>2, <1>3 DEF r

DropLast(q) == SubSeq(q, 1, Len(q) - 1)

LEMMA DropLastFacts ==
    ASSUME NEW S, NEW q \in Seq(S), q # <<>>, IsInjective(q)
    PROVE  /\ q[Len(q)] \in S /\ q[Len(q)] \in Range(q)
           /\ DropLast(q) \in Seq(S) /\ Len(DropLast(q)) = Len(q) - 1
           /\ IsInjective(DropLast(q)) /\ Range(DropLast(q)) = Range(q) \ {q[Len(q)]}
<1> DEFINE r == DropLast(q)
<1>a. Len(q) \in Nat /\ Len(q) >= 1 /\ DOMAIN q = 1 .. Len(q)
  OBVIOUS
<1>b. r \in Seq(S) /\ Len(r) = Len(q) - 1 /\ \A i \in 1 .. Len(q) - 1 : r[i] = q[i]
  BY <1>a DEF DropLast
<1>. HIDE DEF r
<1>1. /\ r \in Seq(S) /\ Len(r) = Len(q) - 1 /\ \A i \in 1 .. Len(q) - 1 : r[i] = q[i]
      /\ DOMAIN r = 1 .. Len(q) - 1 /\ DOMAIN q = 1 .. Len(q) /\ Len(q) \in 1 .. Len(q)
  BY <1>a, <1>b
<1>2. IsInjective(r)
  BY <1>1 DEF IsInjective
<1>3. Range(r) = Range(q) \ {q[Len(q)]}
  BY <1>1 DEF Range, IsInjective
<1>4. q[Len(q)] \in S /\ q[Len(q)] \in Range(q)
  BY <1>1 DEF Range
<1>. QED
  BY <1>1, <1>2, <1>3, <1>4 DEF r

LEMMA TailFacts ==
    ASSUME NEW S, NEW q \in Seq(S), q # <<>>, IsInjective(q)
    PROVE  /\ Head(q) \in S /\ Head(q) \in Range(q)
           /\ Tail(q) \in Seq(S) /\ Len(Tail(q)) = Len(q) - 1 /\ Len(q) >= 1
           /\ IsInjective(Tail(q)) /\ Range(Tail(q)) \subseteq Range(q) \ {Head(q)}
<1> DEFINE r == Tail(q)
<1>1. Len(q) \in Nat /\ Len(q) >= 1 /\ DOMAIN q = 1 .. Len(q) /\ Head(q) = q[1]
  OBVIOUS
<1>2. r \in Seq(S) /\ Len(r) = Len(q) - 1 /\ \A i \in 1 .. Len(q) - 1 : r[i] = q[i + 1]
  OBVIOUS
<1>3. Head(q) \in S /\ Head(q) \in Range(q)
  BY <1>1 DEF Range
<1>. HIDE DEF r
<1>4. DOMAIN r = 1 .. Len(q) - 1
  BY <1>1, <1>2
<1>5. IsInjective(r)
  <2>1. ASSUME NEW i \in 1 .. Len(q) - 1, NEW j \in 1 .. Len(q) - 1, r[i] = r[j]
        PROVE  i = j
    <3>1. i + 1 \in DOMAIN q /\ j + 1 \in DOMAIN q /\ q[i + 1] = q[j + 1]
      BY <1>1, <1>2, <2>1
    <3>2. i + 1 = j + 1
      BY <3>1 DEF IsInjective
    <3>. QED
      BY <3>2
  <2>. QED
    BY <1>4, <2>1 DEF IsInjective
<1>6. Range(r) \subseteq Range(q) \ {Head(q)}
  BY <1>1, <1>2, <1>4 DEF IsInjective, Range
<1>. QED
  BY <1>1, <1>2, <1>3, <1>5, <1>6 DEF r

LEMMA PrefixFacts ==
    ASSUME NEW S, NEW q \in Seq(S), NEW n \in 0 .. Len(q)
    PROVE  /\ SubSeq(q, 1, n) \in Seq(S) /\ Len(SubSeq(q, 1, n)) = n
           /\ Range(SubSeq(q, 1, n)) \subseteq Range(q)
           /\ IsInjective(q) => IsInjective(SubSeq(q, 1, n))
<1> DEFINE r == SubSeq(q, 1, n)
<1>1. /\ r \in Seq(S) /\ Len(r) = n /\ \A i \in 1 .. n : r[i] = q[i]
  OBVIOUS
<1>. HIDE DEF r
<1>2. DOMAIN r = 1 .. n /\ DOMAIN q = 1 .. Len(q) /\ n <= Len(q)
  BY <1>1
<1>3. Range(r) \subseteq Range(q) /\ (IsInjective(q) => IsInjective(r))
  BY <1>1, <1>2 DEF Range, IsInjective
<1>. QED
  BY <1>1, <1>3 DEF r

-----------------------------------------------------------------------------
(* The invariant                                                           *)

(* The tokens that are computed and scheduled are tokens of the request; a   *)
(* plan in progress names blocks the request does not hold, each once, and  *)
(* stays within its tokens; there is something to release.                  *)
CommittedInv == \A s \in Seqs : ContextEnd(s) <= SeqLen(s)

PlanInv ==
    call.op = "claim" =>
        /\ IsInjective(call.plan)
        /\ Range(call.plan) \cap Range(block_table[call.seq]) = {}
        /\ ContextEnd(call.seq) + Len(call.plan) * BlockSize <= SeqLen(call.seq)

ReleaseInv == call.op = "release" => block_table[call.seq] # <<>>

PoolInv == TypeOK /\ BlocksAccounted /\ CommittedInv /\ PlanInv /\ ReleaseInv

-----------------------------------------------------------------------------
(* Accounting                                                              *)

(* Growing and shrinking a block table.                                     *)
LEMMA HoldersGrow ==
    ASSUME TypeOK, BlocksAccounted, NEW s \in Seqs, NEW b \in BlockIds,
           b \notin Range(block_table[s]),
           block_table' = [block_table EXCEPT ![s] = Append(@, b)]
    PROVE  /\ block_table' \in [Seqs -> Seq(BlockIds)]
           /\ \A q \in Seqs : IsInjective(block_table'[q])
           /\ \A c \in BlockIds \ {b} : Holders(c)' = Holders(c)
           /\ Holders(b)' = Holders(b) \cup {s}
           /\ Cardinality(Holders(b)') = Cardinality(Holders(b)) + 1
<1>1. block_table \in [Seqs -> Seq(BlockIds)] /\ \A q \in Seqs : IsInjective(block_table[q])
  BY DEF TypeOK, BlocksAccounted
<1>2. /\ Append(block_table[s], b) \in Seq(BlockIds)
      /\ Range(Append(block_table[s], b)) = Range(block_table[s]) \cup {b}
      /\ IsInjective(Append(block_table[s], b))
  BY <1>1, AppendFacts
<1>3. /\ block_table'[s] = Append(block_table[s], b)
      /\ \A q \in Seqs \ {s} : block_table'[q] = block_table[q]
      /\ block_table' \in [Seqs -> Seq(BlockIds)]
  BY <1>1, <1>2
<1>4. \A q \in Seqs : IsInjective(block_table'[q])
  BY <1>1, <1>2, <1>3
<1>5. /\ \A c \in BlockIds \ {b} : Holders(c)' = Holders(c)
      /\ Holders(b)' = Holders(b) \cup {s} /\ s \notin Holders(b)
  BY <1>2, <1>3 DEF Holders
<1>6. IsFiniteSet(Holders(b))
  BY FS_Subset, BlockManagerAssumption DEF Holders
<1>7. Cardinality(Holders(b) \cup {s}) = Cardinality(Holders(b)) + 1
  BY <1>5, <1>6, FS_AddElement
<1>. QED
  BY <1>3, <1>4, <1>5, <1>7

LEMMA HoldersShrink ==
    ASSUME TypeOK, BlocksAccounted, NEW s \in Seqs, block_table[s] # <<>>,
           NEW b \in BlockIds, b = block_table[s][Len(block_table[s])],
           block_table' = [block_table EXCEPT ![s] = SubSeq(@, 1, Len(@) - 1)]
    PROVE  /\ block_table' \in [Seqs -> Seq(BlockIds)]
           /\ \A q \in Seqs : IsInjective(block_table'[q])
           /\ \A c \in BlockIds \ {b} : Holders(c)' = Holders(c)
           /\ Holders(b)' = Holders(b) \ {s} /\ s \in Holders(b)
           /\ Cardinality(Holders(b)') = Cardinality(Holders(b)) - 1
           /\ Cardinality(Holders(b)) = 1 <=> Holders(b) = {s}
           /\ Cardinality(Holders(b)) \in Nat
<1>1. block_table \in [Seqs -> Seq(BlockIds)] /\ \A q \in Seqs : IsInjective(block_table[q])
  BY DEF TypeOK, BlocksAccounted
<1>2. /\ DropLast(block_table[s]) \in Seq(BlockIds)
      /\ Range(DropLast(block_table[s])) = Range(block_table[s]) \ {b}
      /\ IsInjective(DropLast(block_table[s]))
      /\ b \in Range(block_table[s])
  BY <1>1, DropLastFacts
<1>3. /\ block_table'[s] = DropLast(block_table[s])
      /\ \A q \in Seqs \ {s} : block_table'[q] = block_table[q]
      /\ block_table' \in [Seqs -> Seq(BlockIds)]
  BY <1>1, <1>2 DEF DropLast
<1>4. \A q \in Seqs : IsInjective(block_table'[q])
  BY <1>1, <1>2, <1>3
<1>5. /\ \A c \in BlockIds \ {b} : Holders(c)' = Holders(c)
      /\ Holders(b)' = Holders(b) \ {s} /\ s \in Holders(b)
  BY <1>2, <1>3 DEF Holders
<1>6. IsFiniteSet(Holders(b))
  BY FS_Subset, BlockManagerAssumption DEF Holders
<1>7. /\ Cardinality(Holders(b) \ {s}) = Cardinality(Holders(b)) - 1
      /\ Cardinality(Holders(b)) \in Nat
  BY <1>5, <1>6, FS_RemoveElement, FS_CardinalityType
<1>8. Cardinality(Holders(b)) = 1 <=> Holders(b) = {s}
  <2>1. IsFiniteSet(Holders(b) \ {s})
    BY <1>6, FS_RemoveElement
  <2>2. Cardinality(Holders(b) \ {s}) = 0 <=> Holders(b) \ {s} = {}
    BY <2>1, FS_EmptySet
  <2>. QED
    BY <1>5, <1>7, <2>2
<1>. QED
  BY <1>2, <1>3, <1>4, <1>5, <1>7, <1>8

(* A queue without a member of it.                                          *)
LEMMA RemovedFacts ==
    ASSUME NEW S, NEW q \in Seq(S), IsInjective(q), NEW x \in Range(q)
    PROVE  /\ Removed(q, x) \in Seq(S) /\ IsInjective(Removed(q, x))
           /\ Range(Removed(q, x)) = Range(q) \ {x}
           /\ Len(Removed(q, x)) = Len(q) - 1
<1> DEFINE at == CHOOSE i \in 1 .. Len(q) : q[i] = x
<1>1. \E i \in 1 .. Len(q) : q[i] = x
  BY DEF Range
<1>2. at \in 1 .. Len(q) /\ q[at] = x
  BY <1>1
<1>3. Removed(q, x) = WithoutAt(q, at)
  BY DEF Removed, WithoutAt
<1>. HIDE DEF at
<1>4. Len(WithoutAt(q, at)) = Len(q) - 1
  <2> DEFINE head == SubSeq(q, 1, at - 1)
             tail == SubSeq(q, at + 1, Len(q))
  <2>1. WithoutAt(q, at) = head \o tail
    BY DEF WithoutAt
  <2>2. /\ head \in Seq(S) /\ Len(head) = at - 1
        /\ tail \in Seq(S) /\ Len(tail) = Len(q) - at
    BY <1>2
  <2>. HIDE DEF head, tail
  <2>3. Len(head \o tail) = Len(head) + Len(tail)
    BY <2>2
  <2>. QED
    BY <1>2, <2>1, <2>2, <2>3
<1>. QED
  BY <1>2, <1>3, <1>4, WithoutAtFacts

LEMMA RemoveFreeFacts ==
    ASSUME TypeOK, BlocksAccounted, NEW b \in BlockIds, IsFree(b)
    PROVE  /\ RemoveFree(b) \in Seq(BlockIds) /\ IsInjective(RemoveFree(b))
           /\ Range(RemoveFree(b)) = Range(free_block_ids) \ {b}
BY RemovedFacts DEF RemoveFree, TypeOK, BlocksAccounted, IsFree

(* Request s takes the free block b.                                        *)
LEMMA AccountTaken ==
    ASSUME TypeOK, BlocksAccounted, NEW s \in Seqs, NEW b \in BlockIds,
           IsFree(b), TakeFree(b),
           block_table' = [block_table EXCEPT ![s] = Append(@, b)],
           blocks'[b].ref_count = 1,
           \A c \in BlockIds \ {b} : blocks'[c].ref_count = blocks[c].ref_count
    PROVE  /\ BlocksAccounted'
           /\ block_table' \in [Seqs -> Seq(BlockIds)]
           /\ free_block_ids' \in Seq(BlockIds) /\ used_block_ids' \subseteq BlockIds
<1>1. Holders(b) = {} /\ blocks[b].ref_count = 0 /\ Cardinality(Holders(b)) = 0
  BY FS_EmptySet DEF BlocksAccounted
<1>2. b \notin Range(block_table[s])
  BY <1>1 DEF Holders
<1>3. /\ block_table' \in [Seqs -> Seq(BlockIds)]
      /\ \A q \in Seqs : IsInjective(block_table'[q])
      /\ \A c \in BlockIds \ {b} : Holders(c)' = Holders(c)
      /\ Holders(b)' = Holders(b) \cup {s}
      /\ Cardinality(Holders(b)') = Cardinality(Holders(b)) + 1
  BY <1>2, HoldersGrow
<1>4. /\ free_block_ids' \in Seq(BlockIds) /\ IsInjective(free_block_ids')
      /\ Range(free_block_ids') = Range(free_block_ids) \ {b}
      /\ used_block_ids' = used_block_ids \cup {b}
  BY RemoveFreeFacts DEF TakeFree
<1>5. used_block_ids' = BlockIds \ Range(free_block_ids')
  BY <1>4 DEF BlocksAccounted
<1>6. ASSUME NEW c \in BlockIds
      PROVE  /\ blocks'[c].ref_count = Cardinality(Holders(c)')
             /\ c \in Range(free_block_ids') <=> Holders(c)' = {}
  <2>1. CASE c = b
    <3>1. blocks'[b].ref_count = Cardinality(Holders(b)')
      BY <1>1, <1>3
    <3>2. b \notin Range(free_block_ids') /\ Holders(b)' # {}
      BY <1>3, <1>4
    <3>. QED
      BY <2>1, <3>1, <3>2
  <2>2. CASE c # b
    BY <1>3, <1>4, <2>2 DEF BlocksAccounted, IsFree
  <2>. QED
    BY <2>1, <2>2
<1>. QED
  BY <1>3, <1>4, <1>5, <1>6 DEF BlocksAccounted, IsFree

(* Request s shares the block b with its holders.                           *)
LEMMA AccountShared ==
    ASSUME TypeOK, BlocksAccounted, NEW s \in Seqs, NEW b \in BlockIds,
           ~IsFree(b), b \notin Range(block_table[s]),
           UNCHANGED <<free_block_ids, used_block_ids>>,
           block_table' = [block_table EXCEPT ![s] = Append(@, b)],
           blocks'[b].ref_count = blocks[b].ref_count + 1,
           \A c \in BlockIds \ {b} : blocks'[c].ref_count = blocks[c].ref_count
    PROVE  BlocksAccounted' /\ block_table' \in [Seqs -> Seq(BlockIds)]
<1>1. /\ block_table' \in [Seqs -> Seq(BlockIds)]
      /\ \A q \in Seqs : IsInjective(block_table'[q])
      /\ \A c \in BlockIds \ {b} : Holders(c)' = Holders(c)
      /\ Holders(b)' = Holders(b) \cup {s}
      /\ Cardinality(Holders(b)') = Cardinality(Holders(b)) + 1
  BY HoldersGrow
<1>2. ASSUME NEW c \in BlockIds
      PROVE  /\ blocks'[c].ref_count = Cardinality(Holders(c)')
             /\ c \in Range(free_block_ids') <=> Holders(c)' = {}
  <2>1. CASE c = b
    BY <1>1, <2>1 DEF BlocksAccounted, IsFree
  <2>2. CASE c # b
    BY <1>1, <2>2 DEF BlocksAccounted, IsFree
  <2>. QED
    BY <2>1, <2>2
<1>. QED
  BY <1>1, <1>2 DEF BlocksAccounted, IsFree

(* Request s gives back the last block of its table.                        *)
LEMMA AccountReleased ==
    ASSUME TypeOK, BlocksAccounted, NEW s \in Seqs, block_table[s] # <<>>,
           NEW b \in BlockIds, b = block_table[s][Len(block_table[s])],
           block_table' = [block_table EXCEPT ![s] = SubSeq(@, 1, Len(@) - 1)],
           blocks'[b].ref_count = blocks[b].ref_count - 1,
           \A c \in BlockIds \ {b} : blocks'[c].ref_count = blocks[c].ref_count,
           IF blocks[b].ref_count = 1
             THEN /\ used_block_ids' = used_block_ids \ {b}
                  /\ free_block_ids' = Append(free_block_ids, b)
             ELSE UNCHANGED <<used_block_ids, free_block_ids>>
    PROVE  /\ BlocksAccounted' /\ blocks'[b].ref_count \in Nat
           /\ block_table' \in [Seqs -> Seq(BlockIds)]
           /\ free_block_ids' \in Seq(BlockIds) /\ used_block_ids' \subseteq BlockIds
<1>1. /\ block_table' \in [Seqs -> Seq(BlockIds)]
      /\ \A q \in Seqs : IsInjective(block_table'[q])
      /\ \A c \in BlockIds \ {b} : Holders(c)' = Holders(c)
      /\ Holders(b)' = Holders(b) \ {s} /\ s \in Holders(b)
      /\ Cardinality(Holders(b)') = Cardinality(Holders(b)) - 1
      /\ Cardinality(Holders(b)) = 1 <=> Holders(b) = {s}
      /\ Cardinality(Holders(b)) \in Nat
  BY HoldersShrink
<1>2. /\ free_block_ids \in Seq(BlockIds) /\ IsInjective(free_block_ids)
      /\ used_block_ids = BlockIds \ Range(free_block_ids)
      /\ blocks[b].ref_count = Cardinality(Holders(b)) /\ b \notin Range(free_block_ids)
  BY <1>1 DEF TypeOK, BlocksAccounted, IsFree
<1>3. Cardinality(Holders(b)) # 0
  BY <1>1, FS_EmptySet, FS_Subset, BlockManagerAssumption DEF Holders
<1>4. CASE blocks[b].ref_count = 1
  <2>1. /\ free_block_ids' \in Seq(BlockIds) /\ IsInjective(free_block_ids')
        /\ Range(free_block_ids') = Range(free_block_ids) \cup {b}
    <3>1. free_block_ids' = Append(free_block_ids, b)
      BY <1>4
    <3>. QED
      BY <1>2, <3>1, AppendFacts
  <2>2. used_block_ids' = BlockIds \ Range(free_block_ids')
    BY <1>2, <1>4, <2>1
  <2>3. ASSUME NEW c \in BlockIds
        PROVE  /\ blocks'[c].ref_count = Cardinality(Holders(c)')
               /\ c \in Range(free_block_ids') <=> Holders(c)' = {}
    <3>1. CASE c = b
      <4>1. blocks'[b].ref_count = Cardinality(Holders(b)')
        BY <1>1, <1>2, <1>4
      <4>2. b \in Range(free_block_ids') /\ Holders(b)' = {}
        BY <1>1, <1>2, <1>4, <2>1
      <4>. QED
        BY <3>1, <4>1, <4>2
    <3>2. CASE c # b
      BY <1>1, <2>1, <3>2 DEF BlocksAccounted, IsFree
    <3>. QED
      BY <3>1, <3>2
  <2>. QED
    BY <1>1, <1>4, <2>1, <2>2, <2>3 DEF BlocksAccounted, IsFree
<1>5. CASE blocks[b].ref_count # 1
  <2>1. UNCHANGED <<used_block_ids, free_block_ids>> /\ Holders(b)' # {}
    BY <1>1, <1>2, <1>5
  <2>2. ASSUME NEW c \in BlockIds
        PROVE  /\ blocks'[c].ref_count = Cardinality(Holders(c)')
               /\ c \in Range(free_block_ids') <=> Holders(c)' = {}
    <3>1. CASE c = b
      BY <1>1, <1>2, <2>1, <3>1
    <3>2. CASE c # b
      BY <1>1, <2>1, <3>2 DEF BlocksAccounted, IsFree
    <3>. QED
      BY <3>1, <3>2
  <2>. QED
    BY <1>1, <1>2, <1>3, <2>1, <2>2 DEF BlocksAccounted, IsFree
<1>. QED
  BY <1>4, <1>5

(* Nothing is taken or given back.                                          *)
LEMMA AccountKept ==
    ASSUME BlocksAccounted, UNCHANGED <<free_block_ids, used_block_ids, block_table>>,
           \A c \in BlockIds : blocks'[c].ref_count = blocks[c].ref_count
    PROVE  BlocksAccounted'
BY DEF BlocksAccounted, IsFree, Holders

-----------------------------------------------------------------------------
(* Plans                                                                   *)

LEMMA OwnerType ==
    ASSUME TypeOK, NEW h, Owner(h) # None
    PROVE  Owner(h) \in BlockIds
BY DEF TypeOK, Owner, OwnerIn, Range

(* match_prefix names blocks the request does not hold, each once, and       *)
(* leaves at least one token to compute.                                   *)
LEMMA MatchPrefixFacts ==
    ASSUME TypeOK, CommittedInv, NEW s \in Seqs,
           num_new_tokens[s] = 0, num_cached_tokens[s] = Len(block_table[s]) * BlockSize
    PROVE  /\ MatchPrefix(s) \in Seq(BlockIds) /\ IsInjective(MatchPrefix(s))
           /\ Range(MatchPrefix(s)) \cap Range(block_table[s]) = {}
           /\ ContextEnd(s) + Len(MatchPrefix(s)) * BlockSize <= SeqLen(s)
<1> DEFINE start == Len(block_table[s])
           stop == CHOOSE k \in MatchEnds(s) : \A j \in MatchEnds(s) : j <= k
           plan == MatchPrefix(s)
<1>1. start \in Nat /\ SeqLen(s) \in Nat /\ BlockSize \in Nat \ {0}
  BY BlockManagerAssumption DEF TypeOK, SeqLen
<1>2. start * BlockSize <= SeqLen(s) /\ ContextEnd(s) = start * BlockSize
  <2>1. start * BlockSize \in Nat
    BY <1>1, MulFacts
  <2>. QED
    BY <2>1 DEF CommittedInv, ContextEnd
<1>3. start <= NumSeqBlocks(s) /\ NumSeqBlocks(s) \in Nat
  BY <1>1, <1>2, CeilDivFacts DEF NumSeqBlocks
<1>4. start \in MatchEnds(s) /\ MatchEnds(s) \subseteq start .. NumSeqBlocks(s)
  BY <1>1, <1>3 DEF MatchEnds
<1>5. \E k \in MatchEnds(s) : \A j \in MatchEnds(s) : j <= k
  <2>1. MatchEnds(s) \subseteq Nat /\ MatchEnds(s) # {}
    BY <1>1, <1>4
  <2>2. \A j \in MatchEnds(s) : j <= NumSeqBlocks(s)
    BY <1>1, <1>3, <1>4
  <2>. HIDE DEF start
  <2>. QED
    BY <1>3, <2>1, <2>2, MaxExists
<1>6. stop \in MatchEnds(s)
  BY <1>5
<1>7. plan = [i \in 1 .. stop - start |-> Candidate(s, start + i)]
  BY DEF MatchPrefix
<1>. HIDE DEF stop, plan
<1>8. stop \in start .. NumSeqBlocks(s) /\ stop - start \in Nat
  BY <1>1, <1>3, <1>4, <1>6
<1>9. ASSUME NEW i \in 1 .. stop - start
      PROVE  /\ start + i < NumSeqBlocks(s) /\ plan[i] \in BlockIds
             /\ plan[i] \notin Range(block_table[s])
             /\ \A k \in 1 .. i - 1 : plan[k] # plan[i]
  <2>1. start + i \in Len(block_table[s]) + 1 .. stop
    BY <1>1, <1>8
  <2>2. start + i < NumSeqBlocks(s) /\ Matches(s, start + i)
    BY <1>6, <2>1 DEF MatchEnds
  <2>3. plan[i] = Candidate(s, start + i) /\ Candidate(s, start + i) = Owner(BlockHash(s, start + i))
    BY <1>1, <1>7 DEF Candidate
  <2>4. plan[i] \in BlockIds /\ plan[i] \notin Range(block_table[s])
    BY <2>2, <2>3, OwnerType DEF Matches
  <2>5. ASSUME NEW k \in 1 .. i - 1 PROVE plan[k] # plan[i]
    <3>1. start + k \in Len(block_table[s]) + 1 .. (start + i) - 1
      BY <1>1
    <3>2. plan[k] = Candidate(s, start + k)
      BY <1>7, <1>8
    <3>. QED
      BY <2>2, <2>3, <3>1, <3>2 DEF Matches
  <2>. QED
    BY <2>2, <2>4, <2>5
<1>10. plan \in Seq(BlockIds) /\ Len(plan) = stop - start /\ DOMAIN plan = 1 .. stop - start
  <2>1. plan \in [1 .. stop - start -> BlockIds]
    <3>1. DOMAIN plan = 1 .. stop - start /\ \A i \in 1 .. stop - start : plan[i] \in BlockIds
      BY <1>7, <1>9
    <3>2. plan = [i \in DOMAIN plan |-> plan[i]]
      BY <1>7
    <3>. QED
      BY <3>1, <3>2
  <2>. HIDE DEF start
  <2>. QED
    BY <1>8, <2>1
<1>11. IsInjective(plan)
  <2>1. ASSUME NEW i \in 1 .. stop - start, NEW k \in 1 .. stop - start, plan[i] = plan[k]
        PROVE  i = k
    <3>1. CASE i < k
      BY <1>9, <2>1, <3>1
    <3>2. CASE k < i
      BY <1>9, <2>1, <3>2
    <3>. QED
      BY <3>1, <3>2
  <2>. QED
    BY <1>10, <2>1 DEF IsInjective
<1>12. Range(plan) \cap Range(block_table[s]) = {}
  BY <1>9, <1>10 DEF Range
<1>13. stop * BlockSize <= SeqLen(s)
  <2>1. CASE stop = start
    BY <1>2, <2>1
  <2>2. CASE stop # start
    <3>1. stop - start \in 1 .. stop - start /\ start + (stop - start) = stop
      BY <1>1, <1>8, <2>2
    <3>2. stop < NumSeqBlocks(s)
      BY <1>9, <3>1
    <3>. QED
      BY <1>1, <1>8, <3>2, CeilDivFacts DEF NumSeqBlocks
  <2>. QED
    BY <2>1, <2>2
<1>14. ContextEnd(s) + Len(plan) * BlockSize = stop * BlockSize
  <2>1. (start + (stop - start)) * BlockSize = start * BlockSize + (stop - start) * BlockSize
    BY <1>1, <1>8, MulFacts
  <2>. QED
    BY <1>1, <1>2, <1>8, <1>10, <2>1
<1>. QED
  BY <1>10, <1>11, <1>12, <1>13, <1>14 DEF plan

-----------------------------------------------------------------------------
(* Preservation: one lemma for each action                                  *)

(* A call in progress has the fields of its kind.                           *)
LEMMA CallKinds ==
    ASSUME TypeOK
    PROVE  /\ call.op = "claim" =>
                call \in [op : {"claim"}, seq : Seqs, plan : Seq(BlockIds) \ {<<>>}]
           /\ call.op = "fill" => call \in [op : {"fill"}, seq : Seqs, index : 1 .. MaxLen]
           /\ call.op = "release" => call \in [op : {"release"}, seq : Seqs]
           /\ call = NoCall => call.op = "none"
<1>1. call \in Calls
  BY DEF TypeOK
<1>2. CASE call = NoCall
  BY <1>2 DEF NoCall
<1>3. CASE call # NoCall
  BY <1>1, <1>3 DEF Calls
<1>. QED
  BY <1>2, <1>3

LEMMA InitPool == Init => PoolInv
<1>. SUFFICES ASSUME Init PROVE PoolInv
  OBVIOUS
<1>. USE BlockManagerAssumption DEF Init
<1>1. free_block_ids \in Seq(BlockIds) /\ Len(free_block_ids) = NumBlocks
  <2>1. free_block_ids \in [1 .. NumBlocks -> BlockIds]
    BY DEF BlockIds
  <2>. QED
    BY <2>1
<1>2. IsInjective(free_block_ids) /\ Range(free_block_ids) = BlockIds
  <2>1. DOMAIN free_block_ids = 1 .. NumBlocks /\ \A i \in 1 .. NumBlocks : free_block_ids[i] = i - 1
    OBVIOUS
  <2>2. IsInjective(free_block_ids)
    BY <2>1 DEF IsInjective
  <2>3. ASSUME NEW b \in BlockIds PROVE b \in Range(free_block_ids)
    <3>1. b + 1 \in 1 .. NumBlocks /\ free_block_ids[b + 1] = b
      BY <2>1 DEF BlockIds
    <3>. QED
      BY <2>1, <3>1 DEF Range
  <2>4. Range(free_block_ids) \subseteq BlockIds
    BY <2>1 DEF Range, BlockIds
  <2>. QED
    BY <2>2, <2>3, <2>4
<1>3. token_ids \in [Seqs -> Seq(Token)] /\ \A s \in Seqs : SeqLen(s) \in 1 .. MaxLen
  BY DEF SeqLen
<1>4. blocks \in [BlockIds -> Block]
  BY DEF Block, NewBlock
<1>5. TypeOK
  BY <1>1, <1>3, <1>4 DEF TypeOK, Range, Calls
<1>6. \A b \in BlockIds : Holders(b) = {} /\ blocks[b].ref_count = 0
  BY DEF Holders, Range, NewBlock
<1>7. \A s \in Seqs : IsInjective(block_table[s])
  BY DEF IsInjective
<1>8. BlocksAccounted
  BY <1>2, <1>6, <1>7, FS_EmptySet DEF BlocksAccounted, IsFree
<1>9. CommittedInv
  BY <1>3 DEF CommittedInv, ContextEnd
<1>10. PlanInv /\ ReleaseInv
  BY DEF PlanInv, ReleaseInv, NoCall
<1>. QED
  BY <1>5, <1>8, <1>9, <1>10 DEF PoolInv

(* Every block and table stays: the accounting stands.                      *)
LEMMA PoolKept ==
    ASSUME BlocksAccounted, UNCHANGED <<poolVars, block_table>>
    PROVE  BlocksAccounted'
BY AccountKept DEF poolVars

LEMMA CallClaimPool ==
    ASSUME PoolInv, NEW s \in Seqs, CallClaim(s)
    PROVE  PoolInv'
<1>1. /\ TypeOK /\ BlocksAccounted /\ CommittedInv
      /\ num_new_tokens[s] = 0 /\ num_cached_tokens[s] = Len(block_table[s]) * BlockSize
  BY DEF PoolInv, CallClaim
<1>2. PICK n \in 1 .. Len(MatchPrefix(s)) : ClaimPrefix(s, SubSeq(MatchPrefix(s), 1, n))
  BY DEF CallClaim
<1> DEFINE full == MatchPrefix(s)
           plan == SubSeq(full, 1, n)
<1>3. /\ full \in Seq(BlockIds) /\ IsInjective(full)
      /\ Range(full) \cap Range(block_table[s]) = {}
      /\ ContextEnd(s) + Len(full) * BlockSize <= SeqLen(s)
  BY <1>1, MatchPrefixFacts
<1>. HIDE DEF full
<1>4. n \in 0 .. Len(full) /\ n \in Nat /\ Len(full) \in Nat /\ n <= Len(full)
  BY <1>2, <1>3 DEF full
<1>5. /\ plan \in Seq(BlockIds) /\ Len(plan) = n
      /\ Range(plan) \subseteq Range(full) /\ IsInjective(plan)
  BY <1>3, <1>4, PrefixFacts
<1>6. /\ call' = [op |-> "claim", seq |-> s, plan |-> plan] /\ plan # <<>>
      /\ UNCHANGED <<poolVars, token_ids, seqVars, chain>>
  BY <1>2 DEF ClaimPrefix, full
<1>. HIDE DEF plan
<1>7. ContextEnd(s) \in Nat /\ SeqLen(s) \in Nat
  BY <1>1 DEF TypeOK, ContextEnd, SeqLen
<1>8. /\ n * BlockSize <= Len(full) * BlockSize
      /\ n * BlockSize \in Nat /\ Len(full) * BlockSize \in Nat
  BY <1>4, MulFacts, BlockManagerAssumption
<1>9. ContextEnd(s) + Len(plan) * BlockSize <= SeqLen(s)
  BY <1>3, <1>5, <1>7, <1>8
<1>10. /\ call'.op = "claim" /\ call'.seq = s /\ call'.plan = plan
       /\ block_table' = block_table /\ ContextEnd(s)' = ContextEnd(s) /\ SeqLen(s)' = SeqLen(s)
  BY <1>6 DEF seqVars, ContextEnd, SeqLen
<1>11. PlanInv'
  BY <1>3, <1>5, <1>9, <1>10 DEF PlanInv
<1>12. ReleaseInv' /\ CommittedInv'
  BY <1>1, <1>6, <1>10 DEF ReleaseInv, CommittedInv, seqVars, ContextEnd, SeqLen
<1>13. TypeOK'
  BY <1>1, <1>5, <1>6 DEF TypeOK, SeqLen, poolVars, seqVars, Calls
<1>14. BlocksAccounted'
  BY <1>1, <1>6, PoolKept DEF seqVars
<1>. QED
  BY <1>11, <1>12, <1>13, <1>14 DEF PoolInv

(* Setting the reference count of one block.                               *)
LEMMA CountFacts ==
    ASSUME blocks \in [BlockIds -> Block], NEW b \in BlockIds, NEW n \in Nat,
           blocks' = [blocks EXCEPT ![b].ref_count = n]
    PROVE  /\ blocks' \in [BlockIds -> Block] /\ blocks'[b].ref_count = n
           /\ \A c \in BlockIds \ {b} : blocks'[c].ref_count = blocks[c].ref_count
<1> DEFINE r == [blocks[b] EXCEPT !.ref_count = n]
<1>1. blocks[b] \in Block
  OBVIOUS
<1>2. r \in Block /\ r.ref_count = n
  BY <1>1 DEF Block
<1>3. blocks' = [blocks EXCEPT ![b] = r]
  OBVIOUS
<1>. HIDE DEF r
<1>. QED
  BY <1>2, <1>3

LEMMA ClaimBlockPool ==
    ASSUME PoolInv, ClaimBlock
    PROVE  PoolInv'
<1>a. PICK s, plan, b : s = call.seq /\ plan = call.plan /\ b = Head(plan)
  OBVIOUS
<1>1. TypeOK /\ BlocksAccounted /\ CommittedInv /\ PlanInv /\ call.op = "claim"
  BY DEF PoolInv, ClaimBlock
<1>2. /\ call \in [op : {"claim"}, seq : Seqs, plan : Seq(BlockIds) \ {<<>>}]
      /\ s \in Seqs /\ plan \in Seq(BlockIds) /\ plan # <<>>
  BY <1>a, <1>1, CallKinds
<1>3. /\ IsInjective(plan) /\ Range(plan) \cap Range(block_table[s]) = {}
      /\ ContextEnd(s) + Len(plan) * BlockSize <= SeqLen(s)
  BY <1>a, <1>1 DEF PlanInv
<1>4. /\ IF IsFree(b)
           THEN blocks' = [blocks EXCEPT ![b].ref_count = 1] /\ TakeFree(b)
           ELSE /\ blocks' = [blocks EXCEPT ![b].ref_count = @ + 1]
                /\ UNCHANGED <<free_block_ids, used_block_ids>>
      /\ block_table' = [block_table EXCEPT ![s] = Append(@, b)]
      /\ num_cached_tokens' = [num_cached_tokens EXCEPT ![s] = @ + BlockSize]
      /\ call' = IF Len(plan) = 1 THEN NoCall ELSE [call EXCEPT !.plan = Tail(@)]
      /\ UNCHANGED <<hash_to_block_id, token_ids, num_new_tokens, chain>>
  BY <1>a DEF ClaimBlock
<1>5. /\ b \in BlockIds /\ b \in Range(plan) /\ Tail(plan) \in Seq(BlockIds)
      /\ Len(Tail(plan)) = Len(plan) - 1 /\ Len(plan) >= 1 /\ Len(plan) \in Nat
      /\ IsInjective(Tail(plan)) /\ Range(Tail(plan)) \subseteq Range(plan) \ {b}
  BY <1>a, <1>2, <1>3, TailFacts
<1>6. b \notin Range(block_table[s])
  BY <1>3, <1>5
<1>7. blocks \in [BlockIds -> Block] /\ blocks[b].ref_count \in Nat
  BY <1>1, <1>5 DEF TypeOK, Block
<1>8. /\ blocks' \in [BlockIds -> Block]
      /\ IsFree(b) => blocks'[b].ref_count = 1
      /\ ~IsFree(b) => blocks'[b].ref_count = blocks[b].ref_count + 1
  <2>1. CASE IsFree(b)
    <3>1. blocks' = [blocks EXCEPT ![b].ref_count = 1] /\ 1 \in Nat
      BY <1>4, <2>1
    <3>2. blocks' \in [BlockIds -> Block] /\ blocks'[b].ref_count = 1
      BY <1>5, <1>7, <3>1, CountFacts
    <3>. QED
      BY <2>1, <3>2
  <2>2. CASE ~IsFree(b)
    <3>1. blocks' = [blocks EXCEPT ![b].ref_count = blocks[b].ref_count + 1]
      BY <1>4, <2>2
    <3>2. blocks[b].ref_count + 1 \in Nat
      BY <1>7
    <3>3. blocks' \in [BlockIds -> Block] /\ blocks'[b].ref_count = blocks[b].ref_count + 1
      BY <1>5, <1>7, <3>1, <3>2, CountFacts
    <3>. QED
      BY <2>2, <3>3
  <2>. QED
    BY <2>1, <2>2
<1>9. \A c \in BlockIds \ {b} : blocks'[c].ref_count = blocks[c].ref_count
  BY <1>4, <1>5, <1>7
<1>10. /\ BlocksAccounted' /\ block_table' \in [Seqs -> Seq(BlockIds)]
       /\ free_block_ids' \in Seq(BlockIds) /\ used_block_ids' \in SUBSET BlockIds
  <2>1. CASE IsFree(b)
    <3>1. blocks'[b].ref_count = 1 /\ TakeFree(b)
      BY <1>4, <1>8, <2>1
    <3>. QED
      BY <1>1, <1>2, <1>4, <1>5, <1>9, <2>1, <3>1, AccountTaken
  <2>2. CASE ~IsFree(b)
    <3>1. /\ blocks'[b].ref_count = blocks[b].ref_count + 1
          /\ UNCHANGED <<free_block_ids, used_block_ids>>
      BY <1>4, <1>8, <2>2
    <3>2. free_block_ids' \in Seq(BlockIds) /\ used_block_ids' \in SUBSET BlockIds
      BY <1>1, <3>1 DEF TypeOK
    <3>. QED
      BY <1>1, <1>2, <1>4, <1>5, <1>6, <1>9, <2>2, <3>1, <3>2, AccountShared
  <2>. QED
    BY <2>1, <2>2
<1>11. /\ num_cached_tokens' \in [Seqs -> Nat]
       /\ num_cached_tokens'[s] = num_cached_tokens[s] + BlockSize
       /\ \A q \in Seqs \ {s} : num_cached_tokens'[q] = num_cached_tokens[q]
  <2>1. num_cached_tokens \in [Seqs -> Nat] /\ BlockSize \in Nat
    BY <1>1, BlockManagerAssumption DEF TypeOK
  <2>2. num_cached_tokens[s] + BlockSize \in Nat
    BY <1>2, <2>1
  <2>. QED
    BY <1>2, <1>4, <2>1, <2>2
<1>12. call' \in Calls /\ call'.op # "release"
  <2>1. CASE Len(plan) = 1
    BY <1>4, <2>1 DEF Calls, NoCall
  <2>2. CASE Len(plan) # 1
    <3>1. Tail(plan) # <<>>
      <4>1. Len(Tail(plan)) # 0 /\ Len(<<>>) = 0
        BY <1>5, <2>2
      <4>. QED
        BY <4>1
    <3>2. call' = [op |-> "claim", seq |-> s, plan |-> Tail(plan)]
      BY <1>a, <1>2, <1>4, <2>2
    <3>. QED
      BY <1>2, <1>5, <3>1, <3>2 DEF Calls
  <2>. QED
    BY <2>1, <2>2
<1>13. TypeOK'
  BY <1>1, <1>4, <1>8, <1>10, <1>11, <1>12 DEF TypeOK, SeqLen
<1>14. /\ ContextEnd(s)' = ContextEnd(s) + BlockSize
       /\ \A q \in Seqs \ {s} : ContextEnd(q)' = ContextEnd(q)
       /\ \A q \in Seqs : SeqLen(q)' = SeqLen(q) /\ SeqLen(q) \in Nat /\ ContextEnd(q) \in Nat
  <2>1. /\ num_cached_tokens \in [Seqs -> Nat] /\ num_new_tokens \in [Seqs -> Nat]
        /\ token_ids \in [Seqs -> Seq(Token)] /\ BlockSize \in Nat
        /\ num_new_tokens' = num_new_tokens /\ token_ids' = token_ids
    BY <1>1, <1>4, BlockManagerAssumption DEF TypeOK
  <2>2. ContextEnd(s)' = ContextEnd(s) + BlockSize
    BY <1>2, <1>11, <2>1 DEF ContextEnd
  <2>3. \A q \in Seqs \ {s} : ContextEnd(q)' = ContextEnd(q)
    BY <1>11, <2>1 DEF ContextEnd
  <2>4. \A q \in Seqs : SeqLen(q)' = SeqLen(q) /\ SeqLen(q) \in Nat /\ ContextEnd(q) \in Nat
    BY <2>1 DEF ContextEnd, SeqLen
  <2>. QED
    BY <2>2, <2>3, <2>4
<1>15. /\ (Len(plan) - 1) * BlockSize \in Nat
       /\ Len(plan) * BlockSize = (Len(plan) - 1) * BlockSize + BlockSize
  <2>1. Len(plan) - 1 \in Nat /\ (Len(plan) - 1) + 1 = Len(plan) /\ 1 \in Nat
    BY <1>5
  <2>. QED
    BY <2>1, MulFacts, BlockManagerAssumption
<1>16. ContextEnd(s)' + (Len(plan) - 1) * BlockSize <= SeqLen(s)' /\ ContextEnd(s)' <= SeqLen(s)'
  BY <1>2, <1>3, <1>14, <1>15, BlockManagerAssumption
<1>17. CommittedInv'
  BY <1>1, <1>14, <1>16 DEF CommittedInv
<1>18. PlanInv'
  <2>1. CASE Len(plan) = 1
    BY <1>4, <2>1 DEF PlanInv, NoCall
  <2>2. CASE Len(plan) # 1
    <3>1. call'.seq = s /\ call'.plan = Tail(plan)
      BY <1>a, <1>2, <1>4, <2>2
    <3>2. Range(block_table'[s]) = Range(block_table[s]) \cup {b}
      BY <1>1, <1>2, <1>4, <1>5, AppendFacts DEF TypeOK
    <3>3. Range(Tail(plan)) \cap Range(block_table'[s]) = {}
      BY <1>3, <1>5, <3>2
    <3>4. ContextEnd(s)' + Len(Tail(plan)) * BlockSize <= SeqLen(s)'
      BY <1>5, <1>16
    <3>5. ContextEnd(call.seq)' = ContextEnd(s)' /\ SeqLen(call.seq)' = SeqLen(s)'
      BY <3>1 DEF ContextEnd, SeqLen
    <3>. QED
      BY <1>5, <3>1, <3>3, <3>4, <3>5 DEF PlanInv
  <2>. QED
    BY <2>1, <2>2
<1>. QED
  BY <1>10, <1>12, <1>13, <1>17, <1>18 DEF PoolInv, ReleaseInv

LEMMA ReleaseBlockPool ==
    ASSUME PoolInv, ReleaseBlock
    PROVE  PoolInv'
<1>1. TypeOK /\ BlocksAccounted /\ CommittedInv /\ call.op = "release" /\ ReleaseInv
  BY DEF PoolInv, ReleaseBlock
<1>2. PICK s, b : s = call.seq /\ b = block_table[s][Len(block_table[s])]
  OBVIOUS
<1>3. s \in Seqs /\ block_table[s] # <<>> /\ call \in [op : {"release"}, seq : Seqs]
  BY <1>1, <1>2, CallKinds DEF ReleaseInv
<1> DEFINE last == Len(block_table[s]) = 1
<1>4. /\ blocks' = [blocks EXCEPT ![b].ref_count = @ - 1]
      /\ IF blocks[b].ref_count = 1
           THEN /\ used_block_ids' = used_block_ids \ {b}
                /\ free_block_ids' = Append(free_block_ids, b)
           ELSE UNCHANGED <<used_block_ids, free_block_ids>>
      /\ block_table' = [block_table EXCEPT ![s] = SubSeq(@, 1, Len(@) - 1)]
      /\ num_cached_tokens' =
             IF last THEN [num_cached_tokens EXCEPT ![s] = 0] ELSE num_cached_tokens
      /\ num_new_tokens' =
             IF last THEN [num_new_tokens EXCEPT ![s] = 0] ELSE num_new_tokens
      /\ call' = IF last THEN NoCall ELSE call
      /\ UNCHANGED <<hash_to_block_id, token_ids, chain>>
  BY <1>2 DEF ReleaseBlock, LastHolder, ReturnFree
<1>5. block_table[s] \in Seq(BlockIds) /\ IsInjective(block_table[s])
  BY <1>1, <1>3 DEF TypeOK, BlocksAccounted
<1>6. b \in BlockIds /\ b \in Range(block_table[s])
  BY <1>2, <1>3, <1>5, DropLastFacts
<1>7. blocks \in [BlockIds -> Block] /\ blocks[b].ref_count \in Nat
  BY <1>1, <1>6 DEF TypeOK, Block
<1>8. blocks[b].ref_count - 1 \in Nat
  <2>1. IsFiniteSet(Holders(b)) /\ Holders(b) # {} /\ blocks[b].ref_count = Cardinality(Holders(b))
    BY <1>1, <1>3, <1>6, FS_Subset, BlockManagerAssumption DEF Holders, BlocksAccounted
  <2>2. blocks[b].ref_count # 0
    BY <2>1, FS_EmptySet
  <2>. QED
    BY <1>7, <2>2
<1>9. blocks' = [blocks EXCEPT ![b].ref_count = blocks[b].ref_count - 1]
  BY <1>4
<1>10. /\ blocks' \in [BlockIds -> Block] /\ blocks'[b].ref_count = blocks[b].ref_count - 1
       /\ \A c \in BlockIds \ {b} : blocks'[c].ref_count = blocks[c].ref_count
  BY <1>6, <1>7, <1>8, <1>9, CountFacts
<1>11. /\ BlocksAccounted' /\ block_table' \in [Seqs -> Seq(BlockIds)]
       /\ free_block_ids' \in Seq(BlockIds) /\ used_block_ids' \subseteq BlockIds
  <2>1. /\ block_table' = [block_table EXCEPT ![s] = SubSeq(@, 1, Len(@) - 1)]
        /\ IF blocks[b].ref_count = 1
             THEN /\ used_block_ids' = used_block_ids \ {b}
                  /\ free_block_ids' = Append(free_block_ids, b)
             ELSE UNCHANGED <<used_block_ids, free_block_ids>>
    BY <1>4
  <2>2. /\ TypeOK /\ BlocksAccounted /\ s \in Seqs /\ block_table[s] # <<>>
        /\ b \in BlockIds /\ b = block_table[s][Len(block_table[s])]
    BY <1>1, <1>2, <1>3, <1>6
  <2>. QED
    BY <1>10, <2>1, <2>2, AccountReleased
<1>12. /\ num_cached_tokens \in [Seqs -> Nat] /\ num_new_tokens \in [Seqs -> Nat]
       /\ token_ids' = token_ids
       /\ \A q \in Seqs : SeqLen(q) \in Nat /\ ContextEnd(q) <= SeqLen(q)
  BY <1>1, <1>4 DEF TypeOK, CommittedInv, SeqLen
<1>13. /\ num_cached_tokens' \in [Seqs -> Nat] /\ num_new_tokens' \in [Seqs -> Nat]
       /\ \A q \in Seqs : num_cached_tokens'[q] <= num_cached_tokens[q]
                         /\ num_new_tokens'[q] <= num_new_tokens[q]
  BY <1>3, <1>4, <1>12
<1>14. call' \in Calls /\ call'.op # "claim"
  BY <1>1, <1>3, <1>4 DEF Calls, NoCall
<1>15. TypeOK'
  BY <1>1, <1>4, <1>10, <1>11, <1>13, <1>14 DEF TypeOK, SeqLen
<1>16. CommittedInv'
  <2>1. ASSUME NEW q \in Seqs PROVE ContextEnd(q)' <= SeqLen(q)'
    <3>1. SeqLen(q)' = SeqLen(q)
      BY <1>12 DEF SeqLen
    <3>2. /\ num_cached_tokens[q] \in Nat /\ num_new_tokens[q] \in Nat /\ SeqLen(q) \in Nat
          /\ num_cached_tokens'[q] \in Nat /\ num_new_tokens'[q] \in Nat
          /\ num_cached_tokens'[q] <= num_cached_tokens[q]
          /\ num_new_tokens'[q] <= num_new_tokens[q]
          /\ num_cached_tokens[q] + num_new_tokens[q] <= SeqLen(q)
      BY <1>12, <1>13 DEF ContextEnd
    <3>. QED
      BY <3>1, <3>2 DEF ContextEnd
  <2>. QED
    BY <2>1 DEF CommittedInv
<1>17. ReleaseInv'
  <2>1. CASE last
    BY <1>4, <2>1 DEF ReleaseInv, NoCall
  <2>2. CASE ~last
    <3>1. call'.seq = s
      BY <1>2, <1>4, <2>2
    <3>2. block_table'[s] = DropLast(block_table[s])
      BY <1>3, <1>4, <1>1 DEF DropLast, TypeOK
    <3>3. Len(block_table'[s]) = Len(block_table[s]) - 1 /\ Len(block_table[s]) \in Nat
      BY <1>3, <1>5, <3>2, DropLastFacts
    <3>4. Len(block_table'[s]) # 0 /\ Len(<<>>) = 0
      BY <2>2, <3>3
    <3>. QED
      BY <3>1, <3>4 DEF ReleaseInv
  <2>. QED
    BY <2>1, <2>2
<1>. QED
  BY <1>11, <1>14, <1>15, <1>16, <1>17 DEF PoolInv, PlanInv

LEMMA DeallocatePool ==
    ASSUME PoolInv, NEW s \in Seqs, Deallocate(s)
    PROVE  PoolInv'
<1>1. TypeOK /\ BlocksAccounted /\ CommittedInv
  BY DEF PoolInv
<1>2. /\ call' = [op |-> "release", seq |-> s] /\ block_table[s] # <<>>
      /\ UNCHANGED <<poolVars, token_ids, seqVars, chain>>
  BY DEF Deallocate
<1>3. TypeOK'
  BY <1>1, <1>2 DEF TypeOK, SeqLen, poolVars, seqVars, Calls
<1>4. BlocksAccounted'
  BY <1>1, <1>2, PoolKept DEF seqVars
<1>5. CommittedInv' /\ PlanInv' /\ ReleaseInv'
  BY <1>1, <1>2 DEF CommittedInv, PlanInv, ReleaseInv, seqVars, ContextEnd, SeqLen
<1>. QED
  BY <1>3, <1>4, <1>5 DEF PoolInv

LEMMA CallFillPool ==
    ASSUME PoolInv, NEW s \in Seqs, CallFill(s)
    PROVE  PoolInv'
<1>1. TypeOK /\ BlocksAccounted /\ CommittedInv
  BY DEF PoolInv
<1>2. PICK n \in 1 .. SeqLen(s) - num_cached_tokens[s] : AllocateNew(s, n) \/ MayAppend(s, n)
  BY DEF CallFill
<1>3. /\ num_cached_tokens \in [Seqs -> Nat] /\ num_new_tokens \in [Seqs -> Nat]
      /\ num_cached_tokens[s] \in Nat /\ SeqLen(s) \in 1 .. MaxLen /\ MaxLen \in Nat
      /\ block_table[s] \in Seq(BlockIds) /\ BlockSize \in Nat \ {0}
  BY <1>1, BlockManagerAssumption DEF TypeOK
<1>4. n \in Nat /\ n >= 1 /\ num_cached_tokens[s] + n <= SeqLen(s) /\ SeqLen(s) \in Nat
  BY <1>3
<1>5. PICK k \in 1 .. MaxLen : call' = [op |-> "fill", seq |-> s, index |-> k]
  <2>1. CASE AllocateNew(s, n)
    <3>1. /\ call' = [op |-> "fill", seq |-> s, index |-> Len(block_table[s]) + 1]
          /\ num_cached_tokens[s] = Len(block_table[s]) * BlockSize
      BY <2>1 DEF AllocateNew, ClaimedPrefixValid
    <3>2. Len(block_table[s]) \in Nat /\ Len(block_table[s]) <= num_cached_tokens[s]
      <4>1. Len(block_table[s]) \in Nat
        BY <1>3
      <4>2. Len(block_table[s]) <= Len(block_table[s]) * BlockSize
        BY <1>3, <4>1, MulFacts
      <4>. QED
        BY <3>1, <4>1, <4>2
    <3>3. Len(block_table[s]) + 1 \in 1 .. MaxLen
      BY <1>3, <1>4, <3>2
    <3>. QED
      BY <3>1, <3>3
  <2>2. CASE MayAppend(s, n)
    <3> DEFINE at == num_cached_tokens[s] \div BlockSize
    <3>1. call' = [op |-> "fill", seq |-> s, index |-> at + 1]
      BY <2>2 DEF MayAppend
    <3>2. at \in Nat /\ at * BlockSize <= num_cached_tokens[s]
      BY <1>3, DivFacts
    <3>. HIDE DEF at
    <3>3. at <= at * BlockSize /\ at * BlockSize \in Nat
      BY <1>3, <3>2, MulFacts
    <3>4. at <= num_cached_tokens[s]
      <4>1. num_cached_tokens[s] \in Nat
        BY <1>3
      <4>2. PICK a \in Nat : a = at * BlockSize
        BY <3>3
      <4>3. at <= a /\ a <= num_cached_tokens[s]
        BY <3>2, <3>3, <4>2
      <4>. QED
        BY <3>2, <4>1, <4>2, <4>3
    <3>5. at + 1 \in 1 .. MaxLen
      BY <1>3, <1>4, <3>2, <3>4
    <3>. QED
      BY <3>1, <3>5
  <2>. QED
    BY <1>2, <2>1, <2>2
<1>6. /\ num_new_tokens' = [num_new_tokens EXCEPT ![s] = n]
      /\ UNCHANGED <<poolVars, token_ids, block_table, num_cached_tokens, chain>>
  BY <1>2 DEF AllocateNew, MayAppend
<1>7. num_new_tokens' \in [Seqs -> Nat] /\ call' \in Calls
  BY <1>3, <1>4, <1>5, <1>6 DEF Calls
<1>8. TypeOK'
  BY <1>1, <1>6, <1>7 DEF TypeOK, SeqLen, poolVars
<1>9. BlocksAccounted'
  BY <1>1, <1>6, PoolKept
<1>10. CommittedInv'
  <2>1. ContextEnd(s)' <= SeqLen(s)'
    BY <1>3, <1>4, <1>6 DEF ContextEnd, SeqLen
  <2>2. \A q \in Seqs \ {s} : ContextEnd(q)' = ContextEnd(q) /\ SeqLen(q)' = SeqLen(q)
    BY <1>3, <1>6 DEF ContextEnd, SeqLen
  <2>. QED
    BY <1>1, <2>1, <2>2 DEF CommittedInv
<1>11. PlanInv' /\ ReleaseInv'
  BY <1>5 DEF PlanInv, ReleaseInv
<1>. QED
  BY <1>8, <1>9, <1>10, <1>11 DEF PoolInv

LEMMA AppendTokenPool ==
    ASSUME PoolInv, NEW s \in Seqs, NEW t \in Token, AppendToken(s, t)
    PROVE  PoolInv'
<1>1. TypeOK /\ BlocksAccounted /\ CommittedInv
  BY DEF PoolInv
<1>2. /\ SeqLen(s) < MaxLen /\ token_ids' = [token_ids EXCEPT ![s] = Append(@, t)]
      /\ call = NoCall /\ UNCHANGED <<poolVars, seqVars, chain, call>>
  BY DEF AppendToken
<1>3. token_ids \in [Seqs -> Seq(Token)] /\ MaxLen \in Nat
  BY <1>1, BlockManagerAssumption DEF TypeOK
<1>4. /\ token_ids' \in [Seqs -> Seq(Token)] /\ SeqLen(s)' = SeqLen(s) + 1 /\ SeqLen(s) \in Nat
      /\ \A q \in Seqs \ {s} : SeqLen(q)' = SeqLen(q)
  BY <1>2, <1>3 DEF SeqLen
<1>5. \A q \in Seqs : SeqLen(q)' \in 1 .. MaxLen
  <2>1. SeqLen(s)' \in 1 .. MaxLen
    BY <1>2, <1>3, <1>4
  <2>2. \A q \in Seqs \ {s} : SeqLen(q)' \in 1 .. MaxLen
    <3>1. \A q \in Seqs : SeqLen(q) \in 1 .. MaxLen
      BY <1>1 DEF TypeOK
    <3>. QED
      BY <1>4, <3>1
  <2>. QED
    BY <2>1, <2>2
<1>6. TypeOK'
  BY <1>1, <1>2, <1>4, <1>5 DEF TypeOK, poolVars, seqVars
<1>7. BlocksAccounted'
  BY <1>1, <1>2, PoolKept DEF seqVars
<1>8. CommittedInv'
  <2>1. \A q \in Seqs : ContextEnd(q)' = ContextEnd(q) /\ ContextEnd(q) \in Nat
    BY <1>1, <1>2 DEF TypeOK, ContextEnd, seqVars
  <2>2. ContextEnd(s)' <= SeqLen(s)'
    BY <1>1, <1>4, <2>1 DEF CommittedInv
  <2>. QED
    BY <1>1, <1>4, <2>1, <2>2 DEF CommittedInv
<1>9. PlanInv' /\ ReleaseInv'
  BY <1>2 DEF PlanInv, ReleaseInv, NoCall
<1>. QED
  BY <1>6, <1>7, <1>8, <1>9 DEF PoolInv

LEMMA AdvancePool ==
    ASSUME PoolInv, NEW S \in SUBSET Seqs, Advance(S)
    PROVE  PoolInv'
<1>1. TypeOK /\ BlocksAccounted /\ CommittedInv
  BY DEF PoolInv
<1>2. /\ num_cached_tokens' = [s \in Seqs |->
             IF s \in S THEN ContextEnd(s) ELSE num_cached_tokens[s]]
      /\ num_new_tokens' = [s \in Seqs |-> IF s \in S THEN 0 ELSE num_new_tokens[s]]
      /\ call = NoCall /\ UNCHANGED <<poolVars, token_ids, block_table, chain, call>>
  BY DEF Advance
<1>3. num_cached_tokens \in [Seqs -> Nat] /\ num_new_tokens \in [Seqs -> Nat]
  BY <1>1 DEF TypeOK
<1>4. num_cached_tokens' \in [Seqs -> Nat] /\ num_new_tokens' \in [Seqs -> Nat]
  BY <1>2, <1>3 DEF ContextEnd
<1>5. TypeOK'
  BY <1>1, <1>2, <1>4 DEF TypeOK, SeqLen, poolVars
<1>6. BlocksAccounted'
  BY <1>1, <1>2, PoolKept
<1>7. CommittedInv'
  <2>1. ASSUME NEW s \in Seqs PROVE ContextEnd(s)' <= SeqLen(s)'
    <3>1. ContextEnd(s)' = ContextEnd(s)
      BY <1>2, <1>3 DEF ContextEnd
    <3>. QED
      BY <1>1, <1>2, <3>1 DEF CommittedInv, SeqLen
  <2>. QED
    BY <2>1 DEF CommittedInv
<1>8. PlanInv' /\ ReleaseInv'
  BY <1>2 DEF PlanInv, ReleaseInv, NoCall
<1>. QED
  BY <1>5, <1>6, <1>7, <1>8 DEF PoolInv

(* A full block is published with fields of their types, whatever the index  *)
(* answers.                                                                *)
LEMMA PublishFacts ==
    ASSUME TypeOK, NEW s \in Seqs, NEW k \in Nat, k >= 1, k * BlockSize <= SeqLen(s),
           k <= Len(block_table[s]) + 1,
           NEW b \in BlockIds, NEW blk \in Block,
           NEW map, Range(map) \subseteq BlockIds
    PROVE  /\ BlockHash(s, k) \in Nat
           /\ PublishFullBlock(b, blk, s, k, map) \in Block
           /\ PublishFullBlock(b, blk, s, k, map).ref_count = blk.ref_count
<1>1. /\ token_ids[s] \in Seq(Token) /\ SeqLen(s) \in 1 .. MaxLen /\ MaxLen \in Nat
      /\ BlockSize \in Nat \ {0} /\ blocks \in [BlockIds -> Block]
      /\ block_table[s] \in Seq(BlockIds)
  BY BlockManagerAssumption DEF TypeOK
<1>2. k * BlockSize \in Nat /\ k <= k * BlockSize
  BY <1>1, MulFacts
<1>3. (k - 1) * BlockSize \in Nat
  BY <1>1, MulFacts
<1>4. PICK i \in Nat, j \in Nat : i = (k - 1) * BlockSize /\ j = k * BlockSize
  BY <1>2, <1>3
<1>5. j \in 1 .. SeqLen(s) /\ j <= MaxLen
  BY <1>1, <1>2, <1>4
<1>6. Prefix(s, j) \in [1 .. j -> Token]
  <2>1. j \in 0 .. Len(token_ids[s])
    BY <1>1, <1>5 DEF SeqLen
  <2>2. Prefix(s, j) \in Seq(Token) /\ Len(Prefix(s, j)) = j
    BY <1>1, <2>1, PrefixFacts DEF Prefix
  <2>. QED
    BY <2>2
<1>7. BlockHash(s, k) \in Nat
  <2>1. Prefix(s, j) \in PrefixWords
    <3>1. j \in 1 .. MaxLen
      BY <1>1, <1>5
    <3>. QED
      BY <1>6, <3>1 DEF PrefixWords
  <2>. QED
    BY <1>4, <2>1, HashAssumption DEF BlockHash
<1>8. SeqBlock(s, k) \in Seq(Token)
  <2>1. SubSeq(token_ids[s], i + 1, j) \in Seq(Token)
    BY <1>1, <1>5 DEF SeqLen
  <2>. QED
    BY <1>4, <2>1 DEF SeqBlock
<1>9. PublishedLineage(b, blk, s, k, map) \in LineageIds \cup {NoLineage}
  <2> DEFINE owner == OwnerIn(map, BlockHash(s, k))
  <2>1. CASE owner = None
    <3>1. PublishedLineage(b, blk, s, k, map) = <<b, blk.generation>>
      BY <2>1 DEF PublishedLineage
    <3>. QED
      BY <3>1 DEF Block, LineageIds
  <2>2. CASE owner # None
    <3>1. owner \in BlockIds
      BY <2>2 DEF OwnerIn, Range
    <3>2. blocks[owner].lineage \in LineageIds \cup {NoLineage}
      BY <1>1, <3>1 DEF Block
    <3>3. <<b, blk.generation>> \in LineageIds
      BY DEF Block, LineageIds
    <3>. HIDE DEF owner
    <3>4. PublishedLineage(b, blk, s, k, map) \in {blocks[owner].lineage, <<b, blk.generation>>}
      BY DEF PublishedLineage, owner
    <3>. QED
      BY <3>2, <3>3, <3>4
  <2>. QED
    BY <2>1, <2>2
<1>10. LineageOf(TableAt(s, k - 1)) \in LineageIds \cup {NoLineage}
  <2>1. CASE k = 1
    BY <2>1 DEF TableAt, LineageOf
  <2>2. CASE k # 1
    <3>1. k - 1 \in 1 .. Len(block_table[s])
      BY <1>1, <2>2
    <3>2. TableAt(s, k - 1) \in BlockIds
      BY <1>1, <3>1 DEF TableAt
    <3>3. blocks[TableAt(s, k - 1)].lineage \in LineageIds \cup {NoLineage}
      BY <1>1, <3>2 DEF Block
    <3>. QED
      BY <3>3 DEF LineageOf
  <2>. QED
    BY <2>1, <2>2
<1>11. /\ PublishFullBlock(b, blk, s, k, map) \in Block
       /\ PublishFullBlock(b, blk, s, k, map).ref_count = blk.ref_count
  BY <1>7, <1>8, <1>9, <1>10 DEF PublishFullBlock, Block
<1>. QED
  BY <1>7, <1>11

LEMMA FillBlockPool ==
    ASSUME PoolInv, FillBlock
    PROVE  PoolInv'
<1>1. TypeOK /\ BlocksAccounted /\ CommittedInv /\ call.op = "fill"
  BY DEF PoolInv, FillBlock
<1>2. PICK s, k : s = call.seq /\ k = call.index
  OBVIOUS
<1>3. /\ call \in [op : {"fill"}, seq : Seqs, index : 1 .. MaxLen]
      /\ s \in Seqs /\ k \in 1 .. MaxLen /\ k \in Nat /\ k >= 1
  <2>1. MaxLen \in Nat
    BY BlockManagerAssumption
  <2>. QED
    BY <1>1, <1>2, <2>1, CallKinds
<1>4. FillOk(s, k)
  BY <1>2 DEF FillBlock
<1> DEFINE present == k <= Len(block_table[s])
<1>5. PICK b, blk, map :
          /\ b = IF present THEN block_table[s][k] ELSE Head(free_block_ids)
          /\ blk = IF present THEN blocks[b] ELSE ResetBlock(b)
          /\ map = IF present THEN hash_to_block_id ELSE MapWithout(b)
  OBVIOUS
<1>6. /\ IF present
           THEN UNCHANGED <<free_block_ids, used_block_ids, block_table>>
           ELSE /\ TakeFree(b)
                /\ block_table' = [block_table EXCEPT ![s] = Append(@, b)]
      /\ blocks' = [blocks EXCEPT ![b] =
             IF Fills(s, k) THEN PublishFullBlock(b, blk, s, k, map) ELSE blk]
      /\ hash_to_block_id' =
             IF Fills(s, k) THEN MapWith(map, BlockHash(s, k), b) ELSE map
      /\ chain' = [chain EXCEPT ![b] = Prefix(s, MinOf(k * BlockSize, ContextEnd(s)))]
      /\ call' = IF MoreBlocks(s, k) THEN [call EXCEPT !.index = k + 1] ELSE NoCall
      /\ UNCHANGED <<token_ids, num_cached_tokens, num_new_tokens>>
  BY <1>2, <1>5 DEF FillBlock
<1>7. /\ block_table[s] \in Seq(BlockIds) /\ free_block_ids \in Seq(BlockIds)
      /\ blocks \in [BlockIds -> Block] /\ Range(hash_to_block_id) \subseteq BlockIds
      /\ DOMAIN hash_to_block_id \subseteq Nat /\ IsInjective(free_block_ids)
      /\ token_ids[s] \in Seq(Token) /\ SeqLen(s) \in 1 .. MaxLen /\ MaxLen \in Nat
      /\ BlockSize \in Nat \ {0} /\ chain \in [BlockIds -> Seq(Token)]
      /\ num_cached_tokens[s] \in Nat /\ num_new_tokens[s] \in Nat
  BY <1>1, <1>3, BlockManagerAssumption DEF TypeOK, BlocksAccounted
<1>8. ContextEnd(s) \in Nat /\ ContextEnd(s) <= SeqLen(s) /\ k <= Len(block_table[s]) + 1
  <2>1. ContextEnd(s) \in Nat
    BY <1>7 DEF ContextEnd
  <2>2. ContextEnd(s) <= SeqLen(s)
    BY <1>1, <1>3 DEF CommittedInv
  <2>3. k <= Len(block_table[s]) + 1
    <3>1. k <= Len(block_table[s]) \/ k = Len(block_table[s]) + 1
      BY <1>4 DEF FillOk
    <3>2. Len(block_table[s]) \in Nat
      BY <1>7
    <3>. QED
      BY <1>3, <3>1, <3>2
  <2>. QED
    BY <2>1, <2>2, <2>3
<1>9. k * BlockSize \in Nat /\ k <= k * BlockSize
  BY <1>3, <1>7, MulFacts
<1>10. /\ b \in BlockIds /\ (~present => IsFree(b))
  <2>1. CASE present
    BY <1>3, <1>5, <1>7, <2>1
  <2>2. CASE ~present
    <3>1. free_block_ids # <<>>
      BY <1>4, <2>2 DEF FillOk
    <3>2. Head(free_block_ids) \in BlockIds /\ Head(free_block_ids) \in Range(free_block_ids)
      BY <1>7, <3>1, TailFacts
    <3>. QED
      BY <1>5, <2>2, <3>2 DEF IsFree
  <2>. QED
    BY <2>1, <2>2
<1>11. blk \in Block /\ blk.ref_count = IF present THEN blocks[b].ref_count ELSE 1
  <2>1. CASE present
    BY <1>5, <1>7, <1>10, <2>1
  <2>2. CASE ~present
    <3>1. blocks[b].generation + 1 \in Nat
      BY <1>7, <1>10 DEF Block
    <3>2. blk = ResetBlock(b)
      BY <1>5, <2>2
    <3>. QED
      BY <1>10, <2>2, <3>1, <3>2 DEF ResetBlock, Block, LineageIds
  <2>. QED
    BY <2>1, <2>2
<1>12. Range(map) \subseteq BlockIds /\ DOMAIN map \subseteq Nat
  <2>1. CASE map = hash_to_block_id
    BY <1>7, <2>1
  <2>2. CASE map # hash_to_block_id
    <3>1. map = Restrict(hash_to_block_id, DOMAIN hash_to_block_id \ {blocks[b].hash})
      BY <1>5, <2>2 DEF MapWithout
    <3>. QED
      BY <1>7, <3>1 DEF Restrict, Range
  <2>. QED
    BY <2>1, <2>2
<1> DEFINE new == IF Fills(s, k) THEN PublishFullBlock(b, blk, s, k, map) ELSE blk
<1>13. Fills(s, k) =>
          /\ BlockHash(s, k) \in Nat
          /\ PublishFullBlock(b, blk, s, k, map) \in Block
          /\ PublishFullBlock(b, blk, s, k, map).ref_count = blk.ref_count
  <2>1. SUFFICES ASSUME Fills(s, k)
                 PROVE  /\ BlockHash(s, k) \in Nat
                        /\ PublishFullBlock(b, blk, s, k, map) \in Block
                        /\ PublishFullBlock(b, blk, s, k, map).ref_count = blk.ref_count
    OBVIOUS
  <2>2. k * BlockSize <= SeqLen(s)
    BY <1>7, <1>8, <1>9, <2>1 DEF Fills
  <2>. QED
    BY <1>1, <1>3, <1>8, <1>10, <1>11, <1>12, <2>2, PublishFacts
<1>14. new \in Block /\ new.ref_count = blk.ref_count
  BY <1>11, <1>13
<1>15. blocks' = [blocks EXCEPT ![b] = new]
  BY <1>6
<1>. HIDE DEF new
<1>16. /\ blocks' \in [BlockIds -> Block] /\ blocks'[b].ref_count = blk.ref_count
       /\ \A c \in BlockIds \ {b} : blocks'[c].ref_count = blocks[c].ref_count
  BY <1>7, <1>10, <1>14, <1>15
<1>17. /\ BlocksAccounted' /\ block_table' \in [Seqs -> Seq(BlockIds)]
       /\ free_block_ids' \in Seq(BlockIds) /\ used_block_ids' \subseteq BlockIds
  <2>1. CASE present
    <3>1. UNCHANGED <<free_block_ids, used_block_ids, block_table>>
      BY <1>6, <2>1
    <3>2. \A c \in BlockIds : blocks'[c].ref_count = blocks[c].ref_count
      BY <1>11, <1>16, <2>1
    <3>3. BlocksAccounted'
      BY <1>1, <3>1, <3>2, AccountKept
    <3>. QED
      BY <1>1, <3>1, <3>3 DEF TypeOK
  <2>2. CASE ~present
    <3>1. /\ TakeFree(b) /\ block_table' = [block_table EXCEPT ![s] = Append(@, b)]
          /\ blocks'[b].ref_count = 1 /\ IsFree(b)
      BY <1>6, <1>10, <1>11, <1>16, <2>2
    <3>. QED
      BY <1>1, <1>3, <1>10, <1>16, <3>1, AccountTaken
  <2>. QED
    BY <2>1, <2>2
<1>18. DOMAIN hash_to_block_id' \subseteq Nat /\ Range(hash_to_block_id') \subseteq BlockIds
  <2>1. CASE Fills(s, k)
    <3>1. hash_to_block_id' = MapWith(map, BlockHash(s, k), b) /\ BlockHash(s, k) \in Nat
      BY <1>6, <1>13, <2>1
    <3>. QED
      BY <1>10, <1>12, <3>1 DEF MapWith, Range
  <2>2. CASE ~Fills(s, k)
    BY <1>6, <1>12, <2>2
  <2>. QED
    BY <2>1, <2>2
<1>19. chain' \in [BlockIds -> Seq(Token)]
  <2>1. MinOf(k * BlockSize, ContextEnd(s)) \in 0 .. SeqLen(s)
    BY <1>7, <1>8, <1>9 DEF MinOf
  <2>2. Prefix(s, MinOf(k * BlockSize, ContextEnd(s))) \in Seq(Token)
    BY <1>7, <2>1, PrefixFacts DEF Prefix, SeqLen
  <2>. QED
    BY <1>6, <1>7, <1>10, <2>2
<1>20. call' \in Calls /\ call'.op \notin {"claim", "release"}
  <2>1. CASE MoreBlocks(s, k)
    <3>1. k + 1 \in 1 .. MaxLen
      BY <1>3, <1>7, <1>8, <1>9, <2>1 DEF MoreBlocks
    <3>2. call' = [call EXCEPT !.index = k + 1]
      BY <1>6, <2>1
    <3>. QED
      BY <1>3, <3>1, <3>2 DEF Calls
  <2>2. CASE ~MoreBlocks(s, k)
    BY <1>6, <2>2 DEF Calls, NoCall
  <2>. QED
    BY <2>1, <2>2
<1>21. TypeOK'
  BY <1>1, <1>6, <1>16, <1>17, <1>18, <1>19, <1>20 DEF TypeOK, SeqLen
<1>22. CommittedInv'
  BY <1>1, <1>6 DEF CommittedInv, ContextEnd, SeqLen
<1>. QED
  BY <1>17, <1>20, <1>21, <1>22 DEF PoolInv, PlanInv, ReleaseInv

-----------------------------------------------------------------------------
(* The theorems                                                            *)

LEMMA NextPool == PoolInv /\ [Next]_bmVars => PoolInv'
<1>. SUFFICES ASSUME PoolInv, [Next]_bmVars PROVE PoolInv'
  OBVIOUS
<1>1. ASSUME NEW s \in Seqs, Call(s) PROVE PoolInv'
  BY <1>1, CallClaimPool, CallFillPool, DeallocatePool DEF Call
<1>2. CASE CallStep
  BY <1>2, ClaimBlockPool, FillBlockPool, ReleaseBlockPool DEF CallStep
<1>3. ASSUME NEW S \in SUBSET Seqs, Advance(S) PROVE PoolInv'
  BY <1>3, AdvancePool
<1>4. ASSUME NEW s \in Seqs, NEW t \in Token, AppendToken(s, t) PROVE PoolInv'
  BY <1>4, AppendTokenPool
<1>5. CASE UNCHANGED bmVars
  <2>1. BlocksAccounted'
    BY <1>5, PoolKept DEF PoolInv, bmVars, seqVars
  <2>. QED
    BY <1>5, <2>1 DEF PoolInv, bmVars, poolVars, seqVars, TypeOK, SeqLen, CommittedInv,
                      ContextEnd, PlanInv, ReleaseInv
<1>. QED
  BY <1>1, <1>2, <1>3, <1>4, <1>5 DEF Next

LEMMA PoolInvariant == Spec => []PoolInv
<1>. QED
  BY InitPool, NextPool, PTL DEF Spec

(* For every number of requests and blocks, every block size and every hash *)
(* function, each field of the block manager keeps its type: lineages name   *)
(* blocks, published hashes are hashes, table entries are block ids, and a   *)
(* loop in progress never runs beyond the longest sequence.                 *)
THEOREM BlockManagerTypeCorrect == Spec => []TypeOK
<1>1. PoolInv => TypeOK
  BY DEF PoolInv
<1>. QED
  BY <1>1, PoolInvariant, PTL

(* No block is lost, none is lent twice by mistake, and the reference count  *)
(* is the number of holders, between any two iterations of claim_prefix,     *)
(* allocate_new, may_append and deallocate (BlockManager).                   *)
THEOREM NoBlockLost == Spec => []BlocksAccounted
<1>1. PoolInv => BlocksAccounted
  BY DEF PoolInv
<1>. QED
  BY <1>1, PoolInvariant, PTL

-----------------------------------------------------------------------------
(* Prefix reuse: the invariant                                             *)

(* A published block is full, its token_ids are the last block of what it    *)
(* stores, and without a parent it is the first block.                      *)
ContentInv ==
    \A b \in BlockIds : Published(b) =>
        /\ blocks[b].lineage # NoLineage
        /\ Len(chain[b]) >= BlockSize
        /\ blocks[b].token_ids =
                SubSeq(chain[b], Len(chain[b]) - BlockSize + 1, Len(chain[b]))
        /\ blocks[b].parent = NoLineage => Len(chain[b]) = BlockSize

(* A generation gives its lineage away only when it is published: no other   *)
(* block names one that is still to come.                                  *)
Named(l) ==
    \E b \in BlockIds : Published(b) /\ (l = blocks[b].lineage \/ l = blocks[b].parent)
FreshInv ==
    \A b \in BlockIds : \A g \in Nat :
        \/ g > blocks[b].generation
        \/ g = blocks[b].generation /\ ~Published(b)
        => ~Named(<<b, g>>)

(* A partial block belongs to one request.                                  *)
PrivateInv ==
    \A s, q \in Seqs : \A b \in BlockIds :
        b \in Range(block_table[s]) /\ b \in Range(block_table[q]) /\ ~Published(b) => s = q

(* The last block of a table has a committed token.                         *)
TableInv ==
    \A s \in Seqs : Len(block_table[s]) >= 1 =>
        (Len(block_table[s]) - 1) * BlockSize < ContextEnd(s)

(* A fill has tokens to commit, and works at the end of the table.           *)
FillInv ==
    call.op = "fill" =>
        /\ num_new_tokens[call.seq] >= 1
        /\ (call.index - 1) * BlockSize < ContextEnd(call.seq)
        /\ Len(block_table[call.seq]) <= call.index

(* What is left of a claim continues the table of the request.               *)
Continues(s, plan) ==
    \A i \in 1 .. Len(plan) :
        Stores(plan[i], s, Len(block_table[s]) + i,
               IF i = 1 THEN TableAt(s, Len(block_table[s])) ELSE plan[i - 1])
ClaimInv ==
    call.op = "claim" =>
        /\ num_new_tokens[call.seq] = 0
        /\ num_cached_tokens[call.seq] = Len(block_table[call.seq]) * BlockSize
        /\ Continues(call.seq, call.plan)

CacheInv ==
    /\ PoolInv /\ PrefixSound /\ LineageSound /\ ContentInv /\ FreshInv
    /\ PrivateInv /\ TableInv /\ FillInv /\ ClaimInv

-----------------------------------------------------------------------------
(* Chains                                                                  *)

LEMMA SubSeqFacts ==
    ASSUME NEW S, NEW q \in Seq(S), NEW m \in Nat, NEW n \in Nat, m <= n, n <= Len(q)
    PROVE  /\ SubSeq(q, m + 1, n) \in Seq(S) /\ Len(SubSeq(q, m + 1, n)) = n - m
           /\ \A i \in 1 .. n - m : SubSeq(q, m + 1, n)[i] = q[m + i]
  OBVIOUS

(* A word is a prefix of q when its beginning and its end are.               *)
LEMMA JoinPrefix ==
    ASSUME NEW S, NEW q \in Seq(S), NEW w \in Seq(S), NEW m \in Nat, NEW n \in Nat,
           m <= n, n <= Len(q), Len(w) = n,
           SubSeq(w, 1, m) = SubSeq(q, 1, m),
           SubSeq(w, m + 1, n) = SubSeq(q, m + 1, n)
    PROVE  w = SubSeq(q, 1, n)
<1> DEFINE r == SubSeq(q, 1, n)
<1>1. r \in Seq(S) /\ Len(r) = n /\ \A i \in 1 .. n : r[i] = q[i]
  OBVIOUS
<1>2. ASSUME NEW i \in 1 .. n PROVE w[i] = q[i]
  <2>1. CASE i <= m
    <3>1. /\ i \in 1 .. m /\ m <= Len(w) /\ m <= Len(q)
          /\ SubSeq(w, 1, m)[i] = w[i] /\ SubSeq(q, 1, m)[i] = q[i]
      BY <2>1
    <3>. QED
      BY <3>1
  <2>2. CASE i > m
    <3>1. i - m \in 1 .. n - m /\ m + (i - m) = i
      BY <2>2
    <3>2. /\ SubSeq(w, m + 1, n)[i - m] = w[m + (i - m)]
          /\ SubSeq(q, m + 1, n)[i - m] = q[m + (i - m)]
      BY <3>1, SubSeqFacts
    <3>. QED
      BY <3>1, <3>2
  <2>. QED
    BY <2>1, <2>2
<1>. HIDE DEF r
<1>3. /\ w = [i \in 1 .. n |-> w[i]] /\ r = [i \in 1 .. n |-> r[i]]
  BY <1>1
<1>4. w = r
  BY <1>1, <1>2, <1>3, Zenon
<1>. QED
  BY <1>4 DEF r

(* The borders of block k of a request.                                     *)
LEMMA BlockBorders ==
    ASSUME NEW k \in Nat \ {0}
    PROVE  /\ (k - 1) * BlockSize \in Nat /\ k * BlockSize \in Nat
           /\ k * BlockSize = (k - 1) * BlockSize + BlockSize
           /\ BlockSize \in Nat /\ BlockSize >= 1
           /\ k = 1 => k * BlockSize = BlockSize /\ (k - 1) * BlockSize = 0
           /\ k > 1 => (k - 1) * BlockSize >= BlockSize
<1>1. k - 1 \in Nat /\ (k - 1) + 1 = k /\ 1 * BlockSize = BlockSize /\ BlockSize \in Nat \ {0}
  BY BlockManagerAssumption
<1>2. ((k - 1) + 1) * BlockSize = (k - 1) * BlockSize + 1 * BlockSize
      /\ (k - 1) * BlockSize \in Nat
  BY <1>1, MulFacts
<1>3. k > 1 => 1 * BlockSize <= (k - 1) * BlockSize
  BY <1>1, MulFacts
<1>4. k = 1 => (k - 1) * BlockSize = 0
  BY <1>1
<1>. QED
  BY <1>1, <1>2, <1>3, <1>4

(* The type facts used throughout.                                          *)
LEMMA Types ==
    ASSUME PoolInv
    PROVE  /\ blocks \in [BlockIds -> Block] /\ chain \in [BlockIds -> Seq(Token)]
           /\ block_table \in [Seqs -> Seq(BlockIds)]
           /\ \A s \in Seqs :
                /\ token_ids[s] \in Seq(Token) /\ SeqLen(s) \in Nat /\ SeqLen(s) <= MaxLen
                /\ num_cached_tokens[s] \in Nat /\ num_new_tokens[s] \in Nat
                /\ ContextEnd(s) \in Nat /\ ContextEnd(s) <= SeqLen(s)
                /\ IsInjective(block_table[s])
           /\ MaxLen \in Nat
<1>1. TypeOK /\ CommittedInv /\ BlocksAccounted
  BY DEF PoolInv
<1>2. MaxLen \in Nat
  BY BlockManagerAssumption
<1>. QED
  BY <1>1, <1>2 DEF TypeOK, CommittedInv, BlocksAccounted, ContextEnd, SeqLen

(* The hash of a full block is a number.                                    *)
LEMMA HashType ==
    ASSUME PoolInv, NEW s \in Seqs, NEW k \in Nat \ {0}, k * BlockSize <= SeqLen(s)
    PROVE  BlockHash(s, k) \in Nat
<1> DEFINE j == k * BlockSize
<1>1. j \in Nat /\ j >= 1
  BY BlockBorders
<1>. HIDE DEF j
<1>2. /\ token_ids[s] \in Seq(Token) /\ j <= Len(token_ids[s])
      /\ j <= MaxLen /\ MaxLen \in Nat
  BY <1>1, Types DEF j, SeqLen
<1>3. Prefix(s, j) \in [1 .. j -> Token]
  <2>1. Prefix(s, j) \in Seq(Token) /\ Len(Prefix(s, j)) = j
    BY <1>1, <1>2, PrefixFacts DEF Prefix
  <2>. QED
    BY <2>1
<1>4. Prefix(s, j) \in PrefixWords
  BY <1>1, <1>2, <1>3 DEF PrefixWords
<1>. QED
  BY <1>4, HashAssumption DEF BlockHash, j

(* The heart of the matter, _is_block_match: a block with the tokens of      *)
(* block k of s, whose parent lineage is that of a block that stores the     *)
(* prefix before, stores the first k blocks of s.                           *)
LEMMA StoresChain ==
    ASSUME PoolInv, ContentInv, LineageSound,
           NEW s \in Seqs, NEW k \in Nat \ {0}, NEW b \in BlockIds, NEW prev,
           k * BlockSize <= SeqLen(s), Stores(b, s, k, prev),
           k = 1 => prev = None,
           k > 1 => /\ prev \in BlockIds /\ Published(prev)
                    /\ chain[prev] = Prefix(s, (k - 1) * BlockSize)
    PROVE  Published(b) /\ chain[b] = Prefix(s, k * BlockSize)
<1> DEFINE m == (k - 1) * BlockSize
           n == k * BlockSize
<1>1. /\ m \in Nat /\ n \in Nat /\ n = m + BlockSize /\ BlockSize \in Nat /\ BlockSize >= 1
      /\ k = 1 => m = 0
  BY BlockBorders
<1>2. Published(b)
  BY HashType DEF Stores, Published, NoHash
<1>3. /\ token_ids[s] \in Seq(Token) /\ chain[b] \in Seq(Token) /\ n <= Len(token_ids[s])
  BY Types DEF SeqLen
<1>4. /\ blocks[b].token_ids = SubSeq(token_ids[s], m + 1, n)
      /\ blocks[b].parent = LineageOf(prev)
  BY DEF Stores, SeqBlock
<1>5. /\ Len(chain[b]) >= BlockSize
      /\ blocks[b].token_ids = SubSeq(chain[b], Len(chain[b]) - BlockSize + 1, Len(chain[b]))
      /\ blocks[b].parent = NoLineage => Len(chain[b]) = BlockSize
  BY <1>2 DEF ContentInv
<1>. HIDE DEF m, n
<1>6. Len(chain[b]) = n /\ SubSeq(chain[b], 1, m) = SubSeq(token_ids[s], 1, m)
  <2>1. CASE k = 1
    <3>1. blocks[b].parent = NoLineage
      BY <1>4, <2>1 DEF LineageOf
    <3>2. m = 0 /\ n = BlockSize
      BY <1>1, <2>1
    <3>3. SubSeq(chain[b], 1, 0) = <<>> /\ SubSeq(token_ids[s], 1, 0) = <<>>
      BY <1>3
    <3>. QED
      BY <1>5, <3>1, <3>2, <3>3
  <2>2. CASE k > 1
    <3>1. prev \in BlockIds /\ Published(prev) /\ chain[prev] = SubSeq(token_ids[s], 1, m)
      BY <2>2 DEF Prefix, m
    <3>2. prev # None
      BY <3>1, BlockManagerAssumption DEF BlockIds, None
    <3>3. blocks[b].parent = blocks[prev].lineage
      BY <1>4, <3>2 DEF LineageOf
    <3>4. /\ Len(chain[b]) = Len(chain[prev]) + BlockSize
          /\ SubSeq(chain[b], 1, Len(chain[prev])) = chain[prev]
      BY <1>2, <3>1, <3>3 DEF LineageSound
    <3>5. Len(chain[prev]) = m
      <4>1. m \in 0 .. Len(token_ids[s])
        BY <1>1, <1>3
      <4>. QED
        BY <1>3, <3>1, <4>1, PrefixFacts
    <3>6. Len(chain[b]) = n
      BY <1>1, <3>4, <3>5
    <3>7. SubSeq(chain[b], 1, m) = chain[prev]
      BY <3>4, <3>5
    <3>. QED
      BY <3>1, <3>6, <3>7
  <2>3. k = 1 \/ k > 1
    OBVIOUS
  <2>. QED
    BY <2>1, <2>2, <2>3
<1>7. Len(chain[b]) - BlockSize + 1 = m + 1
  BY <1>1, <1>6
<1>8. SubSeq(chain[b], m + 1, n) = SubSeq(token_ids[s], m + 1, n)
  BY <1>4, <1>5, <1>6, <1>7
<1>9. chain[b] = SubSeq(token_ids[s], 1, n)
  BY <1>1, <1>3, <1>6, <1>8, JoinPrefix
<1>. QED
  BY <1>2, <1>9 DEF Prefix, n

-----------------------------------------------------------------------------
(* Steps that write no block                                               *)

(* What a block is known by; the reference count may change.                *)
SameContent ==
    /\ chain' = chain
    /\ \A c \in BlockIds :
        /\ blocks'[c].hash = blocks[c].hash /\ blocks'[c].token_ids = blocks[c].token_ids
        /\ blocks'[c].lineage = blocks[c].lineage /\ blocks'[c].parent = blocks[c].parent
        /\ blocks'[c].generation = blocks[c].generation

LEMMA ContentKept ==
    ASSUME SameContent, LineageSound, ContentInv, FreshInv
    PROVE  /\ LineageSound' /\ ContentInv' /\ FreshInv'
           /\ \A c \in BlockIds : Published(c)' <=> Published(c)
<1>1. \A c \in BlockIds : Published(c)' <=> Published(c)
  BY DEF SameContent, Published
<1>2. LineageSound'
  BY <1>1 DEF SameContent, LineageSound
<1>3. ContentInv'
  BY <1>1 DEF SameContent, ContentInv
<1>4. FreshInv'
  <2>1. ASSUME NEW b \in BlockIds, NEW g \in Nat PROVE Named(<<b, g>>)' => Named(<<b, g>>)
    BY <1>1 DEF SameContent, Named
  <2>. QED
    BY <1>1, <2>1 DEF SameContent, FreshInv
<1>. QED
  BY <1>1, <1>2, <1>3, <1>4

LEMMA UnchangedContent ==
    ASSUME blocks' = blocks, chain' = chain
    PROVE  SameContent
BY DEF SameContent

LEMMA StoresKept ==
    ASSUME SameContent, token_ids' = token_ids, NEW s \in Seqs, NEW k, NEW b \in BlockIds,
           NEW prev \in BlockIds \cup {None}
    PROVE  Stores(b, s, k, prev)' <=> Stores(b, s, k, prev)
<1>1. LineageOf(prev)' = LineageOf(prev)
  BY DEF SameContent, LineageOf
<1>2. BlockHash(s, k)' = BlockHash(s, k) /\ SeqBlock(s, k)' = SeqBlock(s, k)
  BY DEF BlockHash, Prefix, SeqBlock
<1>. QED
  BY <1>1, <1>2 DEF Stores, SameContent

(* The tables stay, and every position has the committed tokens it had.     *)
LEMMA TablesKept ==
    ASSUME PoolInv, PrefixSound, PrivateInv, SameContent,
           block_table' = block_table, token_ids' = token_ids,
           \A q \in Seqs : \A k \in 1 .. Len(block_table[q]) : Reached(q, k)' = Reached(q, k)
    PROVE  PrefixSound' /\ PrivateInv'
<1>1. \A c \in BlockIds : Published(c)' <=> Published(c)
  BY DEF SameContent, Published
<1>2. PrivateInv'
  BY <1>1 DEF PrivateInv
<1>3. ASSUME NEW q \in Seqs, NEW k \in 1 .. Len(block_table[q]),
             NEW b \in BlockIds, b = block_table[q][k]
      PROVE  /\ chain'[b] = Prefix(q, StoredTokens(q, k))'
             /\ Published(b)' <=> (k * BlockSize <= Reached(q, k))'
  <2>1. Reached(q, k)' = Reached(q, k)
    OBVIOUS
  <2>2. Prefix(q, StoredTokens(q, k))' = Prefix(q, StoredTokens(q, k))
    BY <2>1 DEF Prefix, StoredTokens
  <2>3. /\ chain[b] = Prefix(q, StoredTokens(q, k))
        /\ Published(b) <=> k * BlockSize <= Reached(q, k)
    BY <1>3 DEF PrefixSound
  <2>. QED
    BY <1>1, <2>1, <2>2, <2>3 DEF SameContent
<1>4. PrefixSound'
  <2>1. \A q \in Seqs : \A k \in 1 .. Len(block_table[q]) : block_table[q][k] \in BlockIds
    BY Types
  <2>. QED
    BY <1>3, <2>1 DEF PrefixSound
<1>. QED
  BY <1>2, <1>4

LEMMA InitCache == Init => CacheInv
<1>. SUFFICES ASSUME Init PROVE CacheInv
  OBVIOUS
<1>1. PoolInv
  BY InitPool
<1>2. \A b \in BlockIds : ~Published(b)
  BY DEF Init, Published, NewBlock
<1>3. \A s \in Seqs : block_table[s] = <<>> /\ Len(block_table[s]) = 0
  BY DEF Init
<1>4. call = NoCall /\ call.op = "none"
  BY DEF Init, NoCall
<1>5. PrefixSound /\ TableInv
  BY <1>3 DEF PrefixSound, TableInv
<1>6. LineageSound /\ ContentInv /\ FreshInv
  BY <1>2 DEF LineageSound, ContentInv, FreshInv, Named
<1>7. PrivateInv
  BY <1>3 DEF PrivateInv, Range
<1>8. FillInv /\ ClaimInv
  BY <1>4 DEF FillInv, ClaimInv
<1>. QED
  BY <1>1, <1>5, <1>6, <1>7, <1>8 DEF CacheInv

LEMMA DeallocateCache ==
    ASSUME CacheInv, NEW s \in Seqs, Deallocate(s)
    PROVE  CacheInv'
<1>1. PoolInv' /\ PoolInv
  BY DeallocatePool DEF CacheInv
<1>2. /\ call = NoCall /\ call' = [op |-> "release", seq |-> s]
      /\ UNCHANGED <<poolVars, token_ids, seqVars, chain>>
  BY DEF Deallocate
<1>3. SameContent
  BY <1>2, UnchangedContent DEF poolVars
<1>4. \A q \in Seqs : ContextEnd(q)' = ContextEnd(q)
  BY <1>2 DEF seqVars, ContextEnd
<1>5. \A q \in Seqs : \A k \in Nat : Reached(q, k)' = Reached(q, k)
  BY <1>2, <1>4 DEF Reached, NoCall
<1>6. PrefixSound' /\ PrivateInv'
  <2>1. \A q \in Seqs : \A k \in 1 .. Len(block_table[q]) : Reached(q, k)' = Reached(q, k)
    BY <1>1, <1>5, Types
  <2>. QED
    BY <1>1, <1>2, <1>3, <2>1, TablesKept DEF CacheInv, seqVars
<1>7. LineageSound' /\ ContentInv' /\ FreshInv'
  BY <1>3, ContentKept DEF CacheInv
<1>8. TableInv'
  BY <1>2, <1>4 DEF CacheInv, TableInv, seqVars
<1>9. FillInv' /\ ClaimInv'
  BY <1>2 DEF FillInv, ClaimInv
<1>. QED
  BY <1>1, <1>6, <1>7, <1>8, <1>9 DEF CacheInv

(* The forward pass turns scheduled tokens into computed ones.               *)
LEMMA AdvanceCache ==
    ASSUME CacheInv, NEW S \in SUBSET Seqs, Advance(S)
    PROVE  CacheInv'
<1>1. PoolInv' /\ PoolInv
  BY AdvancePool DEF CacheInv
<1>2. /\ call = NoCall /\ call' = call
      /\ UNCHANGED <<poolVars, token_ids, block_table, chain>>
      /\ num_cached_tokens' = [s \in Seqs |->
             IF s \in S THEN ContextEnd(s) ELSE num_cached_tokens[s]]
      /\ num_new_tokens' = [s \in Seqs |-> IF s \in S THEN 0 ELSE num_new_tokens[s]]
  BY DEF Advance
<1>3. SameContent
  BY <1>2, UnchangedContent DEF poolVars
<1>4. \A q \in Seqs : ContextEnd(q)' = ContextEnd(q)
  BY <1>1, <1>2, Types DEF ContextEnd
<1>5. \A q \in Seqs : \A k \in Nat : Reached(q, k)' = Reached(q, k)
  BY <1>2, <1>4 DEF Reached, NoCall
<1>6. PrefixSound' /\ PrivateInv'
  <2>1. \A q \in Seqs : \A k \in 1 .. Len(block_table[q]) : Reached(q, k)' = Reached(q, k)
    BY <1>1, <1>5, Types
  <2>. QED
    BY <1>1, <1>2, <1>3, <2>1, TablesKept DEF CacheInv
<1>7. LineageSound' /\ ContentInv' /\ FreshInv'
  BY <1>3, ContentKept DEF CacheInv
<1>8. TableInv'
  BY <1>2, <1>4 DEF CacheInv, TableInv
<1>9. FillInv' /\ ClaimInv'
  BY <1>2 DEF FillInv, ClaimInv, NoCall
<1>. QED
  BY <1>1, <1>6, <1>7, <1>8, <1>9 DEF CacheInv

LEMMA StoredFacts ==
    ASSUME PoolInv, NEW q \in Seqs, NEW k \in Nat \ {0}
    PROVE  /\ Reached(q, k) \in Nat /\ Reached(q, k) <= ContextEnd(q)
           /\ StoredTokens(q, k) \in Nat /\ StoredTokens(q, k) <= Reached(q, k)
           /\ StoredTokens(q, k) \in 0 .. SeqLen(q)
<1>1. /\ num_cached_tokens[q] \in Nat /\ num_new_tokens[q] \in Nat
      /\ ContextEnd(q) \in Nat /\ ContextEnd(q) <= SeqLen(q) /\ SeqLen(q) \in Nat
  BY Types
<1>2. num_cached_tokens[q] <= ContextEnd(q)
  BY <1>1 DEF ContextEnd
<1>3. Reached(q, k) \in Nat /\ Reached(q, k) <= ContextEnd(q)
  BY <1>1, <1>2 DEF Reached
<1> DEFINE n == k * BlockSize
<1>4. n \in Nat
  BY BlockBorders
<1>5. StoredTokens(q, k) = MinOf(n, Reached(q, k))
  BY DEF StoredTokens
<1>. HIDE DEF n
<1>6. StoredTokens(q, k) \in Nat /\ StoredTokens(q, k) <= Reached(q, k)
  BY <1>3, <1>4, <1>5 DEF MinOf
<1>. QED
  BY <1>1, <1>3, <1>6

LEMMA AppendPrefix ==
    ASSUME NEW S, NEW q \in Seq(S), NEW t \in S, NEW n \in 0 .. Len(q)
    PROVE  SubSeq(Append(q, t), 1, n) = SubSeq(q, 1, n)
<1> DEFINE r == Append(q, t)
<1>1. r \in Seq(S) /\ Len(r) = Len(q) + 1 /\ \A i \in 1 .. Len(q) : r[i] = q[i]
  OBVIOUS
<1>. HIDE DEF r
<1>2. SubSeq(r, 1, n) = SubSeq(q, 1, n)
  BY <1>1
<1>. QED
  BY <1>2 DEF r

LEMMA AppendTokenCache ==
    ASSUME CacheInv, NEW s \in Seqs, NEW t \in Token, AppendToken(s, t)
    PROVE  CacheInv'
<1>1. PoolInv' /\ PoolInv
  BY AppendTokenPool DEF CacheInv
<1>2. /\ call = NoCall /\ call' = call /\ UNCHANGED <<poolVars, seqVars, chain>>
      /\ token_ids' = [token_ids EXCEPT ![s] = Append(@, t)]
      /\ token_ids \in [Seqs -> Seq(Token)]
  BY <1>1 DEF AppendToken, PoolInv, TypeOK
<1>3. SameContent
  BY <1>2, UnchangedContent DEF poolVars
<1>4. LineageSound' /\ ContentInv' /\ FreshInv'
      /\ \A c \in BlockIds : Published(c)' <=> Published(c)
  BY <1>3, ContentKept DEF CacheInv
<1>5. \A q \in Seqs : ContextEnd(q)' = ContextEnd(q)
  BY <1>2 DEF seqVars, ContextEnd
<1>6. ASSUME NEW q \in Seqs, NEW k \in 1 .. Len(block_table[q]),
             NEW b \in BlockIds, b = block_table[q][k]
      PROVE  /\ chain'[b] = Prefix(q, StoredTokens(q, k))'
             /\ Published(b)' <=> (k * BlockSize <= Reached(q, k))'
  <2>1. Reached(q, k)' = Reached(q, k)
    BY <1>2, <1>5 DEF Reached, NoCall
  <2>2. StoredTokens(q, k)' = StoredTokens(q, k)
    BY <2>1 DEF StoredTokens
  <2>3. StoredTokens(q, k) \in 0 .. Len(token_ids[q])
    <3>1. k \in Nat \ {0}
      OBVIOUS
    <3>. QED
      BY <1>1, <3>1, StoredFacts DEF SeqLen
  <2>4. Prefix(q, StoredTokens(q, k))' = Prefix(q, StoredTokens(q, k))
    <3> DEFINE n == StoredTokens(q, k)
    <3>1. SubSeq(token_ids'[q], 1, n) = SubSeq(token_ids[q], 1, n)
      BY <1>2, <2>3, AppendPrefix
    <3>. QED
      BY <2>2, <3>1 DEF Prefix
  <2>5. /\ chain[b] = Prefix(q, StoredTokens(q, k))
        /\ Published(b) <=> k * BlockSize <= Reached(q, k)
    BY <1>6 DEF CacheInv, PrefixSound
  <2>. QED
    BY <1>4, <2>1, <2>4, <2>5, <1>3 DEF SameContent
<1>7. PrefixSound'
  <2>1. \A q \in Seqs : \A k \in 1 .. Len(block_table[q]) : block_table[q][k] \in BlockIds
    BY <1>1, Types
  <2>. QED
    BY <1>2, <1>6, <2>1 DEF PrefixSound, seqVars
<1>8. PrivateInv' /\ TableInv'
  BY <1>2, <1>4, <1>5 DEF CacheInv, PrivateInv, TableInv, seqVars
<1>9. FillInv' /\ ClaimInv'
  BY <1>2 DEF FillInv, ClaimInv, NoCall
<1>. QED
  BY <1>1, <1>4, <1>7, <1>8, <1>9 DEF CacheInv

LEMMA CallClaimCache ==
    ASSUME CacheInv, NEW s \in Seqs, CallClaim(s)
    PROVE  CacheInv'
<1>1. PoolInv' /\ PoolInv
  BY CallClaimPool DEF CacheInv
<1>2. PICK plan : ClaimPrefix(s, plan)
  BY DEF CallClaim
<1>3. /\ call = NoCall /\ call' = [op |-> "claim", seq |-> s, plan |-> plan]
      /\ UNCHANGED <<poolVars, token_ids, seqVars, chain>>
      /\ PlanIsCurrent(s, plan)
      /\ num_new_tokens[s] = 0 /\ num_cached_tokens[s] = Len(block_table[s]) * BlockSize
  BY <1>2 DEF ClaimPrefix, CallClaim
<1>4. SameContent
  BY <1>3, UnchangedContent DEF poolVars
<1>5. \A q \in Seqs : ContextEnd(q)' = ContextEnd(q)
  BY <1>3 DEF seqVars, ContextEnd
<1>6. \A q \in Seqs : \A k \in Nat : Reached(q, k)' = Reached(q, k)
  BY <1>3, <1>5 DEF Reached, NoCall
<1>7. PrefixSound' /\ PrivateInv'
  <2>1. \A q \in Seqs : \A k \in 1 .. Len(block_table[q]) : Reached(q, k)' = Reached(q, k)
    BY <1>1, <1>6, Types
  <2>. QED
    BY <1>1, <1>3, <1>4, <2>1, TablesKept DEF CacheInv, seqVars
<1>8. LineageSound' /\ ContentInv' /\ FreshInv'
  BY <1>4, ContentKept DEF CacheInv
<1>9. TableInv' /\ FillInv'
  BY <1>3, <1>5 DEF CacheInv, TableInv, FillInv, seqVars
<1>10. Continues(s, plan)
  <2>1. plan \in Seq(BlockIds)
    BY <1>1, <1>3 DEF PoolInv, TypeOK, Calls, NoCall
  <2>2. ASSUME NEW i \in 1 .. Len(plan)
        PROVE  Stores(plan[i], s, Len(block_table[s]) + i,
                      IF i = 1 THEN TableAt(s, Len(block_table[s])) ELSE plan[i - 1])
    <3>1. i - 1 = 0 <=> i = 1
      BY <2>1
    <3>. QED
      BY <1>3, <3>1 DEF PlanIsCurrent
  <2>. QED
    BY <2>2 DEF Continues
<1>11. Continues(s, plan)'
  BY <1>3, <1>10 DEF Continues, Stores, BlockHash, Prefix, SeqBlock, LineageOf, TableAt,
                     poolVars, seqVars
<1>12. ClaimInv'
  BY <1>3, <1>11 DEF ClaimInv, Continues, Stores, BlockHash, Prefix, SeqBlock, LineageOf, TableAt,
                     poolVars, seqVars
<1>. QED
  BY <1>1, <1>7, <1>8, <1>9, <1>12 DEF CacheInv

(* One iteration of deallocate takes the last block of a table; the last     *)
(* iteration also clears the counters.                                      *)
LEMMA ReleaseUnfolded ==
    ASSUME PoolInv, ReleaseBlock
    PROVE  \E s \in Seqs :
             /\ SameContent /\ token_ids' = token_ids /\ chain' = chain
             /\ call.op = "release" /\ call.seq = s
             /\ Len(block_table[s]) \in Nat /\ Len(block_table[s]) >= 1
             /\ Len(block_table'[s]) = Len(block_table[s]) - 1
             /\ \A k \in 1 .. Len(block_table[s]) - 1 : block_table'[s][k] = block_table[s][k]
             /\ Range(block_table'[s]) \subseteq Range(block_table[s])
             /\ \A q \in Seqs \ {s} :
                   block_table'[q] = block_table[q] /\ ContextEnd(q)' = ContextEnd(q)
             /\ \/ Len(block_table[s]) = 1 /\ call' = NoCall /\ ContextEnd(s)' = 0
                \/ Len(block_table[s]) # 1 /\ call' = call /\ ContextEnd(s)' = ContextEnd(s)
<1>1. TypeOK /\ ReleaseInv /\ call.op = "release"
  BY DEF PoolInv, ReleaseBlock
<1>2. PICK s, b : s = call.seq /\ b = block_table[s][Len(block_table[s])]
  OBVIOUS
<1>3. s \in Seqs /\ block_table[s] # <<>>
  BY <1>1, <1>2, CallKinds DEF ReleaseInv
<1> DEFINE last == Len(block_table[s]) = 1
<1>4. /\ blocks' = [blocks EXCEPT ![b].ref_count = @ - 1]
      /\ block_table' = [block_table EXCEPT ![s] = DropLast(@)]
      /\ num_cached_tokens' =
             IF last THEN [num_cached_tokens EXCEPT ![s] = 0] ELSE num_cached_tokens
      /\ num_new_tokens' =
             IF last THEN [num_new_tokens EXCEPT ![s] = 0] ELSE num_new_tokens
      /\ call' = IF last THEN NoCall ELSE call
      /\ token_ids' = token_ids /\ chain' = chain
  BY <1>2 DEF ReleaseBlock, DropLast
<1>5. /\ Len(block_table[s]) \in Nat /\ Len(block_table[s]) >= 1
      /\ DropLast(block_table[s]) \in Seq(BlockIds)
      /\ Len(DropLast(block_table[s])) = Len(block_table[s]) - 1
      /\ Range(DropLast(block_table[s])) \subseteq Range(block_table[s])
      /\ \A k \in 1 .. Len(block_table[s]) - 1 : DropLast(block_table[s])[k] = block_table[s][k]
  <2>1. block_table[s] \in Seq(BlockIds) /\ IsInjective(block_table[s])
    BY <1>3, Types
  <2>2. Len(block_table[s]) \in Nat /\ Len(block_table[s]) >= 1
    BY <1>3, <2>1
  <2>3. \A k \in 1 .. Len(block_table[s]) - 1 : DropLast(block_table[s])[k] = block_table[s][k]
    BY <2>1, <2>2 DEF DropLast
  <2>. QED
    BY <1>3, <2>1, <2>2, <2>3, DropLastFacts
<1>6. /\ block_table'[s] = DropLast(block_table[s])
      /\ \A q \in Seqs \ {s} : block_table'[q] = block_table[q]
  BY <1>3, <1>4, Types
<1>7. SameContent
  <2>1. blocks \in [BlockIds -> Block]
    BY Types
  <2>. QED
    BY <1>4, <2>1 DEF SameContent, Block
<1>8. /\ \A q \in Seqs \ {s} : ContextEnd(q)' = ContextEnd(q)
      /\ last => ContextEnd(s)' = 0
      /\ ~last => ContextEnd(s)' = ContextEnd(s)
  <2>1. num_cached_tokens \in [Seqs -> Nat] /\ num_new_tokens \in [Seqs -> Nat]
    BY <1>1 DEF TypeOK
  <2>. QED
    BY <1>3, <1>4, <2>1 DEF ContextEnd
<1>. QED
  BY <1>1, <1>2, <1>3, <1>4, <1>5, <1>6, <1>7, <1>8

LEMMA ReleaseBlockCache ==
    ASSUME CacheInv, ReleaseBlock
    PROVE  CacheInv'
<1>1. PoolInv' /\ PoolInv
  BY ReleaseBlockPool DEF CacheInv, PoolInv
<1>2. PICK s \in Seqs :
         /\ SameContent /\ token_ids' = token_ids /\ chain' = chain
         /\ call.op = "release" /\ call.seq = s
         /\ Len(block_table[s]) \in Nat /\ Len(block_table[s]) >= 1
         /\ Len(block_table'[s]) = Len(block_table[s]) - 1
         /\ \A k \in 1 .. Len(block_table[s]) - 1 : block_table'[s][k] = block_table[s][k]
         /\ Range(block_table'[s]) \subseteq Range(block_table[s])
         /\ \A q \in Seqs \ {s} :
               block_table'[q] = block_table[q] /\ ContextEnd(q)' = ContextEnd(q)
         /\ \/ Len(block_table[s]) = 1 /\ call' = NoCall /\ ContextEnd(s)' = 0
            \/ Len(block_table[s]) # 1 /\ call' = call /\ ContextEnd(s)' = ContextEnd(s)
  BY <1>1, ReleaseUnfolded
<1>3. PICK L \in Nat : L = Len(block_table[s])
  BY <1>2
<1>4. /\ L >= 1 /\ Len(block_table'[s]) = L - 1
      /\ \A k \in 1 .. L - 1 : block_table'[s][k] = block_table[s][k]
      /\ L # 1 => ContextEnd(s)' = ContextEnd(s)
  BY <1>2, <1>3
<1>8. LineageSound' /\ ContentInv' /\ FreshInv'
      /\ \A c \in BlockIds : Published(c)' <=> Published(c)
  BY <1>2, ContentKept DEF CacheInv
<1>10. call'.op # "fill" /\ call'.op # "claim"
  BY <1>2 DEF NoCall
<1>11. ASSUME NEW q \in Seqs, NEW k \in 1 .. Len(block_table'[q])
       PROVE  /\ k \in 1 .. Len(block_table[q]) /\ block_table'[q][k] = block_table[q][k]
              /\ ContextEnd(q)' = ContextEnd(q)
  <2>1. CASE q = s
    <3>1. k \in 1 .. L - 1 /\ k \in 1 .. L
      BY <1>4, <2>1
    <3>2. L # 1
      BY <3>1
    <3>. QED
      BY <1>3, <1>4, <2>1, <3>1, <3>2
  <2>2. CASE q # s
    BY <1>2, <2>2
  <2>. QED
    BY <2>1, <2>2
<1>12. ASSUME NEW q \in Seqs, NEW k \in 1 .. Len(block_table'[q]),
              NEW c \in BlockIds, c = block_table[q][k]
       PROVE  /\ chain'[c] = Prefix(q, StoredTokens(q, k))'
              /\ Published(c)' <=> (k * BlockSize <= Reached(q, k))'
  <2>1. k \in 1 .. Len(block_table[q]) /\ ContextEnd(q)' = ContextEnd(q)
    BY <1>11
  <2>2. Reached(q, k)' = Reached(q, k)
    BY <1>2, <1>10, <2>1 DEF Reached
  <2>3. Prefix(q, StoredTokens(q, k))' = Prefix(q, StoredTokens(q, k))
    BY <1>2, <2>2 DEF Prefix, StoredTokens
  <2>4. /\ chain[c] = Prefix(q, StoredTokens(q, k))
        /\ Published(c) <=> k * BlockSize <= Reached(q, k)
    BY <1>12, <2>1 DEF CacheInv, PrefixSound
  <2>. QED
    BY <1>2, <1>8, <2>2, <2>3, <2>4
<1>13. PrefixSound'
  <2>1. \A q \in Seqs : \A k \in 1 .. Len(block_table'[q]) : block_table[q][k] \in BlockIds
    BY <1>1, <1>11, Types
  <2>. QED
    BY <1>11, <1>12, <2>1 DEF PrefixSound
<1>14. PrivateInv'
  <2>1. \A q \in Seqs : Range(block_table'[q]) \subseteq Range(block_table[q])
    BY <1>2
  <2>. QED
    BY <1>8, <2>1 DEF CacheInv, PrivateInv
<1>15. TableInv'
  <2>1. ASSUME NEW q \in Seqs, Len(block_table'[q]) >= 1
        PROVE  ((Len(block_table[q]) - 1) * BlockSize < ContextEnd(q))'
    <3>1. CASE q # s
      BY <1>2, <2>1, <3>1 DEF CacheInv, TableInv
    <3>2. CASE q = s
      <4> DEFINE x == (L - 1) * BlockSize
                 y == (L - 2) * BlockSize
      <4>1. L >= 2 /\ Len(block_table'[s]) = L - 1
        BY <1>4, <2>1, <3>2
      <4>2. x < ContextEnd(s)
        BY <1>3, <1>4 DEF CacheInv, TableInv
      <4>3. L - 1 \in Nat \ {0} /\ (L - 1) - 1 = L - 2
        BY <4>1
      <4>4. y \in Nat /\ x \in Nat /\ x = y + BlockSize /\ BlockSize \in Nat
        BY <4>3, BlockBorders
      <4>5. ContextEnd(s)' = ContextEnd(s) /\ ContextEnd(s) \in Nat
        BY <1>1, <1>4, <4>1, Types
      <4>6. (Len(block_table'[s]) - 1) * BlockSize = y
        BY <4>1, <4>3
      <4>. HIDE DEF x, y
      <4>7. y < ContextEnd(s)'
        BY <4>2, <4>4, <4>5
      <4>. QED
        BY <3>2, <4>6, <4>7
    <3>. QED
      BY <3>1, <3>2
  <2>. QED
    BY <2>1 DEF TableInv
<1>16. FillInv' /\ ClaimInv'
  BY <1>10 DEF FillInv, ClaimInv
<1>. QED
  BY <1>1, <1>8, <1>13, <1>14, <1>15, <1>16 DEF CacheInv

(* A full block stays full, whatever is committed after it.                  *)
LEMMA StoredFull ==
    ASSUME NEW q \in Seqs, NEW k \in Nat \ {0}, NEW m \in Nat, k * BlockSize <= m,
           Reached(q, k) = m
    PROVE  StoredTokens(q, k) = k * BlockSize
<1> DEFINE n == k * BlockSize
<1>1. n \in Nat /\ n <= m
  BY BlockBorders
<1>2. StoredTokens(q, k) = MinOf(n, m)
  BY DEF StoredTokens
<1>. HIDE DEF n
<1>3. StoredTokens(q, k) = n
  BY <1>1, <1>2 DEF MinOf
<1>. QED
  BY <1>3 DEF n

(* allocate_new and may_append commit tokens; the blocks before the one they *)
(* start at are full.                                                      *)
LEMMA CallFillCache ==
    ASSUME CacheInv, NEW s \in Seqs, CallFill(s)
    PROVE  CacheInv'
<1>1. PoolInv' /\ PoolInv
  BY CallFillPool DEF CacheInv
<1>2. PICK n \in 1 .. SeqLen(s) - num_cached_tokens[s] : AllocateNew(s, n) \/ MayAppend(s, n)
  BY DEF CallFill
<1>3. /\ num_new_tokens[s] = 0 /\ call = NoCall
      /\ num_new_tokens' = [num_new_tokens EXCEPT ![s] = n]
      /\ UNCHANGED <<poolVars, token_ids, block_table, num_cached_tokens, chain>>
  BY <1>2 DEF CallFill, AllocateNew, MayAppend
<1> DEFINE L == Len(block_table[s])
           C == num_cached_tokens[s]
<1>4. /\ C \in Nat /\ n \in Nat /\ n >= 1 /\ BlockSize \in Nat \ {0} /\ ContextEnd(s) = C
      /\ block_table[s] \in Seq(BlockIds) /\ L \in Nat
  <2>1. C \in Nat /\ SeqLen(s) \in Nat /\ block_table[s] \in Seq(BlockIds)
    BY <1>1, Types
  <2>. QED
    BY <1>3, <2>1, BlockManagerAssumption DEF ContextEnd
<1>5. PICK a \in Nat : /\ call' = [op |-> "fill", seq |-> s, index |-> a + 1]
                       /\ a * BlockSize <= C /\ L <= a + 1
  <2>1. CASE AllocateNew(s, n)
    <3>1. call' = [op |-> "fill", seq |-> s, index |-> L + 1] /\ C = L * BlockSize
      BY <2>1 DEF AllocateNew, ClaimedPrefixValid
    <3>2. L * BlockSize <= C /\ L \in Nat /\ L <= L + 1
      BY <1>4, <3>1
    <3>. HIDE DEF L, C
    <3>. QED
      BY <3>1, <3>2
  <2>2. CASE MayAppend(s, n)
    <3> DEFINE a == C \div BlockSize
    <3>1. call' = [op |-> "fill", seq |-> s, index |-> a + 1]
      BY <2>2 DEF MayAppend
    <3>2. a \in Nat /\ a * BlockSize <= C /\ C < a * BlockSize + BlockSize
      BY <1>4, DivFacts
    <3>. HIDE DEF a
    <3>3. L <= a + 1
      <4>1. CASE L = 0
        BY <3>2, <4>1
      <4>2. CASE L >= 1
        <5> DEFINE x == (L - 1) * BlockSize
                   y == a * BlockSize
        <5>1. x < C
          BY <1>4, <4>2 DEF CacheInv, TableInv
        <5>2. L - 1 \in Nat
          BY <1>4, <4>2
        <5>3. x \in Nat /\ y \in Nat /\ (a < L - 1 => y + BlockSize <= x)
          BY <1>4, <3>2, <5>2, MulFacts
        <5>4. C < y + BlockSize
          BY <3>2
        <5>. HIDE DEF x, y
        <5>5. ~(a < L - 1)
          BY <1>4, <5>1, <5>3, <5>4
        <5>. QED
          BY <3>2, <5>2, <5>5
      <4>. QED
        BY <1>4, <4>1, <4>2
    <3>. QED
      BY <3>1, <3>2, <3>3
  <2>. QED
    BY <1>2, <2>1, <2>2
<1>6. SameContent
  BY <1>3, UnchangedContent DEF poolVars
<1>7. LineageSound' /\ ContentInv' /\ FreshInv'
      /\ \A c \in BlockIds : Published(c)' <=> Published(c)
  BY <1>6, ContentKept DEF CacheInv
<1>8. /\ ContextEnd(s)' = C + n /\ num_new_tokens'[s] = n
      /\ \A q \in Seqs \ {s} : ContextEnd(q)' = ContextEnd(q)
  <2>1. num_new_tokens \in [Seqs -> Nat]
    BY <1>1 DEF PoolInv, TypeOK
  <2>. QED
    BY <1>3, <1>4, <2>1 DEF ContextEnd
<1>9. /\ call.op # "fill" /\ call'.op = "fill" /\ call'.seq = s /\ call'.index = a + 1
  BY <1>3, <1>5 DEF NoCall
<1>10. ASSUME NEW q \in Seqs, NEW k \in 1 .. Len(block_table[q]),
              NEW c \in BlockIds, c = block_table[q][k]
       PROVE  /\ chain'[c] = Prefix(q, StoredTokens(q, k))'
              /\ Published(c)' <=> (k * BlockSize <= Reached(q, k))'
  <2>1. /\ chain[c] = Prefix(q, StoredTokens(q, k))
        /\ Published(c) <=> k * BlockSize <= Reached(q, k)
    BY <1>10 DEF CacheInv, PrefixSound
  <2>2. ASSUME StoredTokens(q, k)' = StoredTokens(q, k),
               (k * BlockSize <= Reached(q, k))' <=> k * BlockSize <= Reached(q, k)
        PROVE  /\ chain'[c] = Prefix(q, StoredTokens(q, k))'
               /\ Published(c)' <=> (k * BlockSize <= Reached(q, k))'
    <3>1. Prefix(q, StoredTokens(q, k))' = Prefix(q, StoredTokens(q, k))
      BY <1>3, <2>2 DEF Prefix
    <3>. QED
      BY <1>3, <1>7, <2>1, <2>2, <3>1
  <2>3. CASE q # s \/ k > a
    <3>1. Reached(q, k)' = Reached(q, k)
      <4>1. CASE q # s
        BY <1>8, <1>9, <4>1 DEF Reached
      <4>2. CASE q = s /\ k > a
        <5>1. a + 1 <= k
          BY <4>2
        <5>2. Reached(q, k)' = C
          BY <1>3, <1>9, <4>2, <5>1 DEF Reached
        <5>3. Reached(q, k) = C
          BY <1>4, <1>9, <4>2 DEF Reached
        <5>. QED
          BY <5>2, <5>3
      <4>. QED
        BY <2>3, <4>1, <4>2
    <3>2. StoredTokens(q, k)' = StoredTokens(q, k)
      BY <3>1 DEF StoredTokens
    <3>. QED
      BY <2>2, <3>1, <3>2
  <2>4. CASE q = s /\ ~(k > a)
    <3>1. k \in Nat \ {0} /\ k <= a /\ ~(a + 1 <= k)
      BY <2>4
    <3>2. Reached(q, k)' = C + n /\ Reached(q, k) = C
      BY <1>4, <1>8, <1>9, <2>4, <3>1 DEF Reached
    <3>3. k * BlockSize <= C
      <4>1. k * BlockSize <= a * BlockSize /\ k * BlockSize \in Nat /\ a * BlockSize \in Nat
        BY <1>4, <3>1, MulFacts
      <4>. QED
        BY <1>4, <1>5, <4>1
    <3>4. k * BlockSize <= C + n /\ C + n \in Nat
      <4>1. k * BlockSize \in Nat
        BY <3>1, BlockBorders
      <4>. QED
        BY <1>4, <3>3, <4>1
    <3>5. StoredTokens(q, k) = k * BlockSize
      BY <1>4, <3>1, <3>2, <3>3, StoredFull
    <3>6. StoredTokens(q, k)' = MinOf(k * BlockSize, C + n)
      BY <3>2 DEF StoredTokens
    <3>7. MinOf(k * BlockSize, C + n) = k * BlockSize
      <4> DEFINE x == k * BlockSize
      <4>1. x \in Nat /\ x <= C + n
        BY <3>1, <3>4, BlockBorders
      <4>. HIDE DEF x
      <4>2. MinOf(x, C + n) = x
        BY <3>4, <4>1 DEF MinOf
      <4>. QED
        BY <4>2 DEF x
    <3>8. (k * BlockSize <= Reached(q, k))' <=> k * BlockSize <= Reached(q, k)
      BY <3>2, <3>3, <3>4
    <3>. QED
      BY <2>2, <3>5, <3>6, <3>7, <3>8
  <2>. QED
    BY <2>3, <2>4
<1>11. PrefixSound'
  <2>1. \A q \in Seqs : \A k \in 1 .. Len(block_table[q]) : block_table[q][k] \in BlockIds
    BY <1>1, Types
  <2>. QED
    BY <1>3, <1>10, <2>1 DEF PrefixSound
<1>12. PrivateInv'
  BY <1>3, <1>7 DEF CacheInv, PrivateInv
<1>13. TableInv'
  <2>1. ASSUME NEW q \in Seqs, Len(block_table[q]) >= 1
        PROVE  (Len(block_table[q]) - 1) * BlockSize < ContextEnd(q)'
    <3>1. (Len(block_table[q]) - 1) * BlockSize < ContextEnd(q)
      BY <2>1 DEF CacheInv, TableInv
    <3>2. Len(block_table[q]) - 1 \in Nat
      BY <1>1, <2>1, Types
    <3>3. PICK x \in Nat : x = (Len(block_table[q]) - 1) * BlockSize
      BY <1>4, <3>2, MulFacts
    <3>. QED
      BY <1>4, <1>8, <3>1, <3>3
  <2>. QED
    BY <1>3, <2>1 DEF TableInv
<1>14. FillInv'
  <2>1. a * BlockSize < C + n /\ (a + 1) - 1 = a
    <3>1. a * BlockSize \in Nat
      BY <1>4, MulFacts
    <3>. QED
      BY <1>4, <1>5, <3>1
  <2>2. ContextEnd(call.seq)' = ContextEnd(s)'
    BY <1>9 DEF ContextEnd
  <2>. QED
    BY <1>3, <1>4, <1>5, <1>8, <1>9, <2>1, <2>2 DEF FillInv
<1>15. ClaimInv'
  BY <1>9 DEF ClaimInv
<1>. QED
  BY <1>1, <1>7, <1>11, <1>12, <1>13, <1>14, <1>15 DEF CacheInv

(* The block before position k of a table whose first k - 1 blocks are full  *)
(* stores what comes before block k.                                       *)
LEMMA PreviousStores ==
    ASSUME PoolInv, PrefixSound, NEW s \in Seqs, NEW k \in Nat \ {0},
           k - 1 <= Len(block_table[s]),
           k > 1 => (k - 1) * BlockSize <= Reached(s, k - 1)
    PROVE  /\ k = 1 => TableAt(s, k - 1) = None
           /\ k > 1 => /\ TableAt(s, k - 1) \in BlockIds /\ Published(TableAt(s, k - 1))
                       /\ TableAt(s, k - 1) = block_table[s][k - 1]
                       /\ chain[TableAt(s, k - 1)] = Prefix(s, (k - 1) * BlockSize)
<1>1. k = 1 => TableAt(s, k - 1) = None
  BY DEF TableAt
<1>2. ASSUME k > 1
      PROVE  /\ TableAt(s, k - 1) \in BlockIds /\ Published(TableAt(s, k - 1))
             /\ TableAt(s, k - 1) = block_table[s][k - 1]
             /\ chain[TableAt(s, k - 1)] = Prefix(s, (k - 1) * BlockSize)
  <2>1. block_table[s] \in Seq(BlockIds) /\ Len(block_table[s]) \in Nat
    BY Types
  <2>2. k - 1 \in 1 .. Len(block_table[s]) /\ k - 1 \in Nat \ {0} /\ k - 1 # 0
    BY <1>2, <2>1
  <2>3. TableAt(s, k - 1) = block_table[s][k - 1] /\ block_table[s][k - 1] \in BlockIds
    BY <2>1, <2>2 DEF TableAt
  <2>4. Reached(s, k - 1) \in Nat
    BY <2>2, StoredFacts
  <2>5. StoredTokens(s, k - 1) = (k - 1) * BlockSize
    BY <1>2, <2>2, <2>4, StoredFull
  <2>. QED
    BY <1>2, <2>2, <2>3, <2>5 DEF PrefixSound
<1>. QED
  BY <1>1, <1>2

(* One iteration of claim_prefix: s takes b, the next block of its plan.     *)
ClaimStep(s, plan, b) ==
    /\ call = [op |-> "claim", seq |-> s, plan |-> plan]
    /\ plan \in Seq(BlockIds) \ {<<>>} /\ b = Head(plan)
    /\ \E n : blocks' = [blocks EXCEPT ![b].ref_count = n]
    /\ block_table' = [block_table EXCEPT ![s] = Append(@, b)]
    /\ num_cached_tokens' = [num_cached_tokens EXCEPT ![s] = @ + BlockSize]
    /\ call' = IF Len(plan) = 1
                 THEN NoCall
                 ELSE [op |-> "claim", seq |-> s, plan |-> Tail(plan)]
    /\ UNCHANGED <<hash_to_block_id, token_ids, num_new_tokens, chain>>

LEMMA ClaimUnfolded ==
    ASSUME PoolInv, ClaimBlock
    PROVE  \E s, plan, b : s \in Seqs /\ ClaimStep(s, plan, b)
<1>1. PICK s, plan, b : s = call.seq /\ plan = call.plan /\ b = Head(plan)
  OBVIOUS
<1>2. TypeOK /\ call.op = "claim"
  BY DEF PoolInv, ClaimBlock
<1>3. /\ call \in [op : {"claim"}, seq : Seqs, plan : Seq(BlockIds) \ {<<>>}]
      /\ s \in Seqs /\ plan \in Seq(BlockIds) \ {<<>>}
      /\ call = [op |-> "claim", seq |-> s, plan |-> plan]
  BY <1>1, <1>2, CallKinds
<1>4. /\ \/ blocks' = [blocks EXCEPT ![b].ref_count = 1]
         \/ blocks' = [blocks EXCEPT ![b].ref_count = @ + 1]
      /\ block_table' = [block_table EXCEPT ![s] = Append(@, b)]
      /\ num_cached_tokens' = [num_cached_tokens EXCEPT ![s] = @ + BlockSize]
      /\ call' = IF Len(plan) = 1 THEN NoCall ELSE [call EXCEPT !.plan = Tail(@)]
      /\ UNCHANGED <<hash_to_block_id, token_ids, num_new_tokens, chain>>
  BY <1>1 DEF ClaimBlock
<1>5. \E n : blocks' = [blocks EXCEPT ![b].ref_count = n]
  BY <1>4
<1>a. call' = IF Len(plan) = 1
                THEN NoCall
                ELSE [op |-> "claim", seq |-> s, plan |-> Tail(plan)]
  <2>1. [call EXCEPT !.plan = Tail(@)] = [op |-> "claim", seq |-> s, plan |-> Tail(plan)]
    <3>1. call = [op |-> "claim", seq |-> s, plan |-> plan]
      BY <1>3
    <3>2. call.plan = plan
      BY <3>1
    <3>3. PICK tail : tail = Tail(plan)
      OBVIOUS
    <3>4. [call EXCEPT !.plan = tail] = [op |-> "claim", seq |-> s, plan |-> tail]
      BY <3>1
    <3>. QED
      BY <3>2, <3>3, <3>4
  <2>. QED
    BY <1>4, <2>1
<1>6. ClaimStep(s, plan, b)
  BY <1>1, <1>3, <1>4, <1>5, <1>a DEF ClaimStep
<1>. QED
  BY <1>3, <1>6

(* Where a claim stands: the table of s, and its cached tokens, grow by the   *)
(* block; what the blocks are known by stays.                               *)
LEMMA ClaimPlace ==
    ASSUME CacheInv, NEW s \in Seqs, NEW plan, NEW b, ClaimStep(s, plan, b)
    PROVE  /\ SameContent
           /\ b \in BlockIds /\ b = plan[1] /\ Len(plan) \in Nat /\ Len(plan) >= 1
           /\ Len(Tail(plan)) = Len(plan) - 1
           /\ \A i \in 1 .. Len(plan) - 1 : Tail(plan)[i] = plan[i + 1]
           /\ \A i \in 1 .. Len(plan) : plan[i] \in BlockIds
           /\ \A q \in Seqs : block_table[q] \in Seq(BlockIds)
           /\ block_table'[s] = Append(block_table[s], b)
           /\ \A q \in Seqs \ {s} : block_table'[q] = block_table[q]
           /\ Len(block_table'[s]) = Len(block_table[s]) + 1
           /\ block_table'[s][Len(block_table[s]) + 1] = b
           /\ \A k \in 1 .. Len(block_table[s]) : block_table'[s][k] = block_table[s][k]
           /\ Range(block_table'[s]) = Range(block_table[s]) \cup {b}
           /\ Continues(s, plan)
           /\ ContextEnd(s) + Len(plan) * BlockSize <= SeqLen(s)
           /\ ContextEnd(s) = Len(block_table[s]) * BlockSize
           /\ ContextEnd(s)' = (Len(block_table[s]) + 1) * BlockSize
           /\ num_cached_tokens'[s] = (Len(block_table[s]) + 1) * BlockSize
           /\ num_new_tokens'[s] = 0
           /\ \A q \in Seqs \ {s} : ContextEnd(q)' = ContextEnd(q)
<1> DEFINE L == Len(block_table[s])
<1>1. PoolInv /\ TypeOK /\ PlanInv /\ ClaimInv
  BY DEF CacheInv, PoolInv
<1>2. call.op = "claim" /\ call.seq = s /\ call.plan = plan
  BY DEF ClaimStep
<1>3. /\ plan \in Seq(BlockIds) /\ plan # <<>> /\ b = Head(plan)
      /\ block_table' = [block_table EXCEPT ![s] = Append(@, b)]
      /\ num_cached_tokens' = [num_cached_tokens EXCEPT ![s] = @ + BlockSize]
      /\ token_ids' = token_ids /\ num_new_tokens' = num_new_tokens /\ chain' = chain
  BY DEF ClaimStep
<1>4. /\ b \in BlockIds /\ b = plan[1] /\ Len(plan) \in Nat /\ Len(plan) >= 1
      /\ Len(Tail(plan)) = Len(plan) - 1
      /\ \A i \in 1 .. Len(plan) - 1 : Tail(plan)[i] = plan[i + 1]
      /\ \A i \in 1 .. Len(plan) : plan[i] \in BlockIds
  BY <1>3
<1>5. /\ block_table[s] \in Seq(BlockIds) /\ L \in Nat
      /\ \A q \in Seqs : block_table[q] \in Seq(BlockIds)
      /\ block_table \in [Seqs -> Seq(BlockIds)]
  BY <1>1, Types
<1>6. SameContent
  <2>1. blocks \in [BlockIds -> Block]
    BY <1>1, Types
  <2>2. PICK n : blocks' = [blocks EXCEPT ![b].ref_count = n]
    BY DEF ClaimStep
  <2>. QED
    BY <1>3, <2>1, <2>2 DEF SameContent, Block
<1>7. /\ block_table'[s] = Append(block_table[s], b)
      /\ \A q \in Seqs \ {s} : block_table'[q] = block_table[q]
      /\ Len(block_table'[s]) = L + 1 /\ block_table'[s][L + 1] = b
      /\ \A k \in 1 .. L : block_table'[s][k] = block_table[s][k]
      /\ Range(block_table'[s]) = Range(block_table[s]) \cup {b}
  <2>1. block_table'[s] = Append(block_table[s], b)
        /\ \A q \in Seqs \ {s} : block_table'[q] = block_table[q]
    BY <1>3, <1>5
  <2>2. Range(Append(block_table[s], b)) = Range(block_table[s]) \cup {b}
    BY <1>4, <1>5, AppendFacts
  <2>. QED
    BY <1>4, <1>5, <2>1, <2>2
<1>8. /\ num_new_tokens[s] = 0 /\ num_cached_tokens[s] = L * BlockSize
      /\ Continues(s, plan) /\ ContextEnd(s) + Len(plan) * BlockSize <= SeqLen(s)
  BY <1>1, <1>2 DEF ClaimInv, PlanInv
<1> DEFINE x == L * BlockSize
           y == (L + 1) * BlockSize
<1>9. x \in Nat /\ y \in Nat /\ y = x + BlockSize /\ BlockSize \in Nat
  <2>1. L + 1 \in Nat \ {0} /\ (L + 1) - 1 = L
    BY <1>5
  <2>. QED
    BY <2>1, BlockBorders
<1>10. /\ ContextEnd(s) = x /\ ContextEnd(s)' = y
       /\ num_cached_tokens'[s] = y /\ num_new_tokens'[s] = 0
       /\ \A q \in Seqs \ {s} : ContextEnd(q)' = ContextEnd(q)
  <2>1. num_cached_tokens \in [Seqs -> Nat]
    BY <1>1 DEF TypeOK
  <2>2. num_cached_tokens[s] = x
    BY <1>8
  <2>. HIDE DEF x, y
  <2>3. num_cached_tokens'[s] = y /\ num_new_tokens'[s] = 0
    BY <1>3, <1>8, <1>9, <2>1, <2>2
  <2>4. ContextEnd(s) = x /\ ContextEnd(s)' = y
    BY <1>8, <1>9, <2>2, <2>3 DEF ContextEnd
  <2>5. \A q \in Seqs \ {s} : ContextEnd(q)' = ContextEnd(q)
    BY <1>3, <2>1 DEF ContextEnd
  <2>. QED
    BY <2>3, <2>4, <2>5
<1>. QED
  BY <1>4, <1>5, <1>6, <1>7, <1>8, <1>10

(* claim_prefix takes the next block of a plan that was validated: it stores *)
(* the prefix of the request up to the end of that block.                   *)
LEMMA ClaimBlockCache ==
    ASSUME CacheInv, ClaimBlock
    PROVE  CacheInv'
<1>1. /\ PoolInv' /\ PoolInv /\ TypeOK
      /\ PrefixSound /\ LineageSound /\ ContentInv /\ FreshInv /\ TableInv /\ PrivateInv
  BY ClaimBlockPool DEF CacheInv, PoolInv
<1>2. PICK s, plan, b : s \in Seqs /\ ClaimStep(s, plan, b)
  BY <1>1, ClaimUnfolded
<1>3. /\ call.op = "claim" /\ plan \in Seq(BlockIds)
      /\ call' = IF Len(plan) = 1
                   THEN NoCall
                   ELSE [op |-> "claim", seq |-> s, plan |-> Tail(plan)]
      /\ token_ids' = token_ids /\ num_new_tokens' = num_new_tokens /\ chain' = chain
  BY <1>2 DEF ClaimStep
<1> DEFINE L == Len(block_table[s])
<1>4. /\ b \in BlockIds /\ b = plan[1] /\ Len(plan) \in Nat /\ Len(plan) >= 1
      /\ Len(Tail(plan)) = Len(plan) - 1
      /\ \A i \in 1 .. Len(plan) - 1 : Tail(plan)[i] = plan[i + 1]
      /\ \A i \in 1 .. Len(plan) : plan[i] \in BlockIds
  BY <1>2, ClaimPlace
<1>5. /\ block_table[s] \in Seq(BlockIds) /\ L \in Nat
      /\ \A q \in Seqs : block_table[q] \in Seq(BlockIds)
  BY <1>1, <1>2, Types
<1>6. SameContent
  BY <1>2, ClaimPlace
<1>7. LineageSound' /\ ContentInv' /\ FreshInv'
      /\ \A c \in BlockIds : Published(c)' <=> Published(c)
  BY <1>1, <1>6, ContentKept
<1>8. Continues(s, plan) /\ ContextEnd(s) + Len(plan) * BlockSize <= SeqLen(s)
  BY <1>2, ClaimPlace
<1> DEFINE x == L * BlockSize
           y == (L + 1) * BlockSize
<1>9. x \in Nat /\ y \in Nat /\ y = x + BlockSize /\ BlockSize \in Nat /\ BlockSize >= 1
  <2>1. L + 1 \in Nat \ {0} /\ (L + 1) - 1 = L
    BY <1>5
  <2>. QED
    BY <2>1, BlockBorders
<1>10. /\ ContextEnd(s) = x /\ ContextEnd(s)' = y
       /\ num_cached_tokens'[s] = y /\ num_new_tokens'[s] = 0
       /\ \A q \in Seqs \ {s} : ContextEnd(q)' = ContextEnd(q)
  BY <1>2, ClaimPlace
<1>11. y <= SeqLen(s)
  <2>1. 1 * BlockSize <= Len(plan) * BlockSize /\ Len(plan) * BlockSize \in Nat
        /\ 1 * BlockSize = BlockSize
    BY <1>4, <1>9, MulFacts
  <2>2. x + Len(plan) * BlockSize <= SeqLen(s) /\ SeqLen(s) \in Nat
    BY <1>1, <1>2, <1>8, <1>10, Types
  <2>. HIDE DEF x, y
  <2>. QED
    BY <1>9, <2>1, <2>2
<1>12. call'.op # "fill" /\ call.op # "fill"
  BY <1>3 DEF NoCall
<1>13. \A q \in Seqs : \A k \in Nat :
          Reached(q, k) = ContextEnd(q) /\ Reached(q, k)' = ContextEnd(q)'
  BY <1>12 DEF Reached
<1>14. Published(b) /\ chain[b] = Prefix(s, y)
  <2> DEFINE k == L + 1
             prev == TableAt(s, k - 1)
  <2>1. k \in Nat \ {0} /\ k - 1 = L /\ k - 1 <= Len(block_table[s]) /\ 1 \in 1 .. Len(plan)
    BY <1>4, <1>5
  <2>2. (k - 1) * BlockSize <= Reached(s, k - 1)
    BY <1>2, <1>5, <1>9, <1>10, <1>13, <2>1
  <2>3. /\ k = 1 => prev = None
        /\ k > 1 => /\ prev \in BlockIds /\ Published(prev)
                    /\ chain[prev] = Prefix(s, (k - 1) * BlockSize)
    BY <1>1, <1>2, <2>1, <2>2, PreviousStores
  <2>4. Stores(b, s, k, prev)
    <3>1. Stores(plan[1], s, Len(block_table[s]) + 1,
                 IF 1 = 1 THEN TableAt(s, Len(block_table[s])) ELSE plan[1 - 1])
      BY <1>8, <2>1 DEF Continues
    <3>. QED
      BY <1>4, <2>1, <3>1
  <2>5. k * BlockSize <= SeqLen(s)
    BY <1>11
  <2>. HIDE DEF k, prev
  <2>6. Published(b) /\ chain[b] = Prefix(s, k * BlockSize)
    BY <1>1, <1>2, <1>4, <2>1, <2>3, <2>4, <2>5, StoresChain
  <2>. QED
    BY <2>6 DEF k
<1>15. /\ block_table'[s] = Append(block_table[s], b)
       /\ \A q \in Seqs \ {s} : block_table'[q] = block_table[q]
       /\ Len(block_table'[s]) = L + 1 /\ block_table'[s][L + 1] = b
       /\ \A k \in 1 .. L : block_table'[s][k] = block_table[s][k]
       /\ Range(block_table'[s]) = Range(block_table[s]) \cup {b}
  <2>1. /\ block_table'[s] = Append(block_table[s], b)
        /\ \A q \in Seqs \ {s} : block_table'[q] = block_table[q]
        /\ Range(block_table'[s]) = Range(block_table[s]) \cup {b}
    BY <1>2, ClaimPlace
  <2>. QED
    BY <1>4, <1>5, <2>1
<1>16. ASSUME NEW q \in Seqs, NEW k \in 1 .. Len(block_table'[q]),
              NEW c \in BlockIds, c = block_table'[q][k]
       PROVE  /\ chain'[c] = Prefix(q, StoredTokens(q, k))'
              /\ Published(c)' <=> (k * BlockSize <= Reached(q, k))'
  <2>0. Len(block_table'[q]) \in Nat /\ k \in Nat \ {0}
    BY <1>5, <1>15
  <2>1. CASE q # s
    <3>1. k \in 1 .. Len(block_table[q]) /\ c = block_table[q][k]
      BY <1>15, <1>16, <2>1
    <3>2. /\ chain[c] = Prefix(q, StoredTokens(q, k))
          /\ Published(c) <=> k * BlockSize <= Reached(q, k)
      BY <1>1, <3>1 DEF PrefixSound
    <3>3. Reached(q, k)' = Reached(q, k)
      BY <1>10, <1>13, <2>0, <2>1
    <3>4. Prefix(q, StoredTokens(q, k))' = Prefix(q, StoredTokens(q, k))
      BY <1>3, <3>3 DEF Prefix, StoredTokens
    <3>. QED
      BY <1>3, <1>7, <3>2, <3>3, <3>4
  <2>2. CASE q = s
    <3> DEFINE n == k * BlockSize
    <3>1. k <= L + 1 /\ Reached(s, k)' = y /\ Reached(s, k) = x
      BY <1>2, <1>10, <1>13, <1>15, <2>0, <2>2
    <3>2. n \in Nat /\ n <= y /\ (k <= L => n <= x)
      <4>1. L + 1 \in Nat /\ k \in Nat
        BY <1>5, <2>0
      <4>2. /\ k <= L + 1 => k * BlockSize <= (L + 1) * BlockSize
            /\ k * BlockSize \in Nat
        BY <4>1, BlockManagerAssumption, MulFacts
      <4>3. k <= L => k * BlockSize <= L * BlockSize
        BY <1>5, <4>1, BlockManagerAssumption, MulFacts
      <4>. QED
        BY <3>1, <4>2, <4>3
    <3>3. StoredTokens(s, k)' = n
      <4>1. StoredTokens(s, k)' = MinOf(n, y)
        BY <3>1 DEF StoredTokens
      <4>. HIDE DEF n, y
      <4>. QED
        BY <1>9, <3>2, <4>1 DEF MinOf
    <3>4. Published(c) /\ chain[c] = Prefix(s, n)
      <4>1. CASE k <= L
        <5>1. k \in 1 .. Len(block_table[s]) /\ c = block_table[s][k]
          BY <1>15, <1>16, <2>0, <2>2, <4>1
        <5>2. StoredTokens(s, k) = n
          BY <1>2, <1>9, <2>0, <3>1, <3>2, <4>1, StoredFull
        <5>3. k * BlockSize <= Reached(s, k)
          BY <3>1, <3>2, <4>1
        <5>. QED
          BY <1>1, <1>2, <5>1, <5>2, <5>3 DEF PrefixSound
      <4>2. CASE k = L + 1
        BY <1>14, <1>15, <1>16, <2>2, <4>2
      <4>. QED
        BY <1>5, <2>0, <3>1, <4>1, <4>2
    <3>5. Prefix(q, StoredTokens(q, k))' = Prefix(s, n)
      BY <1>3, <2>2, <3>3 DEF Prefix
    <3>6. (k * BlockSize <= Reached(q, k))'
      BY <2>2, <3>1, <3>2
    <3>. QED
      BY <1>3, <1>7, <3>4, <3>5, <3>6
  <2>. QED
    BY <2>1, <2>2
<1>17. PrefixSound'
  <2>1. \A q \in Seqs : \A k \in 1 .. Len(block_table'[q]) : block_table'[q][k] \in BlockIds
    <3>1. block_table' \in [Seqs -> Seq(BlockIds)]
      BY <1>1 DEF PoolInv, TypeOK
    <3>. QED
      BY <3>1
  <2>. QED
    BY <1>16, <2>1 DEF PrefixSound
<1>18. PrivateInv'
  <2>1. ASSUME NEW q \in Seqs, NEW r \in Seqs, NEW c \in BlockIds,
               c \in Range(block_table'[q]), c \in Range(block_table'[r]), ~Published(c)'
        PROVE  q = r
    <3>1. c # b /\ ~Published(c)
      BY <1>7, <1>14, <2>1
    <3>2. c \in Range(block_table[q]) /\ c \in Range(block_table[r])
      BY <1>15, <2>1, <3>1
    <3>. QED
      BY <1>1, <3>1, <3>2 DEF PrivateInv
  <2>. QED
    BY <2>1 DEF PrivateInv
<1>19. TableInv'
  <2>1. (Len(block_table'[s]) - 1) * BlockSize < ContextEnd(s)'
    <3>1. Len(block_table'[s]) - 1 = L
      BY <1>5, <1>15
    <3>2. x < y
      <4>. HIDE DEF x, y
      <4>. QED
        BY <1>9
    <3>. QED
      BY <1>10, <3>1, <3>2
  <2>. QED
    BY <1>1, <1>10, <1>15, <2>1 DEF TableInv
<1>20. FillInv'
  BY <1>12 DEF FillInv
<1>21. ClaimInv'
  <2>1. CASE Len(plan) = 1
    BY <1>3, <2>1 DEF ClaimInv, NoCall
  <2>2. CASE Len(plan) # 1
    <3>1. call' = [op |-> "claim", seq |-> s, plan |-> Tail(plan)]
      BY <1>3, <2>2
    <3>a. PICK m \in Nat : m = L
      BY <1>5
    <3>2. ASSUME NEW i \in 1 .. Len(Tail(plan)), NEW p \in BlockIds, p = Tail(plan)[i],
                 NEW prev \in BlockIds,
                 prev = IF i = 1 THEN b ELSE Tail(plan)[i - 1]
          PROVE  Stores(p, s, (m + 1) + i, prev)'
      <4>0. i \in Nat /\ i >= 1 /\ i <= Len(plan) - 1
        BY <1>4
      <4>1. /\ i + 1 \in 1 .. Len(plan) /\ i + 1 # 1 /\ (i + 1) - 1 = i
            /\ m + (i + 1) = (m + 1) + i
        BY <1>4, <4>0
      <4>2. p = plan[i + 1]
        BY <1>4, <3>2
      <4>3. prev = plan[i]
        <5>1. i = 1 \/ (i > 1 /\ i - 1 \in 1 .. Len(plan) - 1 /\ (i - 1) + 1 = i)
          BY <1>4
        <5>. QED
          BY <1>4, <3>2, <5>1
      <4>4. Stores(plan[i + 1], s, m + (i + 1),
                   IF i + 1 = 1 THEN TableAt(s, L) ELSE plan[(i + 1) - 1])
        BY <1>8, <3>a, <4>1 DEF Continues
      <4>5. Stores(p, s, (m + 1) + i, prev)
        BY <4>1, <4>2, <4>3, <4>4
      <4>. QED
        BY <1>2, <1>3, <1>6, <4>5, StoresKept
    <3>3. TableAt(s, Len(block_table[s]))' = b
      BY <1>5, <1>15 DEF TableAt
    <3>4. \A i \in 1 .. Len(Tail(plan)) :
             /\ Tail(plan)[i] \in BlockIds
             /\ (IF i = 1 THEN b ELSE Tail(plan)[i - 1]) \in BlockIds
      <4>1. Tail(plan) \in Seq(BlockIds)
        BY <1>3, <1>4
      <4>. QED
        BY <1>4, <4>1
    <3>5. \A i \in 1 .. Len(Tail(plan)) :
             Stores(Tail(plan)[i], s, Len(block_table[s]) + i,
                    IF i = 1 THEN TableAt(s, Len(block_table[s])) ELSE Tail(plan)[i - 1])'
      <4>1. Len(block_table[s])' = m + 1
        BY <1>15, <3>a
      <4>. QED
        BY <3>2, <3>3, <3>4, <4>1
    <3>6. Continues(s, Tail(plan))'
      BY <3>5 DEF Continues
    <3>7. Continues(call.seq, call.plan)'
      BY <3>1, <3>6 DEF Continues, Stores, BlockHash, Prefix, SeqBlock, TableAt
    <3>8. num_cached_tokens'[s] = Len(block_table'[s]) * BlockSize
      BY <1>10, <1>15
    <3>. QED
      BY <1>10, <3>1, <3>7, <3>8 DEF ClaimInv
  <2>. QED
    BY <2>1, <2>2
<1>. QED
  BY <1>1, <1>7, <1>17, <1>18, <1>19, <1>20, <1>21 DEF CacheInv

-----------------------------------------------------------------------------
(* Writing a block                                                         *)

(* Only block b is written, and its generations go up.                      *)
Written(b) ==
    /\ blocks \in [BlockIds -> Block] /\ blocks' \in [BlockIds -> Block]
    /\ blocks'[b].generation >= blocks[b].generation
    /\ \A c \in BlockIds \ {b} : blocks'[c] = blocks[c] /\ chain'[c] = chain[c]

(* A block that is taken without being filled is known by nothing.          *)
LEMMA TakenContent ==
    ASSUME LineageSound, ContentInv, FreshInv, NEW b \in BlockIds, Written(b), ~Published(b)',
           \/ ~Published(b)
           \/ blocks'[b].generation > blocks[b].generation
    PROVE  LineageSound' /\ ContentInv' /\ FreshInv'
<1>1. \A c \in BlockIds : Published(c)' =>
          c # b /\ Published(c) /\ blocks'[c] = blocks[c] /\ chain'[c] = chain[c]
  BY DEF Written, Published
<1>2. LineageSound' /\ ContentInv'
  <2>1. LineageSound'
    BY <1>1 DEF LineageSound
  <2>2. ContentInv'
    BY <1>1 DEF ContentInv
  <2>. QED
    BY <2>1, <2>2
<1>3. ASSUME NEW c \in BlockIds, NEW g \in Nat,
             \/ g > blocks'[c].generation
             \/ g = blocks'[c].generation /\ ~Published(c)'
      PROVE  ~Named(<<c, g>>)'
  <2>1. Named(<<c, g>>)' => Named(<<c, g>>)
    BY <1>1 DEF Named
  <2>2. CASE c # b
    BY <1>3, <2>1, <2>2 DEF Written, Published, FreshInv
  <2>3. CASE c = b
    <3>1. blocks[b].generation \in Nat /\ blocks'[b].generation \in Nat
      BY DEF Written, Block
    <3>2. g >= blocks'[b].generation /\ blocks'[b].generation >= blocks[b].generation
      BY <1>3, <2>3, <3>1 DEF Written
    <3>3. g > blocks[b].generation \/ (g = blocks[b].generation /\ ~Published(b))
      BY <3>1, <3>2
    <3>. QED
      BY <2>1, <2>3, <3>3 DEF FreshInv
  <2>. QED
    BY <2>2, <2>3
<1>4. FreshInv'
  BY <1>3 DEF FreshInv
<1>. QED
  BY <1>2, <1>4

(* A block that is filled with what block o stores, under o's identity.      *)
LEMMA TwinContent ==
    ASSUME LineageSound, ContentInv, FreshInv, NEW b \in BlockIds, Written(b),
           NEW o \in BlockIds, Published(o), Published(b)', chain'[b] = chain[o],
           blocks'[b].lineage = blocks[o].lineage, blocks'[b].parent = blocks[o].parent,
           blocks'[b].token_ids = blocks[o].token_ids
    PROVE  LineageSound' /\ ContentInv' /\ FreshInv'
<1> DEFINE Twin(c) == IF c = b THEN o ELSE c
<1>1. ASSUME NEW c \in BlockIds, Published(c)'
      PROVE  /\ Twin(c) \in BlockIds /\ Published(Twin(c)) /\ chain'[c] = chain[Twin(c)]
             /\ blocks'[c].lineage = blocks[Twin(c)].lineage
             /\ blocks'[c].parent = blocks[Twin(c)].parent
             /\ blocks'[c].token_ids = blocks[Twin(c)].token_ids
  BY <1>1 DEF Written, Published
<1>. HIDE DEF Twin
<1>2. LineageSound'
  BY <1>1 DEF LineageSound
<1>3. ContentInv'
  BY <1>1 DEF ContentInv
<1>4. ASSUME NEW c \in BlockIds, NEW g \in Nat,
             \/ g > blocks'[c].generation
             \/ g = blocks'[c].generation /\ ~Published(c)'
      PROVE  ~Named(<<c, g>>)'
  <2>1. Named(<<c, g>>)' => Named(<<c, g>>)
    BY <1>1 DEF Named
  <2>2. CASE c # b
    BY <1>4, <2>1, <2>2 DEF Written, Published, FreshInv
  <2>3. CASE c = b
    <3>1. blocks[b].generation \in Nat /\ blocks'[b].generation \in Nat
      BY DEF Written, Block
    <3>2. g > blocks'[b].generation /\ blocks'[b].generation >= blocks[b].generation
      BY <1>4, <2>3 DEF Written
    <3>3. g > blocks[b].generation
      BY <3>1, <3>2
    <3>. QED
      BY <2>1, <2>3, <3>3 DEF FreshInv
  <2>. QED
    BY <2>2, <2>3
<1>5. FreshInv'
  BY <1>4 DEF FreshInv
<1>. QED
  BY <1>2, <1>3, <1>5

(* A block that is filled under an identity of its own; prev is the block    *)
(* that stores what comes before, if anything does.                         *)
LEMMA FreshContent ==
    ASSUME LineageSound, ContentInv, FreshInv, NEW b \in BlockIds, Written(b), Published(b)',
           chain'[b] \in Seq(Token), BlockSize \in Nat,
           \/ ~Published(b)
           \/ blocks'[b].generation > blocks[b].generation,
           blocks'[b].lineage = <<b, blocks'[b].generation>>,
           NEW prev \in BlockIds \cup {None}, blocks'[b].parent = LineageOf(prev),
           prev = None => Len(chain'[b]) = BlockSize,
           prev # None => /\ Published(prev)
                          /\ Len(chain'[b]) = Len(chain[prev]) + BlockSize
                          /\ SubSeq(chain'[b], 1, Len(chain[prev])) = chain[prev],
           Len(chain'[b]) >= BlockSize,
           blocks'[b].token_ids =
               SubSeq(chain'[b], Len(chain'[b]) - BlockSize + 1, Len(chain'[b]))
    PROVE  LineageSound' /\ ContentInv' /\ FreshInv'
<1> DEFINE new == <<b, blocks'[b].generation>>
<1>1. blocks[b].generation \in Nat /\ blocks'[b].generation \in Nat
      /\ blocks'[b].generation >= blocks[b].generation
  BY DEF Written, Block
<1>2. ~Named(new)
  <2>1. \/ blocks'[b].generation > blocks[b].generation
        \/ blocks'[b].generation = blocks[b].generation /\ ~Published(b)
    BY <1>1
  <2>. QED
    BY <1>1, <2>1 DEF FreshInv
<1>3. \A c \in BlockIds \ {b} :
          /\ Published(c)' <=> Published(c)
          /\ blocks'[c] = blocks[c] /\ chain'[c] = chain[c]
  BY DEF Written, Published
<1>4. ASSUME NEW g \in Nat, NEW c \in BlockIds PROVE <<c, g>> # NoLineage
  <2>1. g # -1
    OBVIOUS
  <2>. QED
    BY <2>1 DEF NoLineage
<1>5. \/ prev = None /\ blocks'[b].parent = NoLineage
      \/ /\ prev \in BlockIds /\ Published(prev) /\ prev # None
         /\ blocks'[b].parent = blocks[prev].lineage
  BY DEF LineageOf
<1>6. blocks'[b].parent # new
  BY <1>1, <1>2, <1>4, <1>5 DEF Named
<1>. HIDE DEF new
<1>7. ContentInv'
  <2>1. blocks'[b].lineage # NoLineage
    BY <1>1, <1>4
  <2>2. blocks'[b].parent = NoLineage => Len(chain'[b]) = BlockSize
    BY <1>5 DEF ContentInv
  <2>3. ASSUME NEW c \in BlockIds, Published(c)'
        PROVE  /\ blocks'[c].lineage # NoLineage
               /\ Len(chain'[c]) >= BlockSize
               /\ blocks'[c].token_ids =
                     SubSeq(chain'[c], Len(chain'[c]) - BlockSize + 1, Len(chain'[c]))
               /\ blocks'[c].parent = NoLineage => Len(chain'[c]) = BlockSize
    <3>1. CASE c = b
      BY <2>1, <2>2, <3>1
    <3>2. CASE c # b
      BY <1>3, <2>3, <3>2 DEF ContentInv
    <3>. QED
      BY <3>1, <3>2
  <2>. QED
    BY <2>3 DEF ContentInv
<1>8. LineageSound'
  <2>1. ASSUME NEW c \in BlockIds, NEW d \in BlockIds, Published(c)', Published(d)'
        PROVE  /\ blocks'[c].lineage = blocks'[d].lineage => chain'[c] = chain'[d]
               /\ blocks'[d].parent = blocks'[c].lineage =>
                     Len(chain'[d]) = Len(chain'[c]) + BlockSize
                         /\ SubSeq(chain'[d], 1, Len(chain'[c])) = chain'[c]
    <3>1. CASE c # b /\ d # b
      BY <1>3, <2>1, <3>1 DEF LineageSound
    <3>2. CASE c = b /\ d = b
      BY <1>6, <3>2 DEF new
    <3>3. CASE c = b /\ d # b
      BY <1>2, <1>3, <2>1, <3>3 DEF Named, new
    <3>4. CASE c # b /\ d = b
      <4>1. blocks'[c].lineage # new /\ Published(c) /\ blocks'[c] = blocks[c]
            /\ chain'[c] = chain[c] /\ blocks[c].lineage # NoLineage
        BY <1>2, <1>3, <2>1, <3>4 DEF Named, ContentInv
      <4>2. ASSUME blocks'[b].parent = blocks[c].lineage
            PROVE  /\ Len(chain'[b]) = Len(chain[c]) + BlockSize
                   /\ SubSeq(chain'[b], 1, Len(chain[c])) = chain[c]
        <5>1. prev \in BlockIds /\ Published(prev) /\ prev # None
              /\ blocks[prev].lineage = blocks[c].lineage
          BY <1>5, <4>1, <4>2
        <5>2. chain[prev] = chain[c]
          BY <4>1, <5>1 DEF LineageSound
        <5>. QED
          BY <5>1, <5>2
      <4>. QED
        BY <3>4, <4>1, <4>2 DEF new
    <3>. QED
      BY <3>1, <3>2, <3>3, <3>4
  <2>. QED
    BY <2>1 DEF LineageSound
<1>9. ASSUME NEW c \in BlockIds, NEW g \in Nat,
             \/ g > blocks'[c].generation
             \/ g = blocks'[c].generation /\ ~Published(c)'
      PROVE  ~Named(<<c, g>>)'
  <2>1. Named(<<c, g>>)' => Named(<<c, g>>) \/ <<c, g>> = new
    <3>1. ASSUME NEW d \in BlockIds, Published(d)',
                 <<c, g>> = blocks'[d].lineage \/ <<c, g>> = blocks'[d].parent
          PROVE  Named(<<c, g>>) \/ <<c, g>> = new
      <4>1. CASE d # b
        BY <1>3, <3>1, <4>1 DEF Named
      <4>2. CASE d = b
        BY <1>4, <1>5, <3>1, <4>2 DEF Named, new
      <4>. QED
        BY <4>1, <4>2
    <3>. QED
      BY <3>1 DEF Named
  <2>2. CASE c # b
    BY <1>3, <1>9, <2>1, <2>2 DEF FreshInv, new
  <2>3. CASE c = b
    <3>1. g > blocks'[b].generation /\ g > blocks[b].generation
      BY <1>1, <1>9, <2>3
    <3>2. <<c, g>> # new
      <4>1. g # blocks'[b].generation
        BY <1>1, <3>1
      <4>. QED
        BY <4>1 DEF new
    <3>. QED
      BY <2>1, <2>3, <3>1, <3>2 DEF FreshInv
  <2>. QED
    BY <2>2, <2>3
<1>10. FreshInv'
  BY <1>9 DEF FreshInv
<1>. QED
  BY <1>7, <1>8, <1>10

(* One iteration of allocate_new or may_append: s fills its block k, which   *)
(* is b; blk are the fields b starts from, map is the index without it.      *)
FillStep(s, k, b, blk, map) ==
    /\ call = [op |-> "fill", seq |-> s, index |-> k]
    /\ IF k <= Len(block_table[s])
         THEN /\ b = block_table[s][k] /\ ~Published(b) /\ blk = blocks[b]
              /\ block_table' = block_table
         ELSE /\ k = Len(block_table[s]) + 1 /\ IsFree(b) /\ blk = ResetBlock(b)
              /\ block_table' = [block_table EXCEPT ![s] = Append(@, b)]
    /\ Range(map) \subseteq BlockIds
    /\ blocks' = [blocks EXCEPT ![b] =
           IF Fills(s, k) THEN PublishFullBlock(b, blk, s, k, map) ELSE blk]
    /\ chain' = [chain EXCEPT ![b] = Prefix(s, MinOf(k * BlockSize, ContextEnd(s)))]
    /\ call' = IF MoreBlocks(s, k)
                 THEN [op |-> "fill", seq |-> s, index |-> k + 1]
                 ELSE NoCall
    /\ UNCHANGED <<token_ids, num_cached_tokens, num_new_tokens>>

LEMMA FillUnfolded ==
    ASSUME PoolInv, FillBlock
    PROVE  \E s \in Seqs, k \in Nat \ {0}, b \in BlockIds :
               \E blk, map : FillStep(s, k, b, blk, map)
<1>1. TypeOK /\ call.op = "fill" /\ FillOk(call.seq, call.index)
  BY DEF PoolInv, FillBlock
<1>2. PICK s, k : s = call.seq /\ k = call.index
  OBVIOUS
<1>3. /\ call = [op |-> "fill", seq |-> s, index |-> k] /\ s \in Seqs /\ k \in Nat \ {0}
      /\ call \in [op : {"fill"}, seq : Seqs, index : 1 .. MaxLen]
  <2>1. MaxLen \in Nat
    BY BlockManagerAssumption
  <2>. QED
    BY <1>1, <1>2, <2>1, CallKinds
<1> DEFINE present == k <= Len(block_table[s])
<1>4. PICK b, blk, map :
          /\ b = IF present THEN block_table[s][k] ELSE Head(free_block_ids)
          /\ blk = IF present THEN blocks[b] ELSE ResetBlock(b)
          /\ map = IF present THEN hash_to_block_id ELSE MapWithout(b)
  OBVIOUS
<1>5. /\ IF present
           THEN UNCHANGED <<free_block_ids, used_block_ids, block_table>>
           ELSE /\ TakeFree(b)
                /\ block_table' = [block_table EXCEPT ![s] = Append(@, b)]
      /\ blocks' = [blocks EXCEPT ![b] =
             IF Fills(s, k) THEN PublishFullBlock(b, blk, s, k, map) ELSE blk]
      /\ chain' = [chain EXCEPT ![b] = Prefix(s, MinOf(k * BlockSize, ContextEnd(s)))]
      /\ call' = IF MoreBlocks(s, k) THEN [call EXCEPT !.index = k + 1] ELSE NoCall
      /\ UNCHANGED <<token_ids, num_cached_tokens, num_new_tokens>>
  BY <1>2, <1>4 DEF FillBlock
<1>6. /\ block_table[s] \in Seq(BlockIds) /\ free_block_ids \in Seq(BlockIds)
      /\ Range(hash_to_block_id) \subseteq BlockIds /\ IsInjective(free_block_ids)
  BY <1>1, <1>3 DEF TypeOK, PoolInv, BlocksAccounted
<1>7. /\ b \in BlockIds
      /\ IF present THEN ~Published(b) ELSE k = Len(block_table[s]) + 1 /\ IsFree(b)
  <2>1. CASE present
    BY <1>1, <1>2, <1>3, <1>4, <1>6, <2>1 DEF FillOk
  <2>2. CASE ~present
    <3>1. free_block_ids # <<>> /\ k = Len(block_table[s]) + 1
      BY <1>1, <1>2, <2>2 DEF FillOk
    <3>2. Head(free_block_ids) \in BlockIds /\ Head(free_block_ids) \in Range(free_block_ids)
      BY <1>6, <3>1, TailFacts
    <3>. QED
      BY <1>4, <2>2, <3>1, <3>2 DEF IsFree
  <2>. QED
    BY <2>1, <2>2
<1>8. Range(map) \subseteq BlockIds
  BY <1>4, <1>6 DEF MapWithout, Restrict, Range
<1>9. call' = IF MoreBlocks(s, k)
                THEN [op |-> "fill", seq |-> s, index |-> k + 1] ELSE NoCall
  BY <1>3, <1>5
<1>10. FillStep(s, k, b, blk, map)
  BY <1>3, <1>4, <1>5, <1>7, <1>8, <1>9 DEF FillStep
<1>. QED
  BY <1>3, <1>7, <1>10

(* Where a fill stands: it commits a token to block k, which nobody else has, *)
(* and what comes before block k is stored.                                 *)
LEMMA FillPlace ==
    ASSUME CacheInv, NEW s \in Seqs, NEW k \in Nat \ {0}, NEW b \in BlockIds,
           NEW blk, NEW map, FillStep(s, k, b, blk, map)
    PROVE  /\ (k - 1) * BlockSize < ContextEnd(s) /\ ContextEnd(s)' = ContextEnd(s)
           /\ \A q \in Seqs : ContextEnd(q)' = ContextEnd(q)
           /\ k \in {Len(block_table[s]), Len(block_table[s]) + 1}
           /\ \A q \in Seqs \ {s} : b \notin Range(block_table[q])
           /\ blk \in Block /\ blk.hash = NoHash
           /\ blk.generation >= blocks[b].generation
           /\ ~Published(b) \/ blk.generation > blocks[b].generation
           /\ k = 1 => TableAt(s, k - 1) = None
           /\ k > 1 => /\ TableAt(s, k - 1) \in BlockIds /\ Published(TableAt(s, k - 1))
                       /\ chain[TableAt(s, k - 1)] = Prefix(s, (k - 1) * BlockSize)
<1>1. PoolInv /\ TypeOK /\ BlocksAccounted /\ PrefixSound /\ PrivateInv /\ FillInv
  BY DEF CacheInv, PoolInv
<1>2. call.op = "fill" /\ call.seq = s /\ call.index = k
  BY DEF FillStep
<1>3. /\ (k - 1) * BlockSize < ContextEnd(s) /\ Len(block_table[s]) <= k
      /\ Len(block_table[s]) \in Nat
  BY <1>1, <1>2, Types DEF FillInv
<1>4. \A q \in Seqs : ContextEnd(q)' = ContextEnd(q)
  BY DEF FillStep, ContextEnd
<1> DEFINE present == k <= Len(block_table[s])
<1>5. k \in {Len(block_table[s]), Len(block_table[s]) + 1}
  BY <1>3 DEF FillStep
<1>6. \A q \in Seqs \ {s} : b \notin Range(block_table[q])
  <2>1. CASE present
    <3>1. b = block_table[s][k] /\ ~Published(b) /\ block_table[s] \in Seq(BlockIds)
      BY <1>1, <2>1, Types DEF FillStep
    <3>2. b \in Range(block_table[s])
      BY <2>1, <3>1 DEF Range
    <3>. QED
      BY <1>1, <3>1, <3>2 DEF PrivateInv
  <2>2. CASE ~present
    <3>1. IsFree(b)
      BY <2>2 DEF FillStep
    <3>. QED
      BY <1>1, <3>1 DEF BlocksAccounted, Holders
  <2>. QED
    BY <2>1, <2>2
<1>7. /\ blk \in Block /\ blk.hash = NoHash
      /\ blk.generation >= blocks[b].generation
      /\ ~Published(b) \/ blk.generation > blocks[b].generation
  <2>0. blocks[b] \in Block /\ blocks[b].generation \in Nat
    BY <1>1, Types DEF Block
  <2>1. CASE present
    BY <2>0, <2>1 DEF FillStep, Published
  <2>2. CASE ~present
    <3>1. blk = ResetBlock(b)
      BY <2>2 DEF FillStep
    <3>. QED
      BY <2>0, <3>1 DEF ResetBlock, Block, LineageIds
  <2>. QED
    BY <2>1, <2>2
<1>8. /\ k = 1 => TableAt(s, k - 1) = None
      /\ k > 1 => /\ TableAt(s, k - 1) \in BlockIds /\ Published(TableAt(s, k - 1))
                  /\ chain[TableAt(s, k - 1)] = Prefix(s, (k - 1) * BlockSize)
  <2>1. k - 1 <= Len(block_table[s])
    BY <1>3, <1>5
  <2>2. Reached(s, k - 1) = ContextEnd(s)
    <3>1. ~(k <= k - 1)
      OBVIOUS
    <3>. QED
      BY <1>2, <3>1 DEF Reached
  <2>3. (k - 1) * BlockSize <= ContextEnd(s)
    <3>1. (k - 1) * BlockSize \in Nat /\ ContextEnd(s) \in Nat
      BY <1>1, BlockBorders, Types
    <3>. QED
      BY <1>3, <3>1
  <2>. QED
    BY <1>1, <2>1, <2>2, <2>3, PreviousStores
<1>. QED
  BY <1>3, <1>4, <1>5, <1>6, <1>7, <1>8

(* The fields of the block that is filled.                                  *)
LEMMA FillWrites ==
    ASSUME CacheInv, PoolInv', NEW s \in Seqs, NEW k \in Nat \ {0}, NEW b \in BlockIds,
           NEW blk, NEW map, FillStep(s, k, b, blk, map)
    PROVE  /\ Written(b)
           /\ ~Published(b) \/ blocks'[b].generation > blocks[b].generation
           /\ Published(b)' <=> Fills(s, k)
           /\ chain'[b] = Prefix(s, MinOf(k * BlockSize, ContextEnd(s)))
           /\ Fills(s, k) =>
                /\ k * BlockSize <= SeqLen(s)
                /\ blocks'[b].hash = BlockHash(s, k)
                /\ blocks'[b].token_ids = SeqBlock(s, k)
                /\ blocks'[b].parent = LineageOf(TableAt(s, k - 1))
                /\ blocks'[b].lineage = PublishedLineage(b, blk, s, k, map)
                /\ blocks'[b].generation = blk.generation
                /\ chain'[b] = Prefix(s, k * BlockSize)
<1>1. /\ blocks \in [BlockIds -> Block] /\ blocks' \in [BlockIds -> Block]
      /\ chain \in [BlockIds -> Seq(Token)] /\ PoolInv
  <2>1. TypeOK' /\ PoolInv
    BY DEF PoolInv, CacheInv
  <2>. QED
    BY <2>1, Types DEF TypeOK
<1>2. /\ blocks' = [blocks EXCEPT ![b] =
             IF Fills(s, k) THEN PublishFullBlock(b, blk, s, k, map) ELSE blk]
      /\ chain' = [chain EXCEPT ![b] = Prefix(s, MinOf(k * BlockSize, ContextEnd(s)))]
  BY DEF FillStep
<1>3. /\ blk \in Block /\ blk.hash = NoHash /\ blk.generation >= blocks[b].generation
      /\ ~Published(b) \/ blk.generation > blocks[b].generation
  BY FillPlace
<1>4. Fills(s, k) =>
         /\ k * BlockSize <= SeqLen(s) /\ BlockHash(s, k) \in Nat
         /\ chain'[b] = Prefix(s, k * BlockSize)
  <2> DEFINE n == k * BlockSize
  <2>1. SUFFICES ASSUME Fills(s, k)
                 PROVE  /\ n <= SeqLen(s) /\ BlockHash(s, k) \in Nat
                        /\ chain'[b] = Prefix(s, n)
    OBVIOUS
  <2>2. n \in Nat /\ n <= ContextEnd(s)
    BY <2>1, BlockBorders DEF Fills
  <2>3. ContextEnd(s) \in Nat /\ ContextEnd(s) <= SeqLen(s) /\ SeqLen(s) \in Nat
    BY <1>1, Types
  <2>4. chain'[b] = Prefix(s, MinOf(n, ContextEnd(s)))
    BY <1>1, <1>2
  <2>5. n <= SeqLen(s) /\ BlockHash(s, k) \in Nat
    <3>1. n <= SeqLen(s)
      <4>. HIDE DEF n
      <4>. QED
        BY <2>2, <2>3
    <3>. QED
      BY <1>1, <3>1, HashType
  <2>. HIDE DEF n
  <2>6. MinOf(n, ContextEnd(s)) = n
    BY <2>2, <2>3 DEF MinOf
  <2>. QED
    BY <2>4, <2>5, <2>6
<1>5. Fills(s, k) =>
         /\ blocks'[b].hash = BlockHash(s, k)
         /\ blocks'[b].token_ids = SeqBlock(s, k)
         /\ blocks'[b].parent = LineageOf(TableAt(s, k - 1))
         /\ blocks'[b].lineage = PublishedLineage(b, blk, s, k, map)
         /\ blocks'[b].generation = blk.generation
  <2>1. SUFFICES ASSUME Fills(s, k), NEW new, new = PublishFullBlock(b, blk, s, k, map)
                 PROVE  /\ new.hash = BlockHash(s, k)
                        /\ new.token_ids = SeqBlock(s, k)
                        /\ new.parent = LineageOf(TableAt(s, k - 1))
                        /\ new.lineage = PublishedLineage(b, blk, s, k, map)
                        /\ new.generation = blk.generation
    BY <1>1, <1>2
  <2>. QED
    BY <1>3, <2>1 DEF PublishFullBlock, Block
<1>6. ~Fills(s, k) => blocks'[b] = blk
  BY <1>1, <1>2
<1>7. Published(b)' <=> Fills(s, k)
  <2>1. CASE Fills(s, k)
    <3>1. blocks'[b].hash \in Nat
      BY <1>4, <1>5, <2>1
    <3>. QED
      BY <2>1, <3>1 DEF Published, NoHash
  <2>2. CASE ~Fills(s, k)
    BY <1>3, <1>6, <2>2 DEF Published
  <2>. QED
    BY <2>1, <2>2
<1>8. blocks'[b].generation = blk.generation
  BY <1>5, <1>6
<1>9. Written(b)
  BY <1>1, <1>2, <1>3, <1>8 DEF Written
<1>. QED
  BY <1>1, <1>2, <1>3, <1>4, <1>5, <1>7, <1>8, <1>9

(* The tail of a prefix.                                                    *)
LEMMA PrefixTail ==
    ASSUME NEW S, NEW q \in Seq(S), NEW m \in Nat, NEW n \in Nat, m <= n, n <= Len(q)
    PROVE  /\ SubSeq(q, 1, n) \in Seq(S) /\ Len(SubSeq(q, 1, n)) = n
           /\ SubSeq(SubSeq(q, 1, n), m + 1, n) = SubSeq(q, m + 1, n)
           /\ SubSeq(SubSeq(q, 1, n), 1, m) = SubSeq(q, 1, m)
<1> DEFINE r == SubSeq(q, 1, n)
<1>1. r \in Seq(S) /\ Len(r) = n /\ \A i \in 1 .. n : r[i] = q[i]
  OBVIOUS
<1>. HIDE DEF r
<1>2. SubSeq(r, 1, m) = SubSeq(q, 1, m)
  BY <1>1
<1>3. SubSeq(r, m + 1, n) = SubSeq(q, m + 1, n)
  <2> DEFINE u == SubSeq(r, m + 1, n)
             v == SubSeq(q, m + 1, n)
  <2>1. /\ u \in Seq(S) /\ Len(u) = n - m /\ \A i \in 1 .. n - m : u[i] = r[m + i]
    BY <1>1, SubSeqFacts
  <2>2. /\ v \in Seq(S) /\ Len(v) = n - m /\ \A i \in 1 .. n - m : v[i] = q[m + i]
    BY SubSeqFacts
  <2>3. \A i \in 1 .. n - m : m + i \in 1 .. n
    OBVIOUS
  <2>. HIDE DEF u, v
  <2>4. u = v
    BY <1>1, <2>1, <2>2, <2>3
  <2>. QED
    BY <2>4 DEF u, v
<1>. QED
  BY <1>1, <1>2, <1>3 DEF r

(* What the blocks are known by stays sound when a fill writes one.          *)
LEMMA FillContent ==
    ASSUME CacheInv, PoolInv', NEW s \in Seqs, NEW k \in Nat \ {0}, NEW b \in BlockIds,
           NEW blk, NEW map, FillStep(s, k, b, blk, map)
    PROVE  LineageSound' /\ ContentInv' /\ FreshInv'
<1>1. PoolInv /\ LineageSound /\ ContentInv /\ FreshInv
  BY DEF CacheInv
<1> DEFINE prev == TableAt(s, k - 1)
           owner == OwnerIn(map, BlockHash(s, k))
           m == (k - 1) * BlockSize
           n == k * BlockSize
<1>2. /\ k = 1 => prev = None
      /\ k > 1 => prev \in BlockIds /\ Published(prev) /\ chain[prev] = Prefix(s, m)
  BY FillPlace
<1>3. /\ Written(b)
      /\ ~Published(b) \/ blocks'[b].generation > blocks[b].generation
      /\ Published(b)' <=> Fills(s, k)
  BY FillWrites
<1>4. CASE ~Fills(s, k)
  BY <1>1, <1>3, <1>4, TakenContent
<1>5. CASE Fills(s, k)
  <2>1. /\ n <= SeqLen(s)
        /\ blocks'[b].token_ids = SeqBlock(s, k)
        /\ blocks'[b].parent = LineageOf(prev)
        /\ blocks'[b].lineage = PublishedLineage(b, blk, s, k, map)
        /\ blocks'[b].generation = blk.generation
        /\ chain'[b] = Prefix(s, n)
    BY <1>5, FillWrites
  <2>2. CASE owner # None /\ Stores(owner, s, k, prev) /\ Resident(owner)
    <3>1. owner \in BlockIds
      BY <2>2 DEF OwnerIn, Range, FillStep
    <3>2. Published(owner) /\ chain[owner] = Prefix(s, n)
      BY <1>1, <1>2, <2>1, <2>2, <3>1, StoresChain
    <3>3. blocks'[b].lineage = blocks[owner].lineage
      BY <2>1, <2>2 DEF PublishedLineage
    <3>4. /\ blocks'[b].parent = blocks[owner].parent
          /\ blocks'[b].token_ids = blocks[owner].token_ids
      BY <2>1, <2>2 DEF Stores
    <3>5. Published(b)' /\ chain'[b] = chain[owner]
      BY <1>3, <1>5, <2>1, <3>2
    <3>. HIDE DEF owner
    <3>. QED
      BY <1>1, <1>3, <3>1, <3>2, <3>3, <3>4, <3>5, TwinContent
  <2>3. CASE ~(owner # None /\ Stores(owner, s, k, prev) /\ Resident(owner))
    <3>1. blocks'[b].lineage = <<b, blocks'[b].generation>>
      BY <2>1, <2>3 DEF PublishedLineage
    <3>2. /\ m \in Nat /\ n \in Nat /\ n = m + BlockSize /\ BlockSize \in Nat /\ BlockSize >= 1
          /\ k = 1 => n = BlockSize
      BY BlockBorders
    <3>3. token_ids[s] \in Seq(Token) /\ n <= Len(token_ids[s])
      BY <1>1, <2>1, Types DEF SeqLen
    <3>4. SeqBlock(s, k) = SubSeq(token_ids[s], m + 1, n)
      BY DEF SeqBlock
    <3>5. prev # None => k > 1
      <4>1. k = 1 \/ k > 1
        OBVIOUS
      <4>. QED
        BY <1>2, <4>1
    <3>6. prev = None => k = 1
      <4>1. k > 1 => prev # None
        BY <1>2, BlockManagerAssumption DEF BlockIds, None
      <4>2. k = 1 \/ k > 1
        OBVIOUS
      <4>. QED
        BY <4>1, <4>2
    <3>7. prev \in BlockIds \cup {None}
      BY <1>2, <3>5
    <3>. HIDE DEF m, n, prev, owner
    <3>8. m <= n /\ n - BlockSize + 1 = m + 1
      BY <3>2
    <3>9. /\ chain'[b] \in Seq(Token) /\ Len(chain'[b]) = n
          /\ SubSeq(chain'[b], m + 1, n) = SubSeq(token_ids[s], m + 1, n)
          /\ SubSeq(chain'[b], 1, m) = SubSeq(token_ids[s], 1, m)
      BY <2>1, <3>2, <3>3, <3>8, PrefixTail DEF Prefix
    <3>10. blocks'[b].token_ids =
              SubSeq(chain'[b], Len(chain'[b]) - BlockSize + 1, Len(chain'[b]))
      BY <2>1, <3>4, <3>8, <3>9
    <3>11. prev = None => Len(chain'[b]) = BlockSize
      BY <3>2, <3>6, <3>9
    <3>12. prev # None => /\ Published(prev)
                          /\ Len(chain'[b]) = Len(chain[prev]) + BlockSize
                          /\ SubSeq(chain'[b], 1, Len(chain[prev])) = chain[prev]
      <4>1. SUFFICES ASSUME prev # None
                     PROVE  /\ Published(prev)
                            /\ Len(chain'[b]) = Len(chain[prev]) + BlockSize
                            /\ SubSeq(chain'[b], 1, Len(chain[prev])) = chain[prev]
        OBVIOUS
      <4>2. Published(prev) /\ chain[prev] = SubSeq(token_ids[s], 1, m)
        BY <1>2, <3>5, <4>1 DEF Prefix, m
      <4>3. Len(chain[prev]) = m
        <5>1. m \in 0 .. Len(token_ids[s])
          BY <3>2, <3>3, <3>8
        <5>. QED
          BY <3>3, <4>2, <5>1, PrefixFacts
      <4>. QED
        BY <3>2, <3>9, <4>2, <4>3
    <3>13. Len(chain'[b]) >= BlockSize
      BY <3>2, <3>9
    <3>14. Published(b)'
      BY <1>3, <1>5
    <3>. QED
      BY <1>1, <1>3, <2>1, <3>1, <3>2, <3>7, <3>9, <3>10, <3>11, <3>12, <3>13, <3>14, FreshContent
  <2>. QED
    BY <2>2, <2>3
<1>. QED
  BY <1>4, <1>5

(* The new table of s ends with b at k; the others stay.                    *)
LEMMA FillTable ==
    ASSUME CacheInv, NEW s \in Seqs, NEW k \in Nat \ {0}, NEW b \in BlockIds,
           NEW blk, NEW map, FillStep(s, k, b, blk, map)
    PROVE  /\ \A q \in Seqs \ {s} : block_table'[q] = block_table[q]
           /\ Len(block_table'[s]) = k /\ block_table'[s][k] = b
           /\ \A j \in 1 .. k - 1 : j \in 1 .. Len(block_table[s])
                                    /\ block_table'[s][j] = block_table[s][j]
<1>1. /\ block_table \in [Seqs -> Seq(BlockIds)]
      /\ block_table[s] \in Seq(BlockIds) /\ Len(block_table[s]) \in Nat
      /\ k \in {Len(block_table[s]), Len(block_table[s]) + 1}
  BY FillPlace, Types DEF CacheInv
<1>2. CASE k <= Len(block_table[s])
  <2>1. k = Len(block_table[s]) /\ b = block_table[s][k] /\ block_table' = block_table
    BY <1>1, <1>2 DEF FillStep
  <2>. QED
    BY <1>1, <2>1
<1>3. CASE ~(k <= Len(block_table[s]))
  <2>1. /\ k = Len(block_table[s]) + 1
        /\ block_table' = [block_table EXCEPT ![s] = Append(@, b)]
    BY <1>3 DEF FillStep
  <2>2. /\ block_table'[s] = Append(block_table[s], b)
        /\ \A q \in Seqs \ {s} : block_table'[q] = block_table[q]
    BY <1>1, <2>1
  <2>. QED
    BY <1>1, <2>1, <2>2
<1>. QED
  BY <1>2, <1>3

(* What the tables name stays sound: block k of s now stores the tokens that *)
(* are committed to it, and every other entry stores what it stored.         *)
LEMMA FillTables ==
    ASSUME CacheInv, PoolInv', NEW s \in Seqs, NEW k \in Nat \ {0}, NEW b \in BlockIds,
           NEW blk, NEW map, FillStep(s, k, b, blk, map)
    PROVE  PrefixSound' /\ PrivateInv' /\ TableInv' /\ FillInv' /\ ClaimInv'
<1>1. PoolInv /\ PrefixSound /\ PrivateInv /\ TableInv /\ FillInv
  BY DEF CacheInv
<1>2. /\ (k - 1) * BlockSize < ContextEnd(s)
      /\ \A q \in Seqs : ContextEnd(q)' = ContextEnd(q)
      /\ k \in {Len(block_table[s]), Len(block_table[s]) + 1}
      /\ \A q \in Seqs \ {s} : b \notin Range(block_table[q])
  BY FillPlace
<1>3. /\ Published(b)' <=> k * BlockSize <= ContextEnd(s)
      /\ chain'[b] = Prefix(s, MinOf(k * BlockSize, ContextEnd(s)))
      /\ \A c \in BlockIds \ {b} : blocks'[c] = blocks[c] /\ chain'[c] = chain[c]
  BY FillWrites DEF Written, Fills
<1>4. \A c \in BlockIds \ {b} : Published(c)' <=> Published(c)
  BY <1>3 DEF Published
<1>5. /\ call.op = "fill" /\ call.seq = s /\ call.index = k
      /\ \/ MoreBlocks(s, k) /\ call' = [op |-> "fill", seq |-> s, index |-> k + 1]
         \/ call' = NoCall
      /\ token_ids' = token_ids /\ num_new_tokens' = num_new_tokens
      /\ num_cached_tokens' = num_cached_tokens
  BY DEF FillStep
<1>6. /\ \A q \in Seqs : block_table[q] \in Seq(BlockIds) /\ Len(block_table[q]) \in Nat
      /\ \A q \in Seqs : block_table'[q] \in Seq(BlockIds) /\ IsInjective(block_table'[q])
  <2>1. block_table \in [Seqs -> Seq(BlockIds)]
    BY <1>1, Types
  <2>2. block_table' \in [Seqs -> Seq(BlockIds)]
    BY DEF PoolInv, TypeOK
  <2>3. \A q \in Seqs : IsInjective(block_table'[q])
    BY DEF PoolInv, BlocksAccounted
  <2>. QED
    BY <2>1, <2>2, <2>3
<1>7. /\ \A q \in Seqs \ {s} : block_table'[q] = block_table[q]
      /\ Len(block_table'[s]) = k /\ block_table'[s][k] = b
      /\ \A j \in 1 .. k - 1 : j \in 1 .. Len(block_table[s])
                               /\ block_table'[s][j] = block_table[s][j]
  BY FillTable
<1>8. \A q \in Seqs : b \in Range(block_table'[q]) => q = s
  BY <1>2, <1>7
<1>9. \A q \in Seqs : \A c \in BlockIds \ {b} :
          c \in Range(block_table'[q]) => c \in Range(block_table[q])
  <2>1. ASSUME NEW c \in BlockIds \ {b}, c \in Range(block_table'[s])
        PROVE  c \in Range(block_table[s])
    <3>1. PICK j \in 1 .. k : c = block_table'[s][j]
      BY <1>6, <1>7, <2>1 DEF Range
    <3>2. j \in 1 .. k - 1
      BY <1>7, <3>1
    <3>. QED
      BY <1>6, <1>7, <3>1, <3>2 DEF Range
  <2>. QED
    BY <1>7, <2>1
<1>10. PrivateInv'
  <2>1. ASSUME NEW q \in Seqs, NEW r \in Seqs, NEW c \in BlockIds,
               c \in Range(block_table'[q]), c \in Range(block_table'[r]), ~Published(c)'
        PROVE  q = r
    <3>1. CASE c = b
      BY <1>8, <2>1, <3>1
    <3>2. CASE c # b
      <4>1. c \in Range(block_table[q]) /\ c \in Range(block_table[r]) /\ ~Published(c)
        BY <1>4, <1>9, <2>1, <3>2
      <4>. QED
        BY <1>1, <4>1 DEF PrivateInv
    <3>. QED
      BY <3>1, <3>2
  <2>. QED
    BY <2>1 DEF PrivateInv
<1>11. ASSUME NEW q \in Seqs, NEW j \in 1 .. Len(block_table'[q]),
              NEW c \in BlockIds, c = block_table'[q][j]
       PROVE  /\ chain'[c] = Prefix(q, StoredTokens(q, j))'
              /\ Published(c)' <=> (j * BlockSize <= Reached(q, j))'
  <2>1. CASE q = s /\ j = k
    <3>1. c = b
      BY <1>7, <1>11, <2>1
    <3>2. Reached(s, k)' = ContextEnd(s)
      <4>1. ~(k + 1 <= k)
        OBVIOUS
      <4>. QED
        BY <1>2, <1>5, <4>1 DEF Reached, NoCall
    <3>3. StoredTokens(s, k)' = MinOf(k * BlockSize, ContextEnd(s))
      BY <3>2 DEF StoredTokens
    <3>4. Prefix(s, StoredTokens(s, k))' = Prefix(s, MinOf(k * BlockSize, ContextEnd(s)))
      BY <1>5, <3>3 DEF Prefix
    <3>. QED
      BY <1>3, <2>1, <3>1, <3>2, <3>4
  <2>2. CASE ~(q = s /\ j = k)
    <3>1. /\ j \in 1 .. Len(block_table[q]) /\ c = block_table[q][j]
          /\ q = s => j < k /\ j \in Nat
      <4>1. CASE q = s
        <5>1. j \in 1 .. k - 1
          BY <1>7, <2>2, <4>1
        <5>. QED
          BY <1>7, <1>11, <4>1, <5>1
      <4>2. CASE q # s
        BY <1>7, <1>11, <4>2
      <4>. QED
        BY <4>1, <4>2
    <3>2. c # b
      <4>1. CASE q = s
        <5>1. j # k /\ j \in DOMAIN block_table'[s] /\ k \in DOMAIN block_table'[s]
          BY <1>6, <1>7, <2>2, <4>1
        <5>. QED
          BY <1>6, <1>7, <1>11, <4>1, <5>1 DEF IsInjective
      <4>2. CASE q # s
        <5>1. c \in Range(block_table[q])
          BY <1>6, <3>1 DEF Range
        <5>. QED
          BY <1>2, <4>2, <5>1
      <4>. QED
        BY <4>1, <4>2
    <3>3. Reached(q, j)' = Reached(q, j)
      <4>1. CASE q = s
        <5>1. ~(k <= j) /\ ~(k + 1 <= j)
          BY <3>1, <4>1
        <5>. QED
          BY <1>2, <1>5, <4>1, <5>1 DEF Reached, NoCall
      <4>2. CASE q # s
        BY <1>2, <1>5, <4>2 DEF Reached, NoCall
      <4>. QED
        BY <4>1, <4>2
    <3>4. Prefix(q, StoredTokens(q, j))' = Prefix(q, StoredTokens(q, j))
      BY <1>5, <3>3 DEF Prefix, StoredTokens
    <3>5. /\ chain[c] = Prefix(q, StoredTokens(q, j))
          /\ Published(c) <=> j * BlockSize <= Reached(q, j)
      BY <1>1, <3>1 DEF PrefixSound
    <3>. QED
      BY <1>3, <1>4, <3>2, <3>3, <3>4, <3>5
  <2>. QED
    BY <2>1, <2>2
<1>12. PrefixSound'
  <2>1. \A q \in Seqs : \A j \in 1 .. Len(block_table'[q]) : block_table'[q][j] \in BlockIds
    BY <1>6
  <2>. QED
    BY <1>11, <2>1 DEF PrefixSound
<1>13. TableInv'
  <2>1. (Len(block_table'[s]) - 1) * BlockSize < ContextEnd(s)'
    BY <1>2, <1>7
  <2>. QED
    BY <1>1, <1>2, <1>7, <2>1 DEF TableInv
<1>14. FillInv'
  <2>1. CASE call' = NoCall
    BY <2>1 DEF FillInv, NoCall
  <2>2. CASE MoreBlocks(s, k) /\ call' = [op |-> "fill", seq |-> s, index |-> k + 1]
    <3>1. k * BlockSize < ContextEnd(s) /\ (k + 1) - 1 = k /\ k <= k + 1
      BY <2>2 DEF MoreBlocks
    <3>2. num_new_tokens[s] >= 1
      BY <1>1, <1>5 DEF FillInv
    <3>3. ContextEnd(call.seq)' = ContextEnd(s)
      BY <1>2, <2>2 DEF ContextEnd
    <3>. QED
      BY <1>5, <1>7, <2>2, <3>1, <3>2, <3>3 DEF FillInv
  <2>. QED
    BY <1>5, <2>1, <2>2
<1>15. ClaimInv'
  BY <1>5 DEF ClaimInv, NoCall
<1>. QED
  BY <1>10, <1>12, <1>13, <1>14, <1>15

LEMMA FillBlockCache ==
    ASSUME CacheInv, FillBlock
    PROVE  CacheInv'
<1>1. PoolInv /\ PoolInv'
  BY FillBlockPool DEF CacheInv
<1>2. PICK s \in Seqs, k \in Nat \ {0}, b \in BlockIds :
          \E blk, map : FillStep(s, k, b, blk, map)
  BY <1>1, FillUnfolded
<1>3. PICK blk, map : FillStep(s, k, b, blk, map)
  BY <1>2
<1>4. LineageSound' /\ ContentInv' /\ FreshInv'
  BY <1>1, <1>3, FillContent
<1>5. PrefixSound' /\ PrivateInv' /\ TableInv' /\ FillInv' /\ ClaimInv'
  BY <1>1, <1>3, FillTables
<1>. QED
  BY <1>1, <1>4, <1>5 DEF CacheInv

LEMMA StutterCache ==
    ASSUME CacheInv, UNCHANGED bmVars
    PROVE  CacheInv'
<1>1. PoolInv' /\ PoolInv
  BY NextPool DEF CacheInv
<1>2. UNCHANGED <<blocks, token_ids, block_table, num_cached_tokens, num_new_tokens, chain, call>>
  BY DEF bmVars, poolVars, seqVars
<1>3. SameContent
  BY <1>2, UnchangedContent
<1>4. LineageSound' /\ ContentInv' /\ FreshInv'
  BY <1>3, ContentKept DEF CacheInv
<1>5. PrefixSound' /\ PrivateInv'
  <2>1. \A q \in Seqs : \A k \in 1 .. Len(block_table[q]) : Reached(q, k)' = Reached(q, k)
    BY <1>2 DEF Reached, ContextEnd
  <2>. QED
    BY <1>1, <1>2, <1>3, <2>1, TablesKept DEF CacheInv
<1>6. TableInv' /\ FillInv'
  BY <1>2 DEF CacheInv, TableInv, FillInv, ContextEnd
<1>7. ClaimInv'
  BY <1>2 DEF CacheInv, ClaimInv, Continues, Stores, BlockHash, Prefix, SeqBlock, LineageOf,
              TableAt
<1>. QED
  BY <1>1, <1>4, <1>5, <1>6, <1>7 DEF CacheInv

-----------------------------------------------------------------------------
(* The theorems                                                            *)

LEMMA NextCache == CacheInv /\ [Next]_bmVars => CacheInv'
<1>. SUFFICES ASSUME CacheInv, [Next]_bmVars PROVE CacheInv'
  OBVIOUS
<1>1. ASSUME NEW s \in Seqs, Call(s) PROVE CacheInv'
  BY <1>1, CallClaimCache, CallFillCache, DeallocateCache DEF Call
<1>2. CASE CallStep
  BY <1>2, ClaimBlockCache, FillBlockCache, ReleaseBlockCache DEF CallStep
<1>3. ASSUME NEW S \in SUBSET Seqs, Advance(S) PROVE CacheInv'
  BY <1>3, AdvanceCache
<1>4. ASSUME NEW s \in Seqs, NEW t \in Token, AppendToken(s, t) PROVE CacheInv'
  BY <1>4, AppendTokenCache
<1>5. CASE UNCHANGED bmVars
  BY <1>5, StutterCache
<1>. QED
  BY <1>1, <1>2, <1>3, <1>4, <1>5 DEF Next

LEMMA CacheInvariant == Spec => []CacheInv
<1>. QED
  BY InitCache, NextCache, PTL DEF Spec

(* Whatever the hash collides on, and however blocks were evicted, reset and *)
(* claimed before: every block of a block table stores exactly the prefix of *)
(* its request up to the committed tokens, and is indexed iff it is full     *)
(* (match_prefix, claim_prefix, allocate_new, may_append, deallocate).       *)
THEOREM PrefixReuseSound == Spec => []PrefixSound
<1>1. CacheInv => PrefixSound
  BY DEF CacheInv
<1>. QED
  BY <1>1, CacheInvariant, PTL

(* A lineage identity names one prefix for ever, over all generations of all *)
(* blocks (Block.reset, Block.update, _publish_full_block).                 *)
THEOREM LineagesSound == Spec => []LineageSound
<1>1. CacheInv => LineageSound
  BY DEF CacheInv
<1>. QED
  BY <1>1, CacheInvariant, PTL

LEMMA TwoMembers ==
    ASSUME NEW S, Cardinality(S) > 1
    PROVE  \E x, y \in S : x # y
<1>1. SUFFICES ASSUME \A x, y \in S : x = y PROVE FALSE
  OBVIOUS
<1>2. Cardinality({}) = 0
  BY FS_EmptySet
<1>3. CASE S = {}
  BY <1>2, <1>3
<1>4. CASE S # {}
  <2>1. PICK x \in S : TRUE
    BY <1>4
  <2>2. S = {x}
    BY <1>1, <2>1
  <2>3. Cardinality({x}) = 1
    BY FS_Singleton
  <2>. QED
    BY <2>2, <2>3
<1>. QED
  BY <1>3, <1>4

LEMMA FrozenStep ==
    ASSUME CacheInv, CacheInv', [Next]_bmVars, NEW b \in BlockIds
    PROVE  /\ Published(b) /\ Holders(b) # {} => chain'[b] = chain[b]
           /\ Cardinality(Holders(b)') > 1 => Published(b)'
<1>1. Cardinality(Holders(b)') > 1 => Published(b)'
  <2>1. SUFFICES ASSUME Cardinality(Holders(b)') > 1 PROVE Published(b)'
    OBVIOUS
  <2>2. PICK s \in Holders(b)', q \in Holders(b)' : s # q
    BY <2>1, TwoMembers
  <2>3. /\ s \in Seqs /\ q \in Seqs /\ s # q
        /\ b \in Range(block_table'[s]) /\ b \in Range(block_table'[q])
    BY <2>2 DEF Holders
  <2>. QED
    BY <2>3 DEF CacheInv, PrivateInv
<1>2. Published(b) /\ Holders(b) # {} => chain'[b] = chain[b]
  <2>1. CASE FillBlock
    <3>1. PoolInv /\ BlocksAccounted
      BY DEF CacheInv, PoolInv
    <3>2. PICK s \in Seqs, k \in Nat \ {0}, c \in BlockIds :
              \E blk, map : FillStep(s, k, c, blk, map)
      BY <2>1, <3>1, FillUnfolded
    <3>3. chain' = [chain EXCEPT ![c] = Prefix(s, MinOf(k * BlockSize, ContextEnd(s)))]
          /\ (~Published(c) \/ IsFree(c))
      BY <3>2 DEF FillStep
    <3>4. chain \in [BlockIds -> Seq(Token)]
      BY <3>1, Types
    <3>5. IsFree(c) => Holders(c) = {}
      BY <3>1 DEF BlocksAccounted
    <3>. QED
      BY <3>3, <3>4, <3>5
  <2>2. CASE chain' = chain
    BY <2>2
  <2>. QED
    BY <2>1, <2>2 DEF Next, Call, CallStep, CallClaim, CallFill, ClaimPrefix, AllocateNew,
       MayAppend, Deallocate, ClaimBlock, ReleaseBlock, AppendToken, Advance, bmVars
<1>. QED
  BY <1>1, <1>2

(* Blocks are shared without copying: what a held full block stores never    *)
(* changes, and a block that two requests hold is full.                     *)
THEOREM SharedBlocksNeverRewritten == Spec => SharedBlocksFrozen
<1> DEFINE Frozen == \A b \in BlockIds :
               /\ Published(b) /\ Holders(b) # {} => chain'[b] = chain[b]
               /\ Cardinality(Holders(b)') > 1 => Published(b)'
<1>1. CacheInv /\ [Next]_bmVars => Frozen
  BY NextCache, FrozenStep
<1>. HIDE DEF Frozen
<1>2. Spec => [][Frozen]_bmVars
  BY <1>1, CacheInvariant, PTL DEF Spec
<1>. QED
  BY <1>2 DEF SharedBlocksFrozen, Frozen

-----------------------------------------------------------------------------
(* Refinement: the holders of a page are the requests whose tables name it.  *)

LEMMA InitRefines == Init => PC!Init
<1>. SUFFICES ASSUME Init PROVE PC!Init
  OBVIOUS
<1>1. [b \in BlockIds |-> Holders(b)] = [b \in BlockIds |-> {}]
  BY DEF Init, Holders, Range
<1>. QED
  BY <1>1 DEF Init, PC!Init

(* claim_prefix shares a page with the prefix of the request.                *)
LEMMA ClaimRefines ==
    ASSUME CacheInv, CacheInv', ClaimBlock
    PROVE  \E s \in Seqs, b \in BlockIds : PC!Share(s, b)
<1>1. /\ PoolInv /\ PoolInv' /\ TypeOK /\ TypeOK' /\ BlocksAccounted /\ PlanInv
      /\ PrefixSound' /\ TableInv'
  BY DEF CacheInv, PoolInv
<1>2. PICK s, plan, b : s \in Seqs /\ ClaimStep(s, plan, b)
  BY <1>1, ClaimUnfolded
<1>3. /\ call.op = "claim" /\ call.seq = s /\ call.plan = plan
      /\ plan \in Seq(BlockIds) /\ plan # <<>> /\ b = Head(plan)
      /\ block_table' = [block_table EXCEPT ![s] = Append(@, b)]
      /\ token_ids' = token_ids /\ chain' = chain
      /\ call'.op # "fill"
  BY <1>2 DEF ClaimStep, NoCall
<1>4. b \in BlockIds /\ b \notin Range(block_table[s])
  <2>1. IsInjective(plan) /\ Range(plan) \cap Range(block_table[s]) = {}
    BY <1>1, <1>3 DEF PlanInv
  <2>2. b \in BlockIds /\ b \in Range(plan)
    BY <1>3, <2>1, TailFacts
  <2>. QED
    BY <2>1, <2>2
<1>5. /\ \A c \in BlockIds \ {b} : Holders(c)' = Holders(c)
      /\ Holders(b)' = Holders(b) \cup {s}
  BY <1>1, <1>2, <1>3, <1>4, HoldersGrow
<1> DEFINE k == Len(block_table[s]) + 1
<1>6. k \in Nat \ {0} /\ Len(block_table'[s]) = k /\ block_table'[s][k] = b
  <2>1. Len(block_table[s]) \in Nat
    BY <1>1, Types
  <2>. QED
    BY <1>2, <2>1, ClaimPlace
<1>7. PICK j \in Nat \ {0} : j = k
  BY <1>6
<1>8. /\ chain'[b] = Prefix(s, StoredTokens(s, j))'
      /\ (j - 1) * BlockSize < ContextEnd(s)'
  <2>1. j \in 1 .. Len(block_table'[s]) /\ block_table'[s][j] = b
        /\ Len(block_table'[s]) = j /\ Len(block_table'[s]) >= 1
    <3>. HIDE DEF k
    <3>. QED
      BY <1>6, <1>7
  <2>2. chain'[b] = Prefix(s, StoredTokens(s, j))'
    BY <1>1, <1>2, <2>1 DEF PrefixSound
  <2>3. (j - 1) * BlockSize < ContextEnd(s)'
    BY <1>1, <1>2, <2>1 DEF TableInv
  <2>. QED
    BY <2>2, <2>3
<1>9. /\ ContextEnd(s)' \in Nat /\ ContextEnd(s)' <= SeqLen(s)' /\ SeqLen(s)' \in Nat
      /\ SeqLen(s)' = Len(token_ids[s]) /\ token_ids[s] \in Seq(Token)
  <2>1. /\ num_cached_tokens'[s] \in Nat /\ num_new_tokens'[s] \in Nat
        /\ token_ids'[s] \in Seq(Token) /\ ContextEnd(s)' <= SeqLen(s)'
    BY <1>1, <1>2 DEF PoolInv, TypeOK, CommittedInv
  <2>2. token_ids[s] \in Seq(Token)
    BY <1>3, <2>1
  <2>. QED
    BY <1>3, <2>1, <2>2 DEF ContextEnd, SeqLen
<1>10. Reached(s, j)' = ContextEnd(s)'
  BY <1>3 DEF Reached
<1>11. PICK n \in 1 .. Len(token_ids[s]) : n = StoredTokens(s, j)'
  <2> DEFINE x == j * BlockSize
             y == (j - 1) * BlockSize
  <2>1. x \in Nat /\ x = y + BlockSize /\ y \in Nat /\ BlockSize \in Nat /\ BlockSize >= 1
    BY BlockBorders
  <2>2. y < ContextEnd(s)'
    BY <1>8
  <2>3. StoredTokens(s, j)' = MinOf(x, ContextEnd(s)')
    BY <1>10 DEF StoredTokens
  <2>. HIDE DEF x, y
  <2>4. StoredTokens(s, j)' \in 1 .. Len(token_ids[s])
    BY <1>9, <2>1, <2>2, <2>3 DEF MinOf
  <2>. QED
    BY <2>4
<1>12. chain[b] = SubSeq(token_ids[s], 1, n)
  BY <1>3, <1>8, <1>11 DEF Prefix
<1>13. Len(chain[b]) = n /\ chain[b] # <<>>
  <2>1. Len(chain[b]) = n /\ chain[b] \in Seq(Token) /\ n >= 1
    BY <1>9, <1>12, PrefixFacts
  <2>. QED
    BY <2>1
<1>14. PC!StartsWith(token_ids[s], chain[b])
  BY <1>9, <1>12, <1>13 DEF PC!StartsWith
<1>15. [c \in BlockIds |-> Holders(c)]' =
           [[c \in BlockIds |-> Holders(c)] EXCEPT ![b] = @ \cup {s}]
  BY <1>4, <1>5
<1>16. s \notin Holders(b)
  BY <1>4 DEF Holders
<1>17. PC!Share(s, b)
  BY <1>2, <1>3, <1>4, <1>13, <1>14, <1>15, <1>16 DEF PC!Share
<1>. QED
  BY <1>2, <1>4, <1>17

(* allocate_new and may_append write a page that nobody else reads.          *)
LEMMA FillRefines ==
    ASSUME CacheInv, CacheInv', FillBlock
    PROVE  \E s \in Seqs, b \in BlockIds, n \in 1 .. MaxLen : PC!Write(s, b, n)
<1>1. /\ PoolInv /\ PoolInv' /\ TypeOK /\ BlocksAccounted /\ PrefixSound /\ FillInv
  BY DEF CacheInv, PoolInv
<1>2. PICK s \in Seqs, k \in Nat \ {0}, b \in BlockIds :
          \E blk, map : FillStep(s, k, b, blk, map)
  BY <1>1, FillUnfolded
<1>3. PICK blk, map : FillStep(s, k, b, blk, map)
  BY <1>2
<1> DEFINE x == k * BlockSize
           y == (k - 1) * BlockSize
           C == num_cached_tokens[s]
           E == ContextEnd(s)
<1>4. /\ y < E /\ \A q \in Seqs \ {s} : b \notin Range(block_table[q])
      /\ k \in {Len(block_table[s]), Len(block_table[s]) + 1}
  BY <1>3, FillPlace
<1>5. x \in Nat /\ x = y + BlockSize /\ y \in Nat /\ BlockSize \in Nat /\ BlockSize >= 1
  BY BlockBorders
<1>6. /\ C \in Nat /\ E \in Nat /\ E <= SeqLen(s) /\ SeqLen(s) \in Nat /\ SeqLen(s) <= MaxLen
      /\ MaxLen \in Nat /\ token_ids[s] \in Seq(Token) /\ SeqLen(s) = Len(token_ids[s])
      /\ block_table[s] \in Seq(BlockIds)
  BY <1>1, Types DEF SeqLen
<1>7. C < E
  <2>1. num_new_tokens[s] >= 1 /\ num_new_tokens[s] \in Nat
    BY <1>1, <1>3, Types DEF FillInv, FillStep
  <2>. QED
    BY <1>6, <2>1 DEF ContextEnd
<1>8. /\ call.op = "fill" /\ call.seq = s /\ call.index = k
      /\ token_ids' = token_ids
      /\ chain \in [BlockIds -> Seq(Token)]
      /\ chain' = [chain EXCEPT ![b] = Prefix(s, MinOf(x, E))]
  BY <1>1, <1>3, Types DEF FillStep
<1>9. PICK n \in Nat : n = MinOf(x, E) /\ n \in 1 .. SeqLen(s) /\ n \in 1 .. MaxLen
                       /\ (C < x => C < n)
  <2>. HIDE DEF x, y, C, E
  <2>1. MinOf(x, E) \in 1 .. SeqLen(s) /\ MinOf(x, E) \in 1 .. MaxLen /\ (C < x => C < MinOf(x, E))
    BY <1>4, <1>5, <1>6, <1>7 DEF MinOf
  <2>. QED
    BY <2>1
<1>10. chain' = [chain EXCEPT ![b] = SubSeq(token_ids[s], 1, n)]
  BY <1>8, <1>9 DEF Prefix
<1>11. CASE k <= Len(block_table[s])
  <2>1. b = block_table[s][k] /\ ~Published(b) /\ block_table' = block_table
    BY <1>3, <1>11 DEF FillStep
  <2>2. k \in 1 .. Len(block_table[s])
    BY <1>6, <1>11
  <2>3. Holders(b) = {s}
    BY <1>4, <1>6, <2>1, <2>2 DEF Holders, Range
  <2>4. Reached(s, k) = C
    BY <1>8 DEF Reached
  <2>5. ~(x <= C) /\ chain[b] = Prefix(s, StoredTokens(s, k))
    BY <1>1, <2>1, <2>2, <2>4 DEF PrefixSound
  <2>6. StoredTokens(s, k) = C /\ C < x
    <3>1. StoredTokens(s, k) = MinOf(x, C)
      BY <2>4 DEF StoredTokens
    <3>. HIDE DEF x, C
    <3>. QED
      BY <1>5, <1>6, <2>5, <3>1 DEF MinOf
  <2>7. Len(chain[b]) < n
    <3>1. C \in 0 .. Len(token_ids[s])
      <4>. HIDE DEF C, E
      <4>. QED
        BY <1>6, <1>7
    <3>2. chain[b] = SubSeq(token_ids[s], 1, C)
      BY <2>5, <2>6 DEF Prefix
    <3>3. Len(chain[b]) = C
      BY <1>6, <3>1, <3>2, PrefixFacts
    <3>. QED
      BY <1>9, <2>6, <3>3
  <2>8. \A c \in BlockIds : Holders(c)' = Holders(c)
    BY <2>1 DEF Holders
  <2>9. [c \in BlockIds |-> Holders(c)]' = [[c \in BlockIds |-> Holders(c)] EXCEPT ![b] = {s}]
    BY <2>3, <2>8
  <2>10. PC!Write(s, b, n)
    BY <1>6, <1>8, <1>9, <1>10, <2>3, <2>7, <2>9 DEF PC!Write
  <2>. QED
    BY <1>9, <2>10
<1>12. CASE ~(k <= Len(block_table[s]))
  <2>1. IsFree(b) /\ block_table' = [block_table EXCEPT ![s] = Append(@, b)]
    BY <1>3, <1>12 DEF FillStep
  <2>2. Holders(b) = {} /\ b \notin Range(block_table[s])
    BY <1>1, <2>1 DEF BlocksAccounted, Holders
  <2>3. /\ \A c \in BlockIds \ {b} : Holders(c)' = Holders(c)
        /\ Holders(b)' = Holders(b) \cup {s}
    BY <1>1, <2>1, <2>2, HoldersGrow
  <2>4. [c \in BlockIds |-> Holders(c)]' = [[c \in BlockIds |-> Holders(c)] EXCEPT ![b] = {s}]
    BY <2>2, <2>3
  <2>5. PC!Write(s, b, n)
    BY <1>6, <1>8, <1>9, <1>10, <2>2, <2>4 DEF PC!Write
  <2>. QED
    BY <1>9, <2>5
<1>. QED
  BY <1>11, <1>12

(* deallocate gives a page back.                                            *)
LEMMA ReleaseRefines ==
    ASSUME CacheInv, ReleaseBlock
    PROVE  \E s \in Seqs, b \in BlockIds : PC!Drop(s, b)
<1>1. TypeOK /\ BlocksAccounted /\ ReleaseInv /\ call.op = "release"
  BY DEF CacheInv, PoolInv, ReleaseBlock
<1>2. PICK s, b : s = call.seq /\ b = block_table[s][Len(block_table[s])]
  OBVIOUS
<1>3. s \in Seqs /\ block_table[s] # <<>>
  BY <1>1, <1>2, CallKinds DEF ReleaseInv
<1>4. /\ block_table' = [block_table EXCEPT ![s] = SubSeq(@, 1, Len(@) - 1)]
      /\ token_ids' = token_ids /\ chain' = chain
  BY <1>2 DEF ReleaseBlock
<1>5. b \in BlockIds
  BY <1>1, <1>2, <1>3, DropLastFacts DEF TypeOK, BlocksAccounted
<1>6. /\ \A c \in BlockIds \ {b} : Holders(c)' = Holders(c)
      /\ Holders(b)' = Holders(b) \ {s} /\ s \in Holders(b)
  BY <1>1, <1>2, <1>3, <1>4, <1>5, HoldersShrink
<1>7. [c \in BlockIds |-> Holders(c)]' =
          [[c \in BlockIds |-> Holders(c)] EXCEPT ![b] = @ \ {s}]
  BY <1>5, <1>6
<1>8. PC!Drop(s, b)
  BY <1>4, <1>5, <1>6, <1>7 DEF PC!Drop
<1>. QED
  BY <1>3, <1>5, <1>8

LEMMA StepRefines ==
    ASSUME CacheInv, CacheInv', [Next]_bmVars
    PROVE  [PC!Next]_PC!vars
<1>1. CASE ClaimBlock
  BY <1>1, ClaimRefines DEF PC!Next
<1>2. CASE FillBlock
  BY <1>2, FillRefines DEF PC!Next
<1>3. CASE ReleaseBlock
  BY <1>3, ReleaseRefines DEF PC!Next
<1>4. ASSUME NEW s \in Seqs, NEW t \in Token, AppendToken(s, t) PROVE PC!Next
  <2>1. \A c \in BlockIds : Holders(c)' = Holders(c)
    BY <1>4 DEF AppendToken, seqVars, Holders
  <2>2. [c \in BlockIds |-> Holders(c)]' = [c \in BlockIds |-> Holders(c)]
    BY <2>1
  <2>3. PC!Grow(s, t)
    BY <1>4, <2>2 DEF AppendToken, SeqLen, PC!Grow
  <2>. QED
    BY <2>3 DEF PC!Next
<1>5. CASE UNCHANGED <<token_ids, block_table, chain>>
  <2>1. \A c \in BlockIds : Holders(c)' = Holders(c)
    BY <1>5 DEF Holders
  <2>2. [c \in BlockIds |-> Holders(c)]' = [c \in BlockIds |-> Holders(c)]
    BY <2>1
  <2>. QED
    BY <1>5, <2>2 DEF PC!vars
<1>6. CASE \E s \in Seqs : Call(s)
  BY <1>5, <1>6 DEF Call, CallClaim, CallFill, ClaimPrefix, AllocateNew, MayAppend, Deallocate,
                    seqVars
<1>7. ASSUME NEW S \in SUBSET Seqs, Advance(S) PROVE [PC!Next]_PC!vars
  BY <1>5, <1>7 DEF Advance
<1>8. CASE UNCHANGED bmVars
  BY <1>5, <1>8 DEF bmVars, seqVars
<1>. QED
  BY <1>1, <1>2, <1>3, <1>4, <1>6, <1>7, <1>8 DEF Next, CallStep

(* The block manager, with its free queue, hashes, lineages and reference    *)
(* counts, implements the page cache: every iteration of claim_prefix shares *)
(* a page that stores a prefix of the request, every iteration of            *)
(* allocate_new and may_append writes a page nobody else reads, every        *)
(* iteration of deallocate drops one.                                       *)
THEOREM BlockManagerImplementsPageCache == Spec => Implements
<1>1. CacheInv /\ CacheInv' /\ [Next]_bmVars => [PC!Next]_PC!vars
  BY StepRefines
<1>2. Spec => PC!Spec
  BY <1>1, InitRefines, CacheInvariant, PTL DEF Spec, PC!Spec
<1>. QED
  BY <1>2 DEF Implements

-----------------------------------------------------------------------------
(* No assertion fires                                                      *)

(* Every full block of a table passes the test that match_prefix made.       *)
StoredInv ==
    \A s \in Seqs : \A k \in 1 .. Len(block_table[s]) :
        Published(block_table[s][k]) => Stores(block_table[s][k], s, k, TableAt(s, k - 1))

(* The table of a request that nobody works on covers its committed tokens.  *)
CoverInv ==
    \A s \in Seqs :
        \/ call.op \in {"fill", "release"} /\ call.seq = s
        \/ ContextEnd(s) <= Len(block_table[s]) * BlockSize

(* The rest of a plan is still what the index answers, and leaves a token.   *)
PlannedInv ==
    call.op = "claim" =>
        /\ ContextEnd(call.seq) + Len(call.plan) * BlockSize < SeqLen(call.seq)
        /\ \A i \in 1 .. Len(call.plan) :
              Owner(BlockHash(call.seq, Len(block_table[call.seq]) + i)) = call.plan[i]

(* A fill continues the table in a block that is not full, and the free      *)
(* queue has the blocks it still needs.                                    *)
SupplyInv ==
    call.op = "fill" =>
        /\ call.index <= Len(block_table[call.seq]) + 1
        /\ num_cached_tokens[call.seq] < call.index * BlockSize
        /\ ContextEnd(call.seq) <=
               (Len(block_table[call.seq]) + Len(free_block_ids)) * BlockSize

CallsInv == CacheInv /\ StoredInv /\ CoverInv /\ PlannedInv /\ SupplyInv

LEMMA StoredKept ==
    ASSUME PoolInv, StoredInv, SameContent, block_table' = block_table, token_ids' = token_ids
    PROVE  StoredInv'
<1>1. ASSUME NEW q \in Seqs, NEW k \in 1 .. Len(block_table[q]),
             NEW c \in BlockIds, c = block_table[q][k],
             NEW prev \in BlockIds \cup {None}, prev = TableAt(q, k - 1), Published(c)'
      PROVE  Stores(c, q, k, prev)'
  <2>1. Published(c)
    BY <1>1 DEF SameContent, Published
  <2>2. Stores(c, q, k, prev)
    BY <1>1, <2>1 DEF StoredInv
  <2>. QED
    BY <2>2, StoresKept
<1>2. ASSUME NEW q \in Seqs, NEW k \in 1 .. Len(block_table[q])
      PROVE  block_table[q][k] \in BlockIds /\ TableAt(q, k - 1) \in BlockIds \cup {None}
  <2>1. block_table[q] \in Seq(BlockIds)
    BY Types
  <2>2. k - 1 = 0 \/ k - 1 \in 1 .. Len(block_table[q])
    BY <2>1
  <2>. QED
    BY <2>1, <2>2 DEF TableAt
<1>3. \A q \in Seqs : \A k : TableAt(q, k)' = TableAt(q, k)
  BY DEF TableAt
<1>4. ASSUME NEW q \in Seqs, NEW k \in 1 .. Len(block_table'[q]), NEW c, c = block_table'[q][k],
             Published(c)'
      PROVE  Stores(c, q, k, TableAt(q, k - 1))'
  <2>1. PICK prev \in BlockIds \cup {None} : prev = TableAt(q, k - 1)
    BY <1>2
  <2>2. Stores(c, q, k, prev)'
    BY <1>1, <1>2, <1>4, <2>1
  <2>3. prev = TableAt(q, k - 1)'
    BY <1>3, <2>1
  <2>. QED
    BY <2>2, <2>3 DEF Stores, LineageOf
<1>. QED
  BY <1>4 DEF StoredInv

LEMMA InitCalls == Init => CallsInv
<1>. SUFFICES ASSUME Init PROVE CallsInv
  OBVIOUS
<1>1. \A s \in Seqs : Len(block_table[s]) = 0 /\ ContextEnd(s) = 0
  BY DEF Init, ContextEnd
<1>2. call.op = "none"
  BY DEF Init, NoCall
<1>3. CoverInv
  BY <1>1, BlockManagerAssumption DEF CoverInv
<1>4. StoredInv
  BY <1>1 DEF StoredInv
<1>. QED
  BY <1>2, <1>3, <1>4, InitCache DEF CallsInv, PlannedInv, SupplyInv

LEMMA DeallocateCalls ==
    ASSUME CallsInv, NEW s \in Seqs, Deallocate(s)
    PROVE  CallsInv'
<1>1. CacheInv' /\ PoolInv
  BY DeallocateCache DEF CallsInv, CacheInv
<1>2. /\ call = NoCall /\ call' = [op |-> "release", seq |-> s]
      /\ UNCHANGED <<poolVars, token_ids, seqVars, chain>>
  BY DEF Deallocate
<1>3. StoredInv'
  <2>1. SameContent
    BY <1>2, UnchangedContent DEF poolVars
  <2>. QED
    BY <1>1, <1>2, <2>1, StoredKept DEF CallsInv, seqVars
<1>4. CoverInv'
  <2>1. \A q \in Seqs : ContextEnd(q)' = ContextEnd(q)
    BY <1>2 DEF seqVars, ContextEnd
  <2>. QED
    BY <1>2, <2>1 DEF CallsInv, CoverInv, NoCall, seqVars
<1>5. PlannedInv' /\ SupplyInv'
  BY <1>2 DEF PlannedInv, SupplyInv
<1>. QED
  BY <1>1, <1>3, <1>4, <1>5 DEF CallsInv

LEMMA AdvanceCalls ==
    ASSUME CallsInv, NEW S \in SUBSET Seqs, Advance(S)
    PROVE  CallsInv'
<1>1. CacheInv' /\ PoolInv
  BY AdvanceCache DEF CallsInv, CacheInv
<1>2. /\ call = NoCall /\ call' = call
      /\ UNCHANGED <<poolVars, token_ids, block_table, chain>>
      /\ num_cached_tokens' = [s \in Seqs |->
             IF s \in S THEN ContextEnd(s) ELSE num_cached_tokens[s]]
      /\ num_new_tokens' = [s \in Seqs |-> IF s \in S THEN 0 ELSE num_new_tokens[s]]
  BY DEF Advance
<1>3. StoredInv'
  <2>1. SameContent
    BY <1>2, UnchangedContent DEF poolVars
  <2>. QED
    BY <1>1, <1>2, <2>1, StoredKept DEF CallsInv
<1>4. CoverInv'
  <2>1. \A q \in Seqs : ContextEnd(q)' = ContextEnd(q)
    BY <1>1, <1>2, Types DEF ContextEnd
  <2>. QED
    BY <1>2, <2>1 DEF CallsInv, CoverInv, NoCall
<1>5. PlannedInv' /\ SupplyInv'
  BY <1>2 DEF PlannedInv, SupplyInv, NoCall
<1>. QED
  BY <1>1, <1>3, <1>4, <1>5 DEF CallsInv

LEMMA AppendTokenCalls ==
    ASSUME CallsInv, NEW s \in Seqs, NEW t \in Token, AppendToken(s, t)
    PROVE  CallsInv'
<1>1. CacheInv' /\ CacheInv /\ PoolInv /\ PrefixSound
  BY AppendTokenCache DEF CallsInv, CacheInv
<1>2. /\ call = NoCall /\ call' = call /\ UNCHANGED <<poolVars, seqVars, chain>>
      /\ token_ids' = [token_ids EXCEPT ![s] = Append(@, t)]
      /\ token_ids \in [Seqs -> Seq(Token)]
  BY <1>1 DEF AppendToken, PoolInv, TypeOK
<1>3. ASSUME NEW q \in Seqs, NEW k \in Nat \ {0}, k * BlockSize <= SeqLen(q)
      PROVE  BlockHash(q, k)' = BlockHash(q, k) /\ SeqBlock(q, k)' = SeqBlock(q, k)
  <2> DEFINE m == (k - 1) * BlockSize
             n == k * BlockSize
             old == token_ids[q]
             new == token_ids'[q]
  <2>1. m \in Nat /\ n \in Nat /\ n = m + BlockSize /\ BlockSize \in Nat
    BY BlockBorders
  <2>2. n <= Len(old) /\ old \in Seq(Token)
    BY <1>2, <1>3 DEF SeqLen
  <2>3. Prefix(q, n) = SubSeq(old, 1, n) /\ Prefix(q, n)' = SubSeq(new, 1, n)
        /\ SeqBlock(q, k) = SubSeq(old, m + 1, n) /\ SeqBlock(q, k)' = SubSeq(new, m + 1, n)
        /\ BlockHash(q, k) = Hash(Prefix(q, n)) /\ BlockHash(q, k)' = Hash(Prefix(q, n)')
    BY DEF Prefix, SeqBlock, BlockHash
  <2>4. new \in Seq(Token) /\ n <= Len(new) /\ (new = old \/ new = Append(old, t))
    <3>1. new = old \/ new = Append(old, t)
      BY <1>2
    <3>2. Append(old, t) \in Seq(Token) /\ Len(Append(old, t)) = Len(old) + 1
      BY <2>2
    <3>. HIDE DEF n, old, new
    <3>. QED
      BY <2>1, <2>2, <3>1, <3>2
  <2>. HIDE DEF m, n, old, new
  <2>5. n \in 0 .. Len(old) /\ m <= n
    BY <2>1, <2>2
  <2>6. SubSeq(new, 1, n) = SubSeq(old, 1, n)
    BY <2>2, <2>4, <2>5, AppendPrefix
  <2>7. SubSeq(new, m + 1, n) = SubSeq(old, m + 1, n)
    <3>1. SubSeq(SubSeq(new, 1, n), m + 1, n) = SubSeq(new, m + 1, n)
      BY <2>1, <2>4, <2>5, PrefixTail
    <3>2. SubSeq(SubSeq(old, 1, n), m + 1, n) = SubSeq(old, m + 1, n)
      BY <2>1, <2>2, <2>5, PrefixTail
    <3>. QED
      BY <2>6, <3>1, <3>2
  <2>. QED
    BY <2>3, <2>6, <2>7
<1>4. StoredInv'
  <2>1. ASSUME NEW q \in Seqs, NEW k \in 1 .. Len(block_table[q]), NEW c \in BlockIds,
               c = block_table[q][k], NEW prev, prev = TableAt(q, k - 1), Published(c)
        PROVE  Stores(c, q, k, prev)'
    <3>1. Stores(c, q, k, prev)
      BY <2>1 DEF CallsInv, StoredInv
    <3>2. k \in Nat \ {0} /\ k * BlockSize <= Reached(q, k)
      BY <1>1, <2>1 DEF PrefixSound
    <3>3. k * BlockSize <= SeqLen(q)
      <4>1. k * BlockSize \in Nat
        BY <3>2, BlockBorders
      <4>2. Reached(q, k) \in Nat /\ Reached(q, k) <= ContextEnd(q)
        BY <1>1, <3>2, StoredFacts
      <4>3. ContextEnd(q) <= SeqLen(q) /\ ContextEnd(q) \in Nat /\ SeqLen(q) \in Nat
        BY <1>1, Types
      <4>. QED
        BY <3>2, <4>1, <4>2, <4>3
    <3>4. BlockHash(q, k)' = BlockHash(q, k) /\ SeqBlock(q, k)' = SeqBlock(q, k)
      BY <1>3, <3>2, <3>3
    <3>5. blocks' = blocks
      BY <1>2 DEF poolVars
    <3>. QED
      BY <3>1, <3>4, <3>5 DEF Stores, LineageOf
  <2>2. block_table' = block_table /\ blocks' = blocks
    BY <1>2 DEF poolVars, seqVars
  <2>3. ASSUME NEW q \in Seqs, NEW k \in 1 .. Len(block_table'[q]), NEW c,
               c = block_table'[q][k], Published(c)'
        PROVE  Stores(c, q, k, TableAt(q, k - 1))'
    <3>1. c \in BlockIds /\ Published(c)
      BY <1>1, <2>2, <2>3, Types DEF Published
    <3>2. PICK prev : prev = TableAt(q, k - 1) /\ prev = TableAt(q, k - 1)'
      BY <2>2 DEF TableAt
    <3>3. Stores(c, q, k, prev)'
      BY <2>1, <2>2, <2>3, <3>1, <3>2
    <3>. QED
      BY <3>2, <3>3 DEF Stores, LineageOf
  <2>. QED
    BY <2>3 DEF StoredInv
<1>5. CoverInv'
  BY <1>2 DEF CallsInv, CoverInv, NoCall, seqVars, ContextEnd
<1>6. PlannedInv' /\ SupplyInv'
  BY <1>2 DEF PlannedInv, SupplyInv, NoCall
<1>. QED
  BY <1>1, <1>4, <1>5, <1>6 DEF CallsInv

LEMMA CallClaimCalls ==
    ASSUME CallsInv, NEW s \in Seqs, CallClaim(s)
    PROVE  CallsInv'
<1>1. CacheInv' /\ PoolInv /\ PoolInv'
  BY CallClaimCache DEF CallsInv, CacheInv
<1>2. PICK plan : ClaimPrefix(s, plan)
  BY DEF CallClaim
<1>3. /\ call = NoCall /\ call' = [op |-> "claim", seq |-> s, plan |-> plan]
      /\ UNCHANGED <<poolVars, token_ids, seqVars, chain>>
      /\ PlanIsCurrent(s, plan) /\ plan # <<>>
      /\ num_new_tokens[s] = 0 /\ num_cached_tokens[s] = Len(block_table[s]) * BlockSize
  BY <1>2 DEF ClaimPrefix, CallClaim
<1>4. StoredInv'
  <2>1. SameContent
    BY <1>3, UnchangedContent DEF poolVars
  <2>. QED
    BY <1>1, <1>3, <2>1, StoredKept DEF CallsInv, seqVars
<1>5. \A q \in Seqs : ContextEnd(q)' = ContextEnd(q)
  BY <1>3 DEF seqVars, ContextEnd
<1>6. CoverInv'
  BY <1>3, <1>5 DEF CallsInv, CoverInv, NoCall, seqVars
<1>7. PICK L \in Nat, N \in Nat : L = Len(block_table[s]) /\ N = Len(plan) /\ N >= 1
  <2>1. plan \in Seq(BlockIds)
    BY <1>1, <1>3 DEF PoolInv, TypeOK, Calls, NoCall
  <2>2. Len(block_table[s]) \in Nat
    BY <1>1, Types
  <2>. QED
    BY <1>3, <2>1, <2>2
<1>8. /\ \A i \in 1 .. N : Owner(BlockHash(s, L + i)) = plan[i]
      /\ L + N < NumSeqBlocks(s)
  BY <1>3, <1>7 DEF PlanIsCurrent
<1>9. ContextEnd(s) + N * BlockSize < SeqLen(s)
  <2>1. /\ SeqLen(s) \in Nat /\ BlockSize \in Nat \ {0} /\ L + N \in Nat
        /\ num_cached_tokens[s] \in Nat
    BY <1>1, <1>7, Types, BlockManagerAssumption
  <2>2. (L + N) * BlockSize < SeqLen(s)
    BY <1>8, <2>1, CeilDivFacts DEF NumSeqBlocks
  <2>3. (L + N) * BlockSize = L * BlockSize + N * BlockSize
    BY <1>7, <2>1, MulFacts
  <2>4. ContextEnd(s) = L * BlockSize
    BY <1>3, <1>7, <2>1 DEF ContextEnd
  <2>. QED
    BY <2>2, <2>3, <2>4
<1>10. PlannedInv'
  <2>1. /\ call'.seq = s /\ call'.plan = plan /\ ContextEnd(s)' = ContextEnd(s)
        /\ SeqLen(s)' = SeqLen(s) /\ block_table' = block_table
        /\ \A k : BlockHash(s, k)' = BlockHash(s, k)
        /\ \A h : Owner(h)' = Owner(h)
    BY <1>3, <1>5 DEF SeqLen, BlockHash, Prefix, Owner, OwnerIn, poolVars, seqVars
  <2>2. \A i \in 1 .. Len(plan) : Owner(BlockHash(s, Len(block_table[s]) + i))' = plan[i]
    BY <1>3, <1>7, <1>8 DEF BlockHash, Prefix, Owner, OwnerIn, poolVars, seqVars
  <2>. QED
    BY <1>7, <1>9, <2>1, <2>2 DEF PlannedInv, ContextEnd, SeqLen, BlockHash, Prefix
<1>11. SupplyInv'
  BY <1>3 DEF SupplyInv
<1>. QED
  BY <1>1, <1>4, <1>6, <1>10, <1>11 DEF CallsInv

(* The blocks that num_blocks_to_append counts hold the tokens.              *)
LEMMA CeilDivCovers ==
    ASSUME NEW n \in Nat, NEW d \in Nat \ {0}
    PROVE  CeilDiv(n, d) \in Nat /\ n <= CeilDiv(n, d) * d
<1>1. n + d - 1 \in Nat
  OBVIOUS
<1> DEFINE q == (n + d - 1) \div d
           x == q * d
<1>2. q \in Nat /\ n + d - 1 < x + d
  BY <1>1, DivFacts
<1>3. x \in Nat
  BY <1>2, MulFacts
<1>. HIDE DEF q, x
<1>4. n <= x
  BY <1>2, <1>3
<1>. QED
  BY <1>2, <1>4 DEF CeilDiv, q, x

LEMMA CallFillCalls ==
    ASSUME CallsInv, NEW s \in Seqs, CallFill(s)
    PROVE  CallsInv'
<1>1. CacheInv' /\ PoolInv /\ CoverInv
  BY CallFillCache DEF CallsInv, CacheInv
<1>2. PICK n \in 1 .. SeqLen(s) - num_cached_tokens[s] :
          /\ NumBlocksToAppend(s, n) <= Len(free_block_ids)
          /\ AllocateNew(s, n) \/ MayAppend(s, n)
  BY DEF CallFill
<1>3. /\ num_new_tokens[s] = 0 /\ call = NoCall
      /\ num_new_tokens' = [num_new_tokens EXCEPT ![s] = n]
      /\ UNCHANGED <<poolVars, token_ids, block_table, num_cached_tokens, chain>>
  BY <1>2 DEF CallFill, AllocateNew, MayAppend
<1>4. PICK L \in Nat, C \in Nat, F \in Nat :
          L = Len(block_table[s]) /\ C = num_cached_tokens[s] /\ F = Len(free_block_ids)
  <2>1. free_block_ids \in Seq(BlockIds)
    BY <1>1 DEF PoolInv, TypeOK
  <2>2. block_table[s] \in Seq(BlockIds) /\ num_cached_tokens[s] \in Nat
    BY <1>1, Types
  <2>. QED
    BY <2>1, <2>2
<1>5. n \in Nat /\ n >= 1 /\ BlockSize \in Nat \ {0}
  <2>1. SeqLen(s) \in Nat
    BY <1>1, Types
  <2>. QED
    BY <1>4, <2>1, BlockManagerAssumption
<1>6. C <= L * BlockSize
  <2>1. ContextEnd(s) <= Len(block_table[s]) * BlockSize
    BY <1>1, <1>3 DEF CoverInv, NoCall
  <2>2. ContextEnd(s) = C
    BY <1>3, <1>4 DEF ContextEnd
  <2>. QED
    BY <1>4, <2>1, <2>2
<1>7. PICK a \in Nat : /\ call' = [op |-> "fill", seq |-> s, index |-> a + 1]
                       /\ a <= L /\ C < (a + 1) * BlockSize
  <2> DEFINE next(i) == (i + 1) * BlockSize = i * BlockSize + BlockSize /\ i * BlockSize \in Nat
  <2>1. \A i \in Nat : next(i)
    <3>1. ASSUME NEW i \in Nat PROVE next(i)
      <4>1. (i + 1) * BlockSize = i * BlockSize + 1 * BlockSize
        BY <1>5, MulFacts
      <4>. QED
        BY <1>5, <4>1, MulFacts
    <3>. QED
      BY <3>1
  <2>2. CASE AllocateNew(s, n)
    <3>1. call' = [op |-> "fill", seq |-> s, index |-> L + 1] /\ C = L * BlockSize
      BY <1>4, <2>2 DEF AllocateNew, ClaimedPrefixValid
    <3>2. next(L)
      BY <2>1
    <3>3. C < (L + 1) * BlockSize
      BY <1>5, <3>1, <3>2
    <3>. QED
      BY <3>1, <3>3
  <2>3. CASE MayAppend(s, n)
    <3>1. PICK a \in Nat : /\ a = C \div BlockSize /\ a * BlockSize <= C
                           /\ C < a * BlockSize + BlockSize
      BY <1>4, <1>5, DivFacts
    <3>2. call' = [op |-> "fill", seq |-> s, index |-> a + 1]
      BY <1>4, <2>3, <3>1 DEF MayAppend
    <3>3. next(a)
      BY <2>1
    <3>4. a <= L
      <4>1. L < a => L * BlockSize + BlockSize <= a * BlockSize
        BY <1>5, MulFacts
      <4>2. PICK x \in Nat, y \in Nat : x = L * BlockSize /\ y = a * BlockSize
        BY <1>5, MulFacts
      <4>3. ~(L < a)
        BY <1>5, <1>6, <3>1, <4>1, <4>2
      <4>. QED
        BY <4>3
    <3>. QED
      BY <3>1, <3>2, <3>3, <3>4
  <2>. QED
    BY <1>2, <2>2, <2>3
<1>8. StoredInv'
  <2>1. SameContent
    BY <1>3, UnchangedContent DEF poolVars
  <2>. QED
    BY <1>1, <1>3, <2>1, StoredKept DEF CallsInv
<1>9. CoverInv'
  <2>1. \A q \in Seqs \ {s} : ContextEnd(q)' = ContextEnd(q)
    <3>1. num_new_tokens \in [Seqs -> Nat]
      BY <1>1 DEF PoolInv, TypeOK
    <3>. QED
      BY <1>3, <3>1 DEF ContextEnd
  <2>. QED
    BY <1>1, <1>3, <1>7, <2>1 DEF CoverInv, NoCall
<1>10. C + n <= (L + F) * BlockSize
  <2>1. PICK m \in Nat : m = CeilDiv(C + n, BlockSize) /\ C + n <= m * BlockSize
    <3>1. C + n \in Nat
      BY <1>5
    <3>. QED
      BY <1>5, <3>1, CeilDivCovers
  <2>2. m <= L + F
    BY <1>2, <1>4, <2>1 DEF NumBlocksToAppend
  <2>3. m * BlockSize <= (L + F) * BlockSize
    BY <1>5, <2>2, MulFacts
  <2>4. m * BlockSize \in Nat /\ (L + F) * BlockSize \in Nat
    BY <1>5, MulFacts
  <2>. QED
    BY <1>5, <2>1, <2>3, <2>4
<1>11. SupplyInv'
  <2>1. ContextEnd(s)' = C + n
    <3>1. num_new_tokens \in [Seqs -> Nat]
      BY <1>1 DEF PoolInv, TypeOK
    <3>. QED
      BY <1>3, <1>4, <3>1 DEF ContextEnd
  <2>2. /\ call'.seq = s /\ call'.index = a + 1
        /\ Len(block_table'[s]) = L /\ num_cached_tokens'[s] = C /\ Len(free_block_ids') = F
    BY <1>3, <1>4, <1>7 DEF poolVars
  <2>3. ContextEnd(call.seq)' = C + n
    BY <2>1, <2>2 DEF ContextEnd
  <2>4. (a + 1) <= L + 1
    BY <1>7
  <2>5. Len(block_table[call.seq])' = L /\ num_cached_tokens[call.seq]' = C
    BY <2>2
  <2>. QED
    BY <1>7, <1>10, <2>2, <2>3, <2>4, <2>5 DEF SupplyInv
<1>12. PlannedInv'
  BY <1>7 DEF PlannedInv
<1>. QED
  BY <1>1, <1>8, <1>9, <1>11, <1>12 DEF CallsInv

(* A table may lose its end, or grow by a block that passed the test.        *)
LEMMA StoredMoved ==
    ASSUME StoredInv, SameContent, token_ids' = token_ids,
           \A q \in Seqs : \A k \in 1 .. Len(block_table'[q]) :
               /\ block_table'[q][k] \in BlockIds /\ TableAt(q, k - 1) \in BlockIds \cup {None}
               /\ TableAt(q, k - 1)' = TableAt(q, k - 1)
               /\ \/ /\ k \in 1 .. Len(block_table[q])
                     /\ block_table'[q][k] = block_table[q][k]
                  \/ Stores(block_table'[q][k], q, k, TableAt(q, k - 1))
    PROVE  StoredInv'
<1>1. ASSUME NEW q \in Seqs, NEW k \in 1 .. Len(block_table'[q]), NEW c, c = block_table'[q][k],
             Published(c)'
      PROVE  Stores(c, q, k, TableAt(q, k - 1))'
  <2>1. PICK prev \in BlockIds \cup {None} :
            prev = TableAt(q, k - 1) /\ prev = TableAt(q, k - 1)'
    BY <1>1
  <2>2. c \in BlockIds /\ Published(c)
    BY <1>1 DEF SameContent, Published
  <2>3. Stores(c, q, k, prev)
    BY <1>1, <2>1, <2>2 DEF StoredInv
  <2>4. Stores(c, q, k, prev)'
    BY <2>2, <2>3, StoresKept
  <2>. QED
    BY <2>1, <2>4 DEF Stores, LineageOf
<1>. QED
  BY <1>1 DEF StoredInv

LEMMA ClaimBlockCalls ==
    ASSUME CallsInv, ClaimBlock
    PROVE  CallsInv'
<1>1. CacheInv' /\ CacheInv /\ PoolInv /\ StoredInv /\ CoverInv /\ PlannedInv
  BY ClaimBlockCache DEF CallsInv, CacheInv
<1>2. PICK s, plan, b : s \in Seqs /\ ClaimStep(s, plan, b)
  BY <1>1, ClaimUnfolded
<1>3. /\ call.op = "claim" /\ call.seq = s /\ call.plan = plan
      /\ \/ call' = NoCall
         \/ call' = [op |-> "claim", seq |-> s, plan |-> Tail(plan)]
      /\ token_ids' = token_ids /\ hash_to_block_id' = hash_to_block_id
  BY <1>2 DEF ClaimStep
<1>4. /\ SameContent /\ b \in BlockIds /\ b = plan[1] /\ Len(plan) \in Nat /\ Len(plan) >= 1
      /\ Len(Tail(plan)) = Len(plan) - 1
      /\ \A i \in 1 .. Len(plan) - 1 : Tail(plan)[i] = plan[i + 1]
      /\ \A q \in Seqs : block_table[q] \in Seq(BlockIds)
      /\ \A q \in Seqs \ {s} : block_table'[q] = block_table[q]
      /\ Len(block_table'[s]) = Len(block_table[s]) + 1
      /\ block_table'[s][Len(block_table[s]) + 1] = b
      /\ \A k \in 1 .. Len(block_table[s]) : block_table'[s][k] = block_table[s][k]
      /\ Continues(s, plan)
  BY <1>1, <1>2, ClaimPlace
<1>5. /\ ContextEnd(s) = Len(block_table[s]) * BlockSize
      /\ ContextEnd(s)' = (Len(block_table[s]) + 1) * BlockSize
      /\ \A q \in Seqs \ {s} : ContextEnd(q)' = ContextEnd(q)
  BY <1>1, <1>2, ClaimPlace
<1>6. PICK L \in Nat, N \in Nat : L = Len(block_table[s]) /\ N = Len(plan) /\ N >= 1
  BY <1>4
<1>7. /\ SameContent /\ b \in BlockIds /\ b = plan[1]
      /\ Len(Tail(plan)) = N - 1
      /\ \A i \in 1 .. N - 1 : Tail(plan)[i] = plan[i + 1]
      /\ \A q \in Seqs : block_table[q] \in Seq(BlockIds)
      /\ \A q \in Seqs \ {s} : block_table'[q] = block_table[q]
      /\ Len(block_table'[s]) = L + 1 /\ block_table'[s][L + 1] = b
      /\ \A k \in 1 .. L : block_table'[s][k] = block_table[s][k]
      /\ Continues(s, plan)
  BY <1>6, <1>4
<1>8. /\ ContextEnd(s) = L * BlockSize /\ ContextEnd(s)' = (L + 1) * BlockSize
      /\ \A q \in Seqs \ {s} : ContextEnd(q)' = ContextEnd(q)
  BY <1>6, <1>5
<1>9. \A q \in Seqs : \A k \in 0 .. Len(block_table[q]) :
          TableAt(q, k)' = TableAt(q, k) /\ TableAt(q, k) \in BlockIds \cup {None}
  <2>1. ASSUME NEW q \in Seqs, NEW k \in 0 .. Len(block_table[q])
        PROVE  TableAt(q, k)' = TableAt(q, k) /\ TableAt(q, k) \in BlockIds \cup {None}
    <3>1. k = 0 \/ k \in 1 .. Len(block_table[q])
      BY <1>7
    <3>2. k \in 1 .. Len(block_table[q]) =>
              block_table'[q][k] = block_table[q][k] /\ block_table[q][k] \in BlockIds
      BY <1>6, <1>7
    <3>. QED
      BY <3>1, <3>2 DEF TableAt
  <2>. QED
    BY <2>1
<1>10. Stores(b, s, L + 1, TableAt(s, L))
  <2>1. 1 \in 1 .. Len(plan)
    BY <1>6
  <2>. QED
    BY <1>6, <1>7, <2>1 DEF Continues
<1>11. StoredInv'
  <2>1. ASSUME NEW q \in Seqs, NEW k \in 1 .. Len(block_table'[q])
        PROVE  /\ block_table'[q][k] \in BlockIds /\ TableAt(q, k - 1) \in BlockIds \cup {None}
               /\ TableAt(q, k - 1)' = TableAt(q, k - 1)
               /\ \/ /\ k \in 1 .. Len(block_table[q])
                     /\ block_table'[q][k] = block_table[q][k]
                  \/ Stores(block_table'[q][k], q, k, TableAt(q, k - 1))
    <3>1. CASE k \in 1 .. Len(block_table[q])
      <4>1. k - 1 \in 0 .. Len(block_table[q])
        BY <1>7, <3>1
      <4>2. block_table'[q][k] = block_table[q][k] /\ block_table[q][k] \in BlockIds
        BY <1>6, <1>7, <3>1
      <4>. QED
        BY <1>9, <3>1, <4>1, <4>2
    <3>2. CASE k \notin 1 .. Len(block_table[q])
      <4>1. q = s
        BY <1>7, <3>2
      <4>2. k = L + 1 /\ k - 1 = L /\ L \in 0 .. Len(block_table[s])
        BY <1>6, <1>7, <3>2, <4>1
      <4>3. block_table'[q][k] = b
        BY <1>7, <4>1, <4>2
      <4>. QED
        BY <1>7, <1>9, <1>10, <4>1, <4>2, <4>3
    <3>. QED
      BY <3>1, <3>2
  <2>. QED
    BY <1>1, <1>3, <1>7, <2>1, StoredMoved
<1>12. CoverInv'
  <2>1. ASSUME NEW q \in Seqs PROVE (ContextEnd(q) <= Len(block_table[q]) * BlockSize)'
    <3>1. CASE q = s
      <4>1. PICK x \in Nat : x = (L + 1) * BlockSize
        BY <1>6, BlockManagerAssumption, MulFacts
      <4>. QED
        BY <1>7, <1>8, <3>1, <4>1
    <3>2. CASE q # s
      BY <1>1, <1>3, <1>7, <1>8, <3>2 DEF CoverInv
    <3>. QED
      BY <3>1, <3>2
  <2>. QED
    BY <2>1 DEF CoverInv
<1>13. PlannedInv'
  <2>1. ASSUME call' = [op |-> "claim", seq |-> s, plan |-> Tail(plan)]
        PROVE  PlannedInv'
    <3>1. ContextEnd(s)' + (N - 1) * BlockSize < SeqLen(s)'
      <4>1. ContextEnd(s) + N * BlockSize < SeqLen(s)
        BY <1>1, <1>3, <1>6 DEF PlannedInv
      <4>2. PICK x \in Nat, y \in Nat : x = L * BlockSize /\ y = (N - 1) * BlockSize
        BY <1>6, BlockManagerAssumption, MulFacts
      <4>3. N * BlockSize = y + BlockSize /\ BlockSize \in Nat
        BY <1>6, <4>2, BlockBorders
      <4>4. (L + 1) * BlockSize = x + BlockSize
        <5>1. L + 1 \in Nat \ {0} /\ (L + 1) - 1 = L
          BY <1>6
        <5>. QED
          BY <4>2, <5>1, BlockBorders
      <4>5. SeqLen(s)' = SeqLen(s) /\ SeqLen(s) \in Nat
        BY <1>1, <1>3, Types DEF SeqLen
      <4>. QED
        BY <1>8, <4>1, <4>2, <4>3, <4>4, <4>5
    <3>2. \A h : Owner(h)' = Owner(h)
      BY <1>3 DEF Owner, OwnerIn
    <3>3. \A k : BlockHash(s, k)' = BlockHash(s, k)
      BY <1>3 DEF BlockHash, Prefix
    <3>4. ASSUME NEW i \in 1 .. N - 1
          PROVE  Owner(BlockHash(s, (L + 1) + i)) = Tail(plan)[i]
      <4>1. i + 1 \in 1 .. N /\ (L + 1) + i = L + (i + 1)
        OBVIOUS
      <4>2. Owner(BlockHash(s, L + (i + 1))) = plan[i + 1]
        BY <1>1, <1>3, <1>6, <4>1 DEF PlannedInv
      <4>. QED
        BY <1>7, <4>1, <4>2
    <3>5. \A i \in 1 .. N - 1 : Owner(BlockHash(s, (L + 1) + i))' = Tail(plan)[i]
      BY <3>4, <1>3 DEF BlockHash, Prefix, Owner, OwnerIn
    <3>6. call'.seq = s /\ call'.plan = Tail(plan)
      BY <2>1
    <3>7. Len(call'.plan) = N - 1 /\ Len(block_table'[s]) = L + 1
      BY <1>7, <3>6
    <3>8. (ContextEnd(call.seq) + Len(call.plan) * BlockSize < SeqLen(call.seq))'
      BY <3>1, <3>6, <3>7 DEF ContextEnd, SeqLen
    <3>9. (\A i \in 1 .. Len(call.plan) :
              Owner(BlockHash(call.seq, Len(block_table[call.seq]) + i)) = call.plan[i])'
      BY <3>5, <3>6, <3>7 DEF BlockHash, Prefix, Owner, OwnerIn
    <3>. QED
      BY <3>8, <3>9 DEF PlannedInv
  <2>2. CASE call' = NoCall
    BY <2>2 DEF PlannedInv, NoCall
  <2>. QED
    BY <1>3, <2>1, <2>2
<1>14. SupplyInv'
  BY <1>3 DEF SupplyInv, NoCall
<1>. QED
  BY <1>1, <1>11, <1>12, <1>13, <1>14 DEF CallsInv

LEMMA ReleaseBlockCalls ==
    ASSUME CallsInv, ReleaseBlock
    PROVE  CallsInv'
<1>1. CacheInv' /\ PoolInv /\ StoredInv /\ CoverInv
  BY ReleaseBlockCache DEF CallsInv, CacheInv
<1>2. PICK s \in Seqs :
         /\ SameContent /\ token_ids' = token_ids
         /\ call.op = "release" /\ call.seq = s
         /\ Len(block_table[s]) \in Nat /\ Len(block_table[s]) >= 1
         /\ Len(block_table'[s]) = Len(block_table[s]) - 1
         /\ \A k \in 1 .. Len(block_table[s]) - 1 : block_table'[s][k] = block_table[s][k]
         /\ \A q \in Seqs \ {s} :
               block_table'[q] = block_table[q] /\ ContextEnd(q)' = ContextEnd(q)
         /\ \/ Len(block_table[s]) = 1 /\ call' = NoCall /\ ContextEnd(s)' = 0
            \/ Len(block_table[s]) # 1 /\ call' = call /\ ContextEnd(s)' = ContextEnd(s)
  BY <1>1, ReleaseUnfolded
<1>3. \A q \in Seqs : block_table[q] \in Seq(BlockIds)
  BY <1>1, Types
<1>4. StoredInv'
  <2>1. ASSUME NEW q \in Seqs, NEW k \in 1 .. Len(block_table'[q])
        PROVE  /\ k \in 1 .. Len(block_table[q]) /\ block_table'[q][k] = block_table[q][k]
               /\ block_table[q][k] \in BlockIds
    <3>1. k \in 1 .. Len(block_table[q]) /\ block_table'[q][k] = block_table[q][k]
      BY <1>2, <1>3
    <3>. QED
      BY <1>3, <3>1
  <2>2. ASSUME NEW q \in Seqs, NEW k \in 1 .. Len(block_table'[q])
        PROVE  /\ TableAt(q, k - 1) \in BlockIds \cup {None}
               /\ TableAt(q, k - 1)' = TableAt(q, k - 1)
    <3>1. k - 1 = 0 \/ k - 1 \in 1 .. Len(block_table'[q])
      OBVIOUS
    <3>. QED
      BY <2>1, <3>1 DEF TableAt
  <2>. QED
    BY <1>1, <1>2, <2>1, <2>2, StoredMoved
<1>5. CoverInv'
  <2>1. \A q \in Seqs \ {s} : (ContextEnd(q) <= Len(block_table[q]) * BlockSize)'
    BY <1>1, <1>2 DEF CoverInv
  <2>2. \/ (call.op = "release" /\ call.seq = s)'
        \/ (ContextEnd(s) <= Len(block_table[s]) * BlockSize)'
    <3>1. CASE call' = call
      BY <1>2, <3>1
    <3>2. CASE ContextEnd(s)' = 0 /\ Len(block_table[s]) = 1
      <4>1. Len(block_table'[s]) = 0 /\ 0 * BlockSize = 0
        BY <1>2, <3>2, BlockManagerAssumption
      <4>. QED
        BY <3>2, <4>1
    <3>. QED
      BY <1>2, <3>1, <3>2
  <2>. QED
    BY <2>1, <2>2 DEF CoverInv
<1>6. PlannedInv' /\ SupplyInv'
  BY <1>2 DEF PlannedInv, SupplyInv, NoCall
<1>. QED
  BY <1>1, <1>4, <1>5, <1>6 DEF CallsInv

(* deque.remove takes one block.                                            *)
LEMMA RemoveFreeLength ==
    ASSUME free_block_ids \in Seq(BlockIds), NEW b, IsFree(b)
    PROVE  Len(free_block_ids) \in Nat /\ Len(RemoveFree(b)) = Len(free_block_ids) - 1
<1> DEFINE at == CHOOSE i \in 1 .. Len(free_block_ids) : free_block_ids[i] = b
           head == SubSeq(free_block_ids, 1, at - 1)
           tail == SubSeq(free_block_ids, at + 1, Len(free_block_ids))
<1>1. \E i \in 1 .. Len(free_block_ids) : free_block_ids[i] = b
  BY DEF IsFree, Range
<1>2. at \in 1 .. Len(free_block_ids)
  BY <1>1
<1>3. RemoveFree(b) = head \o tail
  BY DEF RemoveFree, Removed
<1>. HIDE DEF at
<1>4. /\ head \in Seq(BlockIds) /\ Len(head) = at - 1
      /\ tail \in Seq(BlockIds) /\ Len(tail) = Len(free_block_ids) - at
  BY <1>2
<1>. HIDE DEF head, tail
<1>5. Len(head \o tail) = Len(head) + Len(tail)
  BY <1>4
<1>. QED
  BY <1>2, <1>3, <1>4, <1>5

LEMMA FillBlockCalls ==
    ASSUME CallsInv, FillBlock
    PROVE  CallsInv'
<1>1. /\ CacheInv' /\ CacheInv /\ PoolInv /\ PoolInv' /\ TypeOK
      /\ StoredInv /\ CoverInv /\ SupplyInv
  BY FillBlockCache DEF CallsInv, CacheInv, PoolInv
<1>2. PICK s \in Seqs, k \in Nat \ {0}, b \in BlockIds :
          \E blk, map : FillStep(s, k, b, blk, map)
  BY <1>1, FillUnfolded
<1>3. PICK blk, map : FillStep(s, k, b, blk, map)
  BY <1>2
<1>4. /\ call.op = "fill" /\ call.seq = s /\ call.index = k
      /\ \/ MoreBlocks(s, k) /\ call' = [op |-> "fill", seq |-> s, index |-> k + 1]
         \/ ~MoreBlocks(s, k) /\ call' = NoCall
      /\ token_ids' = token_ids /\ num_cached_tokens' = num_cached_tokens
  BY <1>3 DEF FillStep
<1>5. /\ \A q \in Seqs : ContextEnd(q)' = ContextEnd(q)
      /\ \A q \in Seqs \ {s} : b \notin Range(block_table[q])
      /\ k = 1 => TableAt(s, k - 1) = None
      /\ k > 1 => TableAt(s, k - 1) \in BlockIds
  BY <1>1, <1>3, FillPlace
<1>6. /\ \A q \in Seqs \ {s} : block_table'[q] = block_table[q]
      /\ Len(block_table'[s]) = k /\ block_table'[s][k] = b
      /\ \A j \in 1 .. k - 1 : j \in 1 .. Len(block_table[s])
                               /\ block_table'[s][j] = block_table[s][j]
  BY <1>1, <1>3, FillTable
<1>7. /\ \A q \in Seqs : block_table[q] \in Seq(BlockIds)
      /\ \A q \in Seqs : block_table'[q] \in Seq(BlockIds) /\ IsInjective(block_table'[q])
  <2>1. block_table \in [Seqs -> Seq(BlockIds)]
    BY <1>1, Types
  <2>2. block_table' \in [Seqs -> Seq(BlockIds)]
    BY <1>1 DEF PoolInv, TypeOK
  <2>3. \A q \in Seqs : IsInjective(block_table'[q])
    BY <1>1 DEF PoolInv, BlocksAccounted
  <2>. QED
    BY <2>1, <2>2, <2>3
<1>8. /\ \A c \in BlockIds \ {b} : blocks'[c] = blocks[c]
      /\ Published(b)' <=> Fills(s, k)
      /\ Fills(s, k) => /\ blocks'[b].hash = BlockHash(s, k)
                        /\ blocks'[b].token_ids = SeqBlock(s, k)
                        /\ blocks'[b].parent = LineageOf(TableAt(s, k - 1))
  BY <1>1, <1>3, FillWrites DEF Written
<1>9. ASSUME NEW q \in Seqs, NEW j \in 1 .. Len(block_table'[q]), ~(q = s /\ j = k)
      PROVE  /\ j \in 1 .. Len(block_table[q]) /\ block_table'[q][j] = block_table[q][j]
             /\ block_table'[q][j] \in BlockIds \ {b}
  <2>1. CASE q = s
    <3>1. j \in 1 .. k - 1
      BY <1>6, <1>9, <2>1
    <3>2. j # k /\ j \in DOMAIN block_table'[s] /\ k \in DOMAIN block_table'[s]
      BY <1>6, <1>7, <1>9, <2>1
    <3>3. block_table'[s][j] # b
      BY <1>6, <1>7, <3>2 DEF IsInjective
    <3>. QED
      BY <1>6, <1>7, <2>1, <3>1, <3>2, <3>3
  <2>2. CASE q # s
    <3>1. block_table'[q] = block_table[q]
      BY <1>6, <2>2
    <3>2. block_table[q][j] \in Range(block_table[q])
      BY <1>7, <1>9, <3>1 DEF Range
    <3>. QED
      BY <1>5, <1>7, <1>9, <2>2, <3>1, <3>2
  <2>. QED
    BY <2>1, <2>2
<1>10. ASSUME NEW q \in Seqs, NEW j \in 1 .. Len(block_table'[q])
       PROVE  /\ TableAt(q, j - 1)' = TableAt(q, j - 1)
              /\ TableAt(q, j - 1) \in (BlockIds \cup {None}) \ {b}
  <2>1. CASE j = 1
    <3>1. TableAt(q, 0) = None /\ TableAt(q, 0)' = None /\ j - 1 = 0
      BY <2>1 DEF TableAt
    <3>2. b # None
      BY <1>2, BlockManagerAssumption DEF BlockIds, None
    <3>. QED
      BY <3>1, <3>2
  <2>2. CASE j > 1
    <3>1. j - 1 \in 1 .. Len(block_table'[q]) /\ ~(q = s /\ j - 1 = k) /\ j - 1 # 0
      BY <1>6, <2>2
    <3>2. block_table'[q][j - 1] = block_table[q][j - 1]
          /\ block_table'[q][j - 1] \in BlockIds \ {b}
      BY <1>9, <3>1
    <3>. QED
      BY <3>1, <3>2 DEF TableAt
  <2>3. j = 1 \/ j > 1
    OBVIOUS
  <2>. QED
    BY <2>1, <2>2, <2>3
<1>11. StoredInv'
  <2>1. ASSUME NEW q \in Seqs, NEW j \in 1 .. Len(block_table'[q]),
               NEW c \in BlockIds, c = block_table'[q][j], Published(c)'
        PROVE  Stores(c, q, j, TableAt(q, j - 1))'
    <3>1. PICK prev \in (BlockIds \cup {None}) \ {b} :
              prev = TableAt(q, j - 1) /\ prev = TableAt(q, j - 1)'
      BY <1>10
    <3>2. LineageOf(prev)' = LineageOf(prev)
      BY <1>8 DEF LineageOf
    <3>3. BlockHash(q, j)' = BlockHash(q, j) /\ SeqBlock(q, j)' = SeqBlock(q, j)
      BY <1>4 DEF BlockHash, Prefix, SeqBlock
    <3>4. CASE q = s /\ j = k
      <4>1. c = b /\ Fills(s, k)
        BY <1>6, <1>8, <2>1, <3>4
      <4>2. /\ blocks'[c].hash = BlockHash(q, j) /\ blocks'[c].token_ids = SeqBlock(q, j)
            /\ blocks'[c].parent = LineageOf(prev)
        BY <1>8, <3>1, <3>4, <4>1
      <4>. QED
        BY <3>1, <3>2, <3>3, <4>2 DEF Stores, LineageOf
    <3>5. CASE ~(q = s /\ j = k)
      <4>1. /\ j \in 1 .. Len(block_table[q]) /\ c = block_table[q][j]
            /\ c \in BlockIds \ {b}
        BY <1>9, <2>1, <3>5
      <4>2. blocks'[c] = blocks[c] /\ Published(c)
        BY <1>8, <2>1, <4>1 DEF Published
      <4>3. Stores(c, q, j, prev)
        BY <1>1, <3>1, <4>1, <4>2 DEF StoredInv
      <4>. QED
        BY <3>1, <3>2, <3>3, <4>2, <4>3 DEF Stores, LineageOf
    <3>. QED
      BY <3>4, <3>5
  <2>2. \A q \in Seqs : \A j \in 1 .. Len(block_table'[q]) : block_table'[q][j] \in BlockIds
    BY <1>7
  <2>. QED
    BY <2>1, <2>2 DEF StoredInv
<1>12. PICK x \in Nat : /\ x = k * BlockSize /\ (k + 1) * BlockSize = x + BlockSize
                        /\ BlockSize \in Nat /\ BlockSize >= 1
  <2>1. k + 1 \in Nat \ {0} /\ (k + 1) - 1 = k
    OBVIOUS
  <2>. QED
    BY <2>1, BlockBorders
<1>13. ContextEnd(s) \in Nat /\ num_cached_tokens[s] \in Nat
  BY <1>1, Types
<1>14. CoverInv'
  <2>1. \A q \in Seqs \ {s} : (ContextEnd(q) <= Len(block_table[q]) * BlockSize)'
    BY <1>1, <1>4, <1>5, <1>6 DEF CoverInv
  <2>2. CASE call' = NoCall /\ ~MoreBlocks(s, k)
    <3>1. (ContextEnd(s) <= Len(block_table[s]) * BlockSize)'
      BY <1>5, <1>6, <1>12, <1>13, <2>2 DEF MoreBlocks
    <3>. QED
      BY <2>1, <3>1 DEF CoverInv
  <2>3. CASE call' = [op |-> "fill", seq |-> s, index |-> k + 1]
    BY <2>1, <2>3 DEF CoverInv
  <2>. QED
    BY <1>4, <2>2, <2>3
<1>15. ContextEnd(s) <= (k + Len(free_block_ids')) * BlockSize
  <2>1. /\ FillOk(s, k)
        /\ IF k <= Len(block_table[s])
             THEN free_block_ids' = free_block_ids
             ELSE free_block_ids' = RemoveFree(Head(free_block_ids))
    BY <1>4 DEF FillBlock, TakeFree
  <2>2. free_block_ids \in Seq(BlockIds) /\ IsInjective(free_block_ids)
    BY <1>1 DEF PoolInv, TypeOK, BlocksAccounted
  <2>3. PICK L \in Nat, F \in Nat : L = Len(block_table[s]) /\ F = Len(free_block_ids)
    BY <1>7, <2>2
  <2>4. ContextEnd(s) <= (L + F) * BlockSize
    BY <1>1, <1>4, <2>3 DEF SupplyInv
  <2>5. k + Len(free_block_ids') = L + F
    <3>1. CASE k <= L
      <4>1. L <= k
        BY <1>1, <1>4, <2>3 DEF CacheInv, FillInv
      <4>. QED
        BY <2>1, <2>3, <3>1, <4>1
    <3>2. CASE ~(k <= L)
      <4>1. k = L + 1 /\ free_block_ids # <<>>
        BY <2>1, <2>3, <3>2 DEF FillOk
      <4>2. IsFree(Head(free_block_ids))
        BY <2>2, <4>1, TailFacts DEF IsFree
      <4>3. Len(free_block_ids') = F - 1
        BY <2>1, <2>2, <2>3, <3>2, <4>2, RemoveFreeLength
      <4>. QED
        BY <2>3, <4>1, <4>3
    <3>. QED
      BY <3>1, <3>2
  <2>. QED
    BY <2>4, <2>5
<1>16. SupplyInv'
  <2>1. CASE MoreBlocks(s, k) /\ call' = [op |-> "fill", seq |-> s, index |-> k + 1]
    <3>1. call'.op = "fill" /\ call'.seq = s /\ call'.index = k + 1
      BY <2>1
    <3>2. num_cached_tokens'[s] < (k + 1) * BlockSize
      BY <1>1, <1>4, <1>12, <1>13 DEF SupplyInv
    <3>3. ContextEnd(call.seq)' = ContextEnd(s)
      BY <1>5, <3>1 DEF ContextEnd
    <3>. QED
      BY <1>6, <1>15, <3>1, <3>2, <3>3 DEF SupplyInv
  <2>. QED
    BY <1>4, <2>1 DEF SupplyInv, NoCall
<1>17. PlannedInv'
  BY <1>4 DEF PlannedInv, NoCall
<1>. QED
  BY <1>1, <1>11, <1>14, <1>16, <1>17 DEF CallsInv

LEMMA StutterCalls ==
    ASSUME CallsInv, UNCHANGED bmVars
    PROVE  CallsInv'
<1>1. CacheInv' /\ PoolInv
  BY StutterCache DEF CallsInv, CacheInv
<1>2. UNCHANGED <<poolVars, token_ids, seqVars, chain, call>>
  BY DEF bmVars
<1>3. StoredInv'
  <2>1. SameContent
    BY <1>2, UnchangedContent DEF poolVars
  <2>. QED
    BY <1>1, <1>2, <2>1, StoredKept DEF CallsInv, seqVars
<1>4. CoverInv' /\ SupplyInv'
  BY <1>2 DEF CallsInv, CoverInv, SupplyInv, ContextEnd, poolVars, seqVars
<1>5. PlannedInv'
  BY <1>2 DEF CallsInv, PlannedInv, ContextEnd, SeqLen, BlockHash, Prefix, Owner, OwnerIn,
              poolVars, seqVars
<1>. QED
  BY <1>1, <1>3, <1>4, <1>5 DEF CallsInv

LEMMA NextCalls == CallsInv /\ [Next]_bmVars => CallsInv'
<1>. SUFFICES ASSUME CallsInv, [Next]_bmVars PROVE CallsInv'
  OBVIOUS
<1>1. ASSUME NEW s \in Seqs, Call(s) PROVE CallsInv'
  BY <1>1, CallClaimCalls, CallFillCalls, DeallocateCalls DEF Call
<1>2. CASE CallStep
  BY <1>2, ClaimBlockCalls, FillBlockCalls, ReleaseBlockCalls DEF CallStep
<1>3. ASSUME NEW S \in SUBSET Seqs, Advance(S) PROVE CallsInv'
  BY <1>3, AdvanceCalls
<1>4. ASSUME NEW s \in Seqs, NEW t \in Token, AppendToken(s, t) PROVE CallsInv'
  BY <1>4, AppendTokenCalls
<1>5. CASE UNCHANGED bmVars
  BY <1>5, StutterCalls
<1>. QED
  BY <1>1, <1>2, <1>3, <1>4, <1>5 DEF Next

(* _validate_claimed_prefix passes for a request whose table is exactly its   *)
(* cached prefix.                                                          *)
LEMMA ClaimsValid ==
    ASSUME CallsInv, NEW s \in Seqs, call.op \in {"none", "claim"},
           num_new_tokens[s] = 0, num_cached_tokens[s] = Len(block_table[s]) * BlockSize
    PROVE  ClaimedPrefixValid(s)
<1>1. PoolInv /\ BlocksAccounted /\ PrefixSound /\ ContentInv /\ StoredInv
  BY DEF CallsInv, CacheInv, PoolInv
<1>2. /\ block_table[s] \in Seq(BlockIds)
      /\ num_cached_tokens[s] \in Nat /\ SeqLen(s) \in Nat /\ ContextEnd(s) <= SeqLen(s)
  BY <1>1, Types
<1>3. PICK L \in Nat : L = Len(block_table[s])
  BY <1>2
<1>4. ContextEnd(s) = L * BlockSize
  BY <1>2, <1>3 DEF ContextEnd
<1>5. ASSUME NEW k \in 1 .. L, NEW b \in BlockIds, b = block_table[s][k]
      PROVE  /\ k * BlockSize <= SeqLen(s)
             /\ IsUsed(b) /\ ~IsFree(b) /\ blocks[b].ref_count > 0
             /\ blocks[b].lineage # NoLineage
             /\ Stores(b, s, k, TableAt(s, k - 1))
  <2>1. PICK x \in Nat, y \in Nat : x = k * BlockSize /\ y = L * BlockSize /\ x <= y
    BY BlockManagerAssumption, MulFacts
  <2>2. k * BlockSize <= ContextEnd(s) /\ k * BlockSize <= SeqLen(s)
    BY <1>2, <1>4, <2>1
  <2>3. Published(b)
    <3>1. Reached(s, k) = ContextEnd(s)
      BY DEF Reached
    <3>. QED
      BY <1>1, <1>3, <1>5, <2>2, <3>1 DEF PrefixSound
  <2>4. s \in Holders(b)
    BY <1>2, <1>3, <1>5 DEF Holders, Range
  <2>5. IsUsed(b) /\ ~IsFree(b)
    BY <1>1, <2>4 DEF BlocksAccounted, IsUsed, IsFree
  <2>6. blocks[b].ref_count > 0
    <3>1. Cardinality(Holders(b)) # 0 /\ Cardinality(Holders(b)) \in Nat
      BY <2>4, FS_EmptySet, FS_Subset, FS_CardinalityType, BlockManagerAssumption DEF Holders
    <3>. QED
      BY <1>1, <3>1 DEF BlocksAccounted
  <2>. QED
    BY <1>1, <1>3, <1>5, <2>2, <2>3, <2>5, <2>6 DEF ContentInv, StoredInv
<1>6. \A k \in 1 .. L : block_table[s][k] \in BlockIds
  BY <1>2, <1>3
<1>. QED
  BY <1>3, <1>5, <1>6 DEF ClaimedPrefixValid

(* Free or used, with the count that goes with it.                           *)
LEMMA AllResident ==
    ASSUME BlocksAccounted, NEW b \in BlockIds
    PROVE  Resident(b)
<1>1. /\ IsFree(b) <=> Holders(b) = {}
      /\ blocks[b].ref_count = Cardinality(Holders(b))
      /\ IsUsed(b) <=> ~IsFree(b)
  BY DEF BlocksAccounted, IsUsed, IsFree
<1>2. /\ Cardinality(Holders(b)) \in Nat
      /\ Cardinality(Holders(b)) = 0 <=> Holders(b) = {}
  BY FS_EmptySet, FS_Subset, FS_CardinalityType, BlockManagerAssumption DEF Holders
<1>. QED
  BY <1>1, <1>2 DEF Resident

LEMMA PlanStaysCurrent ==
    ASSUME CallsInv, call.op = "claim"
    PROVE  PlanIsCurrent(call.seq, call.plan)
<1>1. PoolInv /\ BlocksAccounted /\ PlanInv /\ ClaimInv /\ PlannedInv
  BY DEF CallsInv, CacheInv, PoolInv
<1>2. PICK s, plan : s = call.seq /\ plan = call.plan
  OBVIOUS
<1>3. s \in Seqs /\ plan \in Seq(BlockIds)
  BY <1>1, <1>2, CallKinds DEF PoolInv
<1>4. /\ num_new_tokens[s] = 0 /\ num_cached_tokens[s] = Len(block_table[s]) * BlockSize
      /\ Continues(s, plan) /\ IsInjective(plan)
      /\ ContextEnd(s) + Len(plan) * BlockSize < SeqLen(s)
  BY <1>1, <1>2 DEF ClaimInv, PlanInv, PlannedInv
<1>5. ClaimedPrefixValid(s)
  BY <1>3, <1>4, ClaimsValid
<1>6. PICK L \in Nat, N \in Nat : L = Len(block_table[s]) /\ N = Len(plan)
  <2>1. block_table[s] \in Seq(BlockIds)
    BY <1>1, <1>3, Types
  <2>. QED
    BY <1>3, <2>1
<1>7. SeqLen(s) \in Nat /\ ContextEnd(s) = L * BlockSize /\ BlockSize \in Nat \ {0}
  BY <1>1, <1>3, <1>4, <1>6, Types, BlockManagerAssumption DEF ContextEnd
<1>8. ASSUME NEW i \in 1 .. N
      PROVE  /\ L + i < NumSeqBlocks(s) /\ Owner(BlockHash(s, L + i)) = plan[i]
             /\ Resident(plan[i])
             /\ Stores(plan[i], s, L + i, IF i - 1 = 0 THEN TableAt(s, L) ELSE plan[i - 1])
  <2>1. L + i < NumSeqBlocks(s)
    <3>1. PICK m \in Nat : m = CeilDiv(SeqLen(s), BlockSize) /\ SeqLen(s) <= m * BlockSize
      BY <1>7, CeilDivCovers
    <3>2. (L + N) * BlockSize = L * BlockSize + N * BlockSize
      BY <1>6, <1>7, MulFacts
    <3>3. (L + N) * BlockSize < SeqLen(s)
      BY <1>4, <1>6, <1>7, <3>2
    <3>4. m <= L + N => m * BlockSize <= (L + N) * BlockSize
      BY <1>6, <1>7, <3>1, MulFacts
    <3>5. PICK x \in Nat, y \in Nat : x = m * BlockSize /\ y = (L + N) * BlockSize
      BY <1>6, <1>7, <3>1, MulFacts
    <3>6. ~(m <= L + N)
      BY <1>7, <3>1, <3>3, <3>4, <3>5
    <3>. QED
      BY <1>6, <3>1, <3>6 DEF NumSeqBlocks
  <2>2. Owner(BlockHash(s, L + i)) = plan[i]
    BY <1>1, <1>2, <1>6 DEF PlannedInv
  <2>3. Resident(plan[i])
    BY <1>1, <1>3, <1>6, AllResident
  <2>4. Stores(plan[i], s, L + i, IF i = 1 THEN TableAt(s, L) ELSE plan[i - 1])
    BY <1>4, <1>6 DEF Continues
  <2>5. i - 1 = 0 <=> i = 1
    OBVIOUS
  <2>. QED
    BY <2>1, <2>2, <2>3, <2>4, <2>5
<1>9. \A i, j \in 1 .. Len(plan) : i # j => plan[i] # plan[j]
  BY <1>3, <1>4 DEF IsInjective
<1>10. PlanIsCurrent(s, plan)
  BY <1>5, <1>6, <1>8, <1>9 DEF PlanIsCurrent
<1>. QED
  BY <1>2, <1>10

LEMMA FillsFind ==
    ASSUME CallsInv, call.op = "fill"
    PROVE  FillOk(call.seq, call.index)
<1>1. PoolInv /\ PrefixSound /\ FillInv /\ SupplyInv
  BY DEF CallsInv, CacheInv
<1>2. PICK s, k : s = call.seq /\ k = call.index
  OBVIOUS
<1>3. s \in Seqs /\ k \in Nat \ {0}
  BY <1>1, <1>2, CallKinds, BlockManagerAssumption DEF PoolInv
<1>4. block_table[s] \in Seq(BlockIds) /\ free_block_ids \in Seq(BlockIds)
  BY <1>1, <1>3, Types DEF PoolInv, TypeOK
<1>5. PICK L \in Nat, F \in Nat : L = Len(block_table[s]) /\ F = Len(free_block_ids)
  BY <1>4
<1>6. /\ (k - 1) * BlockSize < ContextEnd(s) /\ k <= L + 1
      /\ num_cached_tokens[s] < k * BlockSize /\ ContextEnd(s) <= (L + F) * BlockSize
  BY <1>1, <1>2, <1>5 DEF FillInv, SupplyInv
<1>7. PICK x \in Nat, y \in Nat : x = (k - 1) * BlockSize /\ y = k * BlockSize
  BY <1>3, BlockBorders
<1>8. ContextEnd(s) \in Nat /\ num_cached_tokens[s] \in Nat
  BY <1>1, <1>3, Types
<1>9. ASSUME k > 1 PROVE Published(block_table[s][k - 1])
  <2>1. k - 1 \in 1 .. Len(block_table[s])
    BY <1>3, <1>5, <1>6, <1>9
  <2>2. Reached(s, k - 1) = ContextEnd(s)
    <3>1. ~(k <= k - 1)
      BY <1>3
    <3>. QED
      BY <1>2, <3>1 DEF Reached
  <2>3. (k - 1) * BlockSize <= ContextEnd(s)
    BY <1>6, <1>7, <1>8
  <2>. QED
    BY <1>1, <1>3, <2>1, <2>2, <2>3 DEF PrefixSound
<1>10. ASSUME k <= L PROVE ~Published(block_table[s][k])
  <2>1. k \in 1 .. Len(block_table[s])
    BY <1>3, <1>5, <1>10
  <2>2. Reached(s, k) = num_cached_tokens[s]
    BY <1>2, <1>3 DEF Reached
  <2>3. ~(k * BlockSize <= num_cached_tokens[s])
    BY <1>6, <1>7, <1>8
  <2>. QED
    BY <1>1, <1>3, <2>1, <2>2, <2>3 DEF PrefixSound
<1>11. ASSUME ~(k <= L) PROVE k = L + 1 /\ free_block_ids # <<>>
  <2>1. k = L + 1 /\ k - 1 = L
    BY <1>3, <1>6, <1>11
  <2>2. F # 0
    BY <1>6, <1>7, <1>8, <2>1
  <2>. QED
    BY <1>5, <2>1, <2>2
<1>12. FillOk(s, k)
  BY <1>5, <1>9, <1>10, <1>11 DEF FillOk
<1>. QED
  BY <1>2, <1>12

(* None of the assertions of claim_prefix, allocate_new, may_append and       *)
(* _validate_claimed_prefix can fail between the legal calls of any number   *)
(* of requests, and a fill that num_blocks_to_append allowed never runs out  *)
(* of free blocks.                                                         *)
THEOREM NoAssertionFires == Spec => []AssertionsHold
<1>1. CallsInv => AssertionsHold
  <2>. SUFFICES ASSUME CallsInv PROVE AssertionsHold
    OBVIOUS
  <2>1. call = NoCall => call.op \in {"none", "claim"}
    BY DEF NoCall
  <2>. QED
    BY <2>1, ClaimsValid, PlanStaysCurrent, FillsFind DEF AssertionsHold
<1>2. Spec => []CallsInv
  BY InitCalls, NextCalls, PTL DEF Spec
<1>. QED
  BY <1>1, <1>2, PTL

-----------------------------------------------------------------------------
(* References stay resident                                                *)

(* c is taken from the free queue before b.                                 *)
Sooner(c, b) ==
    \E i, j \in 1 .. Len(free_block_ids) :
        i < j /\ free_block_ids[i] = c /\ free_block_ids[j] = b

(* A free block is evicted before the block whose lineage it names.          *)
LeafFirst ==
    \A c \in BlockIds : Published(c) /\ IsFree(c) /\ blocks[c].parent # NoLineage =>
        \E b \in BlockIds :
            /\ Published(b) /\ blocks[b].lineage = blocks[c].parent
            /\ IsFree(b) => Sooner(c, b)

IndexInv ==
    \A h \in DOMAIN hash_to_block_id : blocks[hash_to_block_id[h]].hash = h

EvictionInv == CallsInv /\ LeafFirst /\ IndexInv

(* The block before a full block of a table is full.                        *)
LEMMA TableParent ==
    ASSUME CallsInv, NEW s \in Seqs, NEW k \in 1 .. Len(block_table[s]), NEW c \in BlockIds,
           c = block_table[s][k], Published(c), blocks[c].parent # NoLineage
    PROVE  /\ k > 1 /\ k - 1 \in 1 .. Len(block_table[s])
           /\ block_table[s][k - 1] \in BlockIds /\ Published(block_table[s][k - 1])
           /\ blocks[block_table[s][k - 1]].lineage = blocks[c].parent
<1>1. PoolInv /\ PrefixSound /\ StoredInv
  BY DEF CallsInv, CacheInv
<1>2. block_table[s] \in Seq(BlockIds) /\ k \in Nat \ {0} /\ k - 1 <= Len(block_table[s])
  BY <1>1, Types
<1>3. blocks[c].parent = LineageOf(TableAt(s, k - 1))
  BY <1>1 DEF StoredInv, Stores
<1>4. k > 1
  <2>1. k = 1 => LineageOf(TableAt(s, k - 1)) = NoLineage
    BY DEF TableAt, LineageOf
  <2>. QED
    BY <1>2, <1>3, <2>1
<1>5. (k - 1) * BlockSize <= Reached(s, k - 1)
  <2>1. k * BlockSize <= Reached(s, k)
    BY <1>1 DEF PrefixSound
  <2>2. k - 1 \in Nat \ {0}
    BY <1>2, <1>4
  <2>3. /\ Reached(s, k) \in Nat /\ Reached(s, k) <= ContextEnd(s)
        /\ Reached(s, k - 1) \in Nat /\ ContextEnd(s) \in Nat
    BY <1>1, <1>2, <2>2, StoredFacts, Types
  <2>4. Reached(s, k - 1) = ContextEnd(s) \/ Reached(s, k - 1) = Reached(s, k)
    <3>1. CASE call.op = "fill" /\ call.seq = s /\ call.index <= k - 1
      <4>1. call.index \in Nat
        BY <1>1, <3>1, CallKinds, BlockManagerAssumption DEF PoolInv
      <4>2. call.index <= k
        BY <1>2, <3>1, <4>1
      <4>. QED
        BY <3>1, <4>2 DEF Reached
    <3>2. CASE ~(call.op = "fill" /\ call.seq = s /\ call.index <= k - 1)
      BY <3>2 DEF Reached
    <3>. QED
      BY <3>1, <3>2
  <2>5. PICK x \in Nat, y \in Nat : x = (k - 1) * BlockSize /\ y = k * BlockSize /\ x <= y
    BY <1>2, BlockBorders
  <2>. QED
    BY <2>1, <2>3, <2>4, <2>5
<1>6. k - 1 \in 1 .. Len(block_table[s])
  BY <1>2, <1>4
<1>7. /\ TableAt(s, k - 1) \in BlockIds /\ Published(TableAt(s, k - 1))
      /\ TableAt(s, k - 1) = block_table[s][k - 1]
  BY <1>1, <1>2, <1>4, <1>5, PreviousStores
<1>8. TableAt(s, k - 1) # None
  BY <1>7, BlockManagerAssumption DEF BlockIds, None
<1>. QED
  BY <1>3, <1>4, <1>6, <1>7, <1>8 DEF LineageOf

(* ReferencesResident follows.                                              *)
LEMMA ReferencesFollow == EvictionInv => ReferencesResident
<1>. SUFFICES ASSUME EvictionInv PROVE ReferencesResident
  OBVIOUS
<1>1. CallsInv /\ LeafFirst /\ IndexInv /\ PoolInv /\ BlocksAccounted
  BY DEF EvictionInv, CallsInv, CacheInv, PoolInv
<1>2. ASSUME NEW c \in BlockIds, Published(c), blocks[c].parent # NoLineage
      PROVE  \E b \in BlockIds : Published(b) /\ blocks[b].lineage = blocks[c].parent
  <2>1. CASE IsFree(c)
    BY <1>1, <1>2, <2>1 DEF LeafFirst
  <2>2. CASE ~IsFree(c)
    <3>1. PICK s \in Seqs : c \in Range(block_table[s])
      BY <1>1, <2>2 DEF BlocksAccounted, Holders
    <3>2. PICK k \in 1 .. Len(block_table[s]) : c = block_table[s][k]
      BY <1>1, <3>1, Types DEF Range
    <3>. QED
      BY <1>1, <1>2, <3>2, TableParent
  <2>. QED
    BY <2>1, <2>2
<1>. QED
  BY <1>1, <1>2 DEF ReferencesResident, IndexInv

(* A step that leaves the blocks, the queue and the index alone.             *)
LEMMA EvictionKept ==
    ASSUME EvictionInv, CallsInv', UNCHANGED poolVars
    PROVE  EvictionInv'
<1>1. LeafFirst'
  BY DEF EvictionInv, LeafFirst, Sooner, Published, IsFree, poolVars
<1>2. IndexInv'
  BY DEF EvictionInv, IndexInv, poolVars
<1>. QED
  BY <1>1, <1>2 DEF EvictionInv

LEMMA InitEviction == Init => EvictionInv
<1>. SUFFICES ASSUME Init PROVE EvictionInv
  OBVIOUS
<1>1. \A b \in BlockIds : ~Published(b)
  BY DEF Init, Published, NewBlock
<1>2. DOMAIN hash_to_block_id = {}
  BY DEF Init
<1>. QED
  BY <1>1, <1>2, InitCalls DEF EvictionInv, LeafFirst, IndexInv

(* Whoever leaves the queue, the others keep their order.                    *)
LEMMA RemoveKeepsOrder ==
    ASSUME free_block_ids \in Seq(BlockIds), NEW x, IsFree(x),
           free_block_ids' = RemoveFree(x),
           NEW c, NEW b, c # x, b # x, Sooner(c, b)
    PROVE  Sooner(c, b)'
<1> DEFINE at == CHOOSE i \in 1 .. Len(free_block_ids) : free_block_ids[i] = x
           head == SubSeq(free_block_ids, 1, at - 1)
           tail == SubSeq(free_block_ids, at + 1, Len(free_block_ids))
<1>1. at \in 1 .. Len(free_block_ids) /\ free_block_ids[at] = x
  BY DEF IsFree, Range
<1>2. free_block_ids' = head \o tail
  BY DEF RemoveFree, Removed
<1>3. PICK n \in Nat : n = Len(free_block_ids)
  OBVIOUS
<1>. HIDE DEF at
<1>4. /\ head \in Seq(BlockIds) /\ Len(head) = at - 1
      /\ \A i \in 1 .. at - 1 : head[i] = free_block_ids[i]
  BY <1>1
<1>5. /\ tail \in Seq(BlockIds) /\ Len(tail) = n - at
      /\ \A i \in 1 .. n - at : tail[i] = free_block_ids[at + i]
  BY <1>1, <1>3
<1> DEFINE place(i) == IF i < at THEN i ELSE i - 1
<1>6. ASSUME NEW i \in 1 .. n, free_block_ids[i] # x
      PROVE  /\ place(i) \in 1 .. Len(free_block_ids')
             /\ free_block_ids'[place(i)] = free_block_ids[i]
             /\ i # at
  <2>. HIDE DEF head, tail
  <2>1. i # at
    BY <1>1, <1>6
  <2>2. Len(free_block_ids') = n - 1
    BY <1>1, <1>2, <1>3, <1>4, <1>5
  <2>3. CASE i < at
    <3>1. i \in 1 .. at - 1 /\ place(i) = i
      BY <1>1, <1>3, <2>3
    <3>2. (head \o tail)[i] = head[i]
      BY <1>4, <1>5, <3>1
    <3>. QED
      BY <1>1, <1>2, <1>3, <1>4, <2>1, <2>2, <3>1, <3>2
  <2>4. CASE i > at
    <3>1. i - 1 \in 1 .. n - 1 /\ i - at \in 1 .. n - at /\ place(i) = i - 1
          /\ (i - 1) - (at - 1) = i - at /\ at + (i - at) = i
      BY <1>1, <1>3, <2>4
    <3>2. (head \o tail)[i - 1] = tail[i - at]
      BY <1>1, <1>3, <1>4, <1>5, <2>4, <3>1
    <3>. QED
      BY <1>2, <1>5, <2>1, <2>2, <3>1, <3>2
  <2>. QED
    BY <1>1, <1>3, <2>1, <2>3, <2>4
<1>7. PICK i \in 1 .. n, j \in 1 .. n :
          i < j /\ free_block_ids[i] = c /\ free_block_ids[j] = b
  BY <1>3 DEF Sooner
<1>8. /\ place(i) \in 1 .. Len(free_block_ids') /\ free_block_ids'[place(i)] = c /\ i # at
      /\ place(j) \in 1 .. Len(free_block_ids') /\ free_block_ids'[place(j)] = b /\ j # at
  BY <1>6, <1>7
<1>9. place(i) < place(j)
  BY <1>1, <1>3, <1>7, <1>8
<1>. HIDE DEF place
<1>. QED
  BY <1>8, <1>9 DEF Sooner

(* A block that is returned is taken after those that wait.                  *)
LEMMA ReturnKeepsOrder ==
    ASSUME free_block_ids \in Seq(BlockIds), NEW x \in BlockIds,
           free_block_ids' = Append(free_block_ids, x)
    PROVE  /\ \A c, b : Sooner(c, b) => Sooner(c, b)'
           /\ \A c : IsFree(c) => Sooner(c, x)'
<1>1. PICK n \in Nat : n = Len(free_block_ids)
  OBVIOUS
<1>2. /\ Len(free_block_ids') = n + 1 /\ free_block_ids'[n + 1] = x
      /\ \A i \in 1 .. n : i \in 1 .. n + 1 /\ free_block_ids'[i] = free_block_ids[i]
  BY <1>1
<1>3. \A c, b : Sooner(c, b) => Sooner(c, b)'
  BY <1>1, <1>2 DEF Sooner
<1>4. ASSUME NEW c, IsFree(c) PROVE Sooner(c, x)'
  <2>1. PICK i \in 1 .. n : free_block_ids[i] = c
    BY <1>1, <1>4 DEF IsFree, Range
  <2>2. i < n + 1 /\ i \in 1 .. n + 1 /\ n + 1 \in 1 .. n + 1
    BY <2>1
  <2>. QED
    BY <1>2, <2>1, <2>2 DEF Sooner
<1>. QED
  BY <1>3, <1>4

LEMMA ClaimBlockEviction ==
    ASSUME EvictionInv, ClaimBlock
    PROVE  EvictionInv'
<1>1. /\ CallsInv' /\ CallsInv /\ LeafFirst /\ IndexInv /\ PoolInv
      /\ free_block_ids \in Seq(BlockIds) /\ IsInjective(free_block_ids)
  BY ClaimBlockCalls DEF EvictionInv, CallsInv, CacheInv, PoolInv, TypeOK, BlocksAccounted
<1>2. SameContent /\ hash_to_block_id' = hash_to_block_id
  <2>1. PICK s, plan, b : s \in Seqs /\ ClaimStep(s, plan, b)
    BY <1>1, ClaimUnfolded
  <2>2. hash_to_block_id' = hash_to_block_id
    BY <2>1 DEF ClaimStep
  <2>. QED
    BY <1>1, <2>1, <2>2, ClaimPlace DEF CallsInv
<1>3. \/ free_block_ids' = free_block_ids
      \/ \E x \in BlockIds : IsFree(x) /\ free_block_ids' = RemoveFree(x)
  <2>1. Head(call.plan) \in BlockIds
    BY <1>1, CallKinds DEF ClaimBlock, PoolInv
  <2>. QED
    BY <2>1 DEF ClaimBlock, TakeFree
<1>4. IndexInv'
  <2>1. ASSUME NEW h \in DOMAIN hash_to_block_id
        PROVE  blocks'[hash_to_block_id[h]].hash = h
    <3>1. hash_to_block_id[h] \in BlockIds
      BY <1>1 DEF PoolInv, TypeOK, Range
    <3>. QED
      BY <1>1, <1>2, <3>1 DEF IndexInv, SameContent
  <2>. QED
    BY <1>2, <2>1 DEF IndexInv
<1>5. LeafFirst'
  <2>1. ASSUME NEW c \in BlockIds, Published(c)', IsFree(c)', blocks'[c].parent # NoLineage
        PROVE  \E b \in BlockIds :
                  /\ Published(b)' /\ blocks'[b].lineage = blocks'[c].parent
                  /\ IsFree(b)' => Sooner(c, b)'
    <3>1. CASE free_block_ids' = free_block_ids
      BY <1>1, <1>2, <2>1, <3>1 DEF LeafFirst, SameContent, Published, IsFree, Sooner
    <3>2. ASSUME NEW x \in BlockIds, IsFree(x), free_block_ids' = RemoveFree(x)
          PROVE  \E b \in BlockIds :
                    /\ Published(b)' /\ blocks'[b].lineage = blocks'[c].parent
                    /\ IsFree(b)' => Sooner(c, b)'
      <4>1. \A y \in BlockIds : IsFree(y)' <=> IsFree(y) /\ y # x
        BY <1>1, <3>2, RemoveFreeFacts DEF PoolInv, IsFree
      <4>2. PICK b \in BlockIds :
                /\ Published(b) /\ blocks[b].lineage = blocks[c].parent
                /\ IsFree(b) => Sooner(c, b)
        BY <1>1, <1>2, <2>1, <4>1 DEF LeafFirst, SameContent, Published
      <4>3. IsFree(b)' => Sooner(c, b)'
        BY <1>1, <2>1, <3>2, <4>1, <4>2, RemoveKeepsOrder
      <4>. QED
        BY <1>2, <4>2, <4>3 DEF SameContent, Published
    <3>. QED
      BY <1>3, <3>1, <3>2
  <2>. QED
    BY <2>1 DEF LeafFirst
<1>. QED
  BY <1>1, <1>4, <1>5 DEF EvictionInv

LEMMA ReleaseBlockEviction ==
    ASSUME EvictionInv, ReleaseBlock
    PROVE  EvictionInv'
<1>1. /\ CallsInv' /\ CallsInv /\ LeafFirst /\ IndexInv /\ PoolInv /\ TypeOK
      /\ BlocksAccounted /\ BlocksAccounted' /\ ReleaseInv /\ free_block_ids \in Seq(BlockIds)
  BY ReleaseBlockCalls DEF EvictionInv, CallsInv, CacheInv, PoolInv, TypeOK
<1>2. PICK s \in Seqs :
         /\ SameContent /\ call.seq = s
         /\ Len(block_table[s]) \in Nat /\ Len(block_table[s]) >= 1
         /\ Len(block_table'[s]) = Len(block_table[s]) - 1
         /\ \A k \in 1 .. Len(block_table[s]) - 1 : block_table'[s][k] = block_table[s][k]
  BY <1>1, ReleaseUnfolded
<1>3. PICK L \in Nat, x \in BlockIds :
          L = Len(block_table[s]) /\ L >= 1 /\ x = block_table[s][L]
  <2>1. block_table[s][Len(block_table[s])] \in BlockIds
    BY <1>1, <1>2, Types
  <2>. QED
    BY <1>2, <2>1
<1>4. /\ hash_to_block_id' = hash_to_block_id
      /\ \/ free_block_ids' = free_block_ids
         \/ free_block_ids' = Append(free_block_ids, x)
  BY <1>2, <1>3 DEF ReleaseBlock, ReturnFree
<1>5. IndexInv'
  <2>1. ASSUME NEW h \in DOMAIN hash_to_block_id
        PROVE  blocks'[hash_to_block_id[h]].hash = h
    <3>1. hash_to_block_id[h] \in BlockIds
      BY <1>1 DEF TypeOK, Range
    <3>. QED
      BY <1>1, <1>2, <3>1 DEF IndexInv, SameContent
  <2>. QED
    BY <1>4, <2>1 DEF IndexInv
<1>6. LeafFirst'
  <2>1. ASSUME NEW c \in BlockIds, Published(c)', IsFree(c)', blocks'[c].parent # NoLineage
        PROVE  \E b \in BlockIds :
                  /\ Published(b)' /\ blocks'[b].lineage = blocks'[c].parent
                  /\ IsFree(b)' => Sooner(c, b)'
    <3>1. Published(c) /\ blocks[c].parent = blocks'[c].parent /\ blocks[c].parent # NoLineage
      BY <1>2, <2>1 DEF SameContent, Published
    <3>2. CASE free_block_ids' = free_block_ids
      BY <1>1, <1>2, <2>1, <3>2 DEF LeafFirst, SameContent, Published, IsFree, Sooner
    <3>3. CASE free_block_ids' = Append(free_block_ids, x)
      <4>1. \A y : IsFree(y)' <=> IsFree(y) \/ y = x
        BY <1>1, <1>3, <3>3, AppendFacts DEF IsFree
      <4>2. CASE IsFree(c)
        <5>1. PICK b \in BlockIds :
                  /\ Published(b) /\ blocks[b].lineage = blocks[c].parent
                  /\ IsFree(b) => Sooner(c, b)
          BY <1>1, <3>1, <4>2 DEF LeafFirst
        <5>2. IsFree(b)' => Sooner(c, b)'
          BY <1>1, <1>3, <3>3, <4>1, <4>2, <5>1, ReturnKeepsOrder
        <5>. QED
          BY <1>2, <5>1, <5>2 DEF SameContent, Published
      <4>3. CASE ~IsFree(c)
        <5>1. c = x /\ L \in 1 .. Len(block_table[s])
          BY <1>3, <2>1, <4>1, <4>3
        <5>2. PICK b \in BlockIds : /\ b = block_table[s][L - 1] /\ L > 1
                                    /\ Published(b) /\ blocks[b].lineage = blocks[c].parent
          BY <1>1, <1>3, <3>1, <5>1, TableParent
        <5>3. block_table'[s] \in Seq(BlockIds)
          BY <1>1 DEF CallsInv, CacheInv, PoolInv, TypeOK
        <5>4. L - 1 \in 1 .. Len(block_table'[s]) /\ block_table'[s][L - 1] = b
          BY <1>2, <1>3, <5>2
        <5>5. ~IsFree(b)'
          <6>1. b \in Range(block_table'[s])
            BY <5>3, <5>4 DEF Range
          <6>2. s \in Holders(b)'
            BY <6>1 DEF Holders
          <6>. QED
            BY <1>1, <6>2 DEF BlocksAccounted
        <5>. QED
          BY <1>2, <5>2, <5>5 DEF SameContent, Published
      <4>. QED
        BY <4>2, <4>3
    <3>. QED
      BY <1>4, <3>2, <3>3
  <2>. QED
    BY <2>1 DEF LeafFirst
<1>. QED
  BY <1>1, <1>5, <1>6 DEF EvictionInv

(* What a fill does to the index: no other block than b is answered for any   *)
(* hash but its own.                                                       *)
LEMMA FillIndex ==
    ASSUME EvictionInv, FillBlock
    PROVE  IndexInv'
<1>1. /\ PoolInv /\ TypeOK /\ IndexInv /\ blocks \in [BlockIds -> Block]
      /\ free_block_ids \in Seq(BlockIds) /\ IsInjective(free_block_ids)
  BY DEF EvictionInv, CallsInv, CacheInv, PoolInv, TypeOK, BlocksAccounted
<1>2. PICK s, k : s = call.seq /\ k = call.index
  OBVIOUS
<1>3. s \in Seqs /\ call.op = "fill"
  BY <1>1, <1>2, CallKinds DEF FillBlock
<1> DEFINE present == k <= Len(block_table[s])
<1>4. PICK b, blk, map :
          /\ b = IF present THEN block_table[s][k] ELSE Head(free_block_ids)
          /\ blk = IF present THEN blocks[b] ELSE ResetBlock(b)
          /\ map = IF present THEN hash_to_block_id ELSE MapWithout(b)
  OBVIOUS
<1>5. /\ FillOk(s, k)
      /\ blocks' = [blocks EXCEPT ![b] =
             IF Fills(s, k) THEN PublishFullBlock(b, blk, s, k, map) ELSE blk]
      /\ hash_to_block_id' = IF Fills(s, k) THEN MapWith(map, BlockHash(s, k), b) ELSE map
  BY <1>2, <1>4 DEF FillBlock
<1>6. b \in BlockIds /\ blk \in Block
  <2>1. CASE present
    <3>1. k \in 1 .. Len(block_table[s])
      BY <1>1, <1>2, <1>3, <2>1, CallKinds, BlockManagerAssumption
    <3>. QED
      BY <1>1, <1>3, <1>4, <2>1, <3>1, Types
  <2>2. CASE ~present
    <3>1. free_block_ids # <<>>
      BY <1>5, <2>2 DEF FillOk
    <3>2. b \in BlockIds
      BY <1>1, <1>4, <2>2, <3>1, TailFacts
    <3>. QED
      BY <1>1, <1>4, <2>2, <3>2 DEF ResetBlock, Block, LineageIds
  <2>. QED
    BY <2>1, <2>2
<1>7. \A h \in DOMAIN hash_to_block_id :
          /\ hash_to_block_id[h] \in BlockIds /\ h # NoHash
          /\ blocks[hash_to_block_id[h]].hash = h
  BY <1>1 DEF TypeOK, IndexInv, Range, NoHash
<1>8. ASSUME NEW h \in DOMAIN map
      PROVE  map[h] \in BlockIds /\ map[h] # b /\ blocks[map[h]].hash = h
  <2>1. CASE present
    BY <1>4, <1>5, <1>7, <1>8, <2>1 DEF FillOk, Published
  <2>2. CASE ~present
    <3>1. map = MapWithout(b)
      BY <1>4, <2>2
    <3>2. h \in DOMAIN hash_to_block_id /\ map[h] = hash_to_block_id[h]
      BY <1>8, <3>1 DEF MapWithout, Restrict
    <3>3. ASSUME hash_to_block_id[h] = b PROVE FALSE
      <4>1. h = blocks[b].hash /\ Owner(blocks[b].hash) = b
        BY <1>7, <3>2, <3>3 DEF Owner, OwnerIn
      <4>. QED
        BY <1>8, <3>1, <4>1 DEF MapWithout, Restrict
    <3>. QED
      BY <1>7, <3>2, <3>3
  <2>. QED
    BY <2>1, <2>2
<1>9. CASE Fills(s, k)
  <2>1. hash_to_block_id' = MapWith(map, BlockHash(s, k), b)
    BY <1>5, <1>9
  <2>2. blocks'[b].hash = BlockHash(s, k)
    BY <1>1, <1>5, <1>6, <1>9 DEF PublishFullBlock, Block
  <2>3. \A c \in BlockIds \ {b} : blocks'[c] = blocks[c]
    BY <1>1, <1>5
  <2>. QED
    BY <1>8, <2>1, <2>2, <2>3 DEF MapWith, IndexInv
<1>10. CASE ~Fills(s, k)
  <2>1. hash_to_block_id' = map /\ \A c \in BlockIds \ {b} : blocks'[c] = blocks[c]
    BY <1>1, <1>5, <1>10
  <2>. QED
    BY <1>8, <2>1 DEF IndexInv
<1>. QED
  BY <1>9, <1>10

LEMMA FillBlockEviction ==
    ASSUME EvictionInv, FillBlock
    PROVE  EvictionInv'
<1>1. /\ CallsInv' /\ CallsInv /\ CacheInv /\ LeafFirst /\ PoolInv /\ PoolInv' /\ TypeOK
      /\ BlocksAccounted
      /\ free_block_ids \in Seq(BlockIds) /\ IsInjective(free_block_ids)
  BY FillBlockCalls DEF EvictionInv, CallsInv, CacheInv, PoolInv, TypeOK, BlocksAccounted
<1>2. PICK s \in Seqs, k \in Nat \ {0}, b \in BlockIds :
          \E blk, map : FillStep(s, k, b, blk, map)
  BY <1>1, FillUnfolded
<1>3. PICK blk, map : FillStep(s, k, b, blk, map)
  BY <1>2
<1>4. \A c \in BlockIds \ {b} : blocks'[c] = blocks[c]
  BY <1>1, <1>3, FillWrites DEF Written
<1>5. call.seq = s /\ call.index = k /\ FillOk(s, k) /\ block_table[s] \in Seq(BlockIds)
  BY <1>1, <1>3, Types DEF FillStep, FillBlock
<1>6. LeafFirst'
  <2>1. CASE k <= Len(block_table[s])
    <3>1. free_block_ids' = free_block_ids
      BY <1>5, <2>1 DEF FillBlock
    <3>2. ~Published(b) /\ ~IsFree(b)
      <4>1. b = block_table[s][k] /\ k \in 1 .. Len(block_table[s]) /\ ~Published(b)
        BY <1>3, <1>5, <2>1 DEF FillStep
      <4>2. s \in Holders(b)
        BY <1>5, <4>1 DEF Holders, Range
      <4>. QED
        BY <1>1, <4>1, <4>2 DEF BlocksAccounted
    <3>3. ASSUME NEW c \in BlockIds, Published(c)', IsFree(c)', blocks'[c].parent # NoLineage
          PROVE  \E w \in BlockIds :
                    /\ Published(w)' /\ blocks'[w].lineage = blocks'[c].parent
                    /\ IsFree(w)' => Sooner(c, w)'
      <4>1. c # b /\ IsFree(c)
        BY <3>1, <3>2, <3>3 DEF IsFree
      <4>2. blocks'[c] = blocks[c] /\ Published(c)
        BY <1>4, <3>3, <4>1 DEF Published
      <4>3. PICK w \in BlockIds : /\ Published(w) /\ blocks[w].lineage = blocks[c].parent
                                  /\ IsFree(w) => Sooner(c, w)
        BY <1>1, <3>3, <4>1, <4>2 DEF LeafFirst
      <4>4. w # b /\ blocks'[w] = blocks[w]
        BY <1>4, <3>2, <4>3
      <4>5. Published(w)' /\ (IsFree(w)' => Sooner(c, w)')
        BY <3>1, <4>3, <4>4 DEF Published, IsFree, Sooner
      <4>. QED
        BY <4>2, <4>3, <4>4, <4>5
    <3>. QED
      BY <3>3 DEF LeafFirst
  <2>2. CASE ~(k <= Len(block_table[s]))
    <3> DEFINE x == Head(free_block_ids)
    <3>1. free_block_ids' = RemoveFree(x) /\ free_block_ids # <<>>
      BY <1>5, <2>2 DEF FillBlock, FillOk, TakeFree
    <3>2. x \in BlockIds /\ IsFree(x) /\ x = free_block_ids[1]
      BY <1>1, <3>1, TailFacts DEF IsFree
    <3>3. b = x
      <4>1. /\ block_table' = [block_table EXCEPT ![s] = Append(@, x)]
            /\ block_table' = [block_table EXCEPT ![s] = Append(@, b)]
        BY <1>3, <1>5, <2>2 DEF FillBlock, FillStep
      <4>2. Append(block_table[s], x) = Append(block_table[s], b)
        BY <1>1, <4>1, Types
      <4>3. /\ Append(block_table[s], x)[Len(block_table[s]) + 1] = x
            /\ Append(block_table[s], b)[Len(block_table[s]) + 1] = b
        BY <1>5, <3>2
      <4>. QED
        BY <4>2, <4>3
    <3>4. \A y \in BlockIds : IsFree(y)' <=> IsFree(y) /\ y # x
      BY <1>1, <3>1, <3>2, RemoveFreeFacts DEF IsFree
    <3>. HIDE DEF x
    <3>5. ASSUME NEW c, c # x, Sooner(c, x) PROVE FALSE
      <4>1. PICK i, j \in 1 .. Len(free_block_ids) :
                i < j /\ free_block_ids[i] = c /\ free_block_ids[j] = x
        BY <3>5 DEF Sooner
      <4>2. 1 \in DOMAIN free_block_ids /\ j \in DOMAIN free_block_ids /\ j # 1
        BY <1>1, <4>1
      <4>. QED
        BY <1>1, <3>2, <4>1, <4>2 DEF IsInjective
    <3>6. ASSUME NEW c \in BlockIds, Published(c)', IsFree(c)', blocks'[c].parent # NoLineage
          PROVE  \E w \in BlockIds :
                    /\ Published(w)' /\ blocks'[w].lineage = blocks'[c].parent
                    /\ IsFree(w)' => Sooner(c, w)'
      <4>1. c # x /\ IsFree(c)
        BY <3>4, <3>6
      <4>2. blocks'[c] = blocks[c] /\ Published(c)
        BY <1>4, <3>3, <3>6, <4>1 DEF Published
      <4>3. PICK w \in BlockIds : /\ Published(w) /\ blocks[w].lineage = blocks[c].parent
                                  /\ IsFree(w) => Sooner(c, w)
        BY <1>1, <3>6, <4>1, <4>2 DEF LeafFirst
      <4>4. w # x
        BY <3>2, <3>5, <4>1, <4>3
      <4>5. blocks'[w] = blocks[w] /\ Published(w)'
        BY <1>4, <3>3, <4>3, <4>4 DEF Published
      <4>6. IsFree(w)' => Sooner(c, w)'
        BY <1>1, <3>1, <3>2, <3>4, <4>1, <4>3, <4>4, RemoveKeepsOrder
      <4>. QED
        BY <4>2, <4>3, <4>5, <4>6
    <3>. QED
      BY <3>6 DEF LeafFirst
  <2>. QED
    BY <2>1, <2>2
<1>7. IndexInv'
  BY FillIndex
<1>. QED
  BY <1>1, <1>6, <1>7 DEF EvictionInv

LEMMA NextEviction == EvictionInv /\ [Next]_bmVars => EvictionInv'
<1>. SUFFICES ASSUME EvictionInv, [Next]_bmVars PROVE EvictionInv'
  OBVIOUS
<1>1. CallsInv'
  BY NextCalls DEF EvictionInv
<1>2. CASE UNCHANGED poolVars
  BY <1>1, <1>2, EvictionKept
<1>3. CASE ClaimBlock
  BY <1>3, ClaimBlockEviction
<1>4. CASE FillBlock
  BY <1>4, FillBlockEviction
<1>5. CASE ReleaseBlock
  BY <1>5, ReleaseBlockEviction
<1>6. ASSUME NEW s \in Seqs, Call(s) PROVE EvictionInv'
  <2>1. UNCHANGED poolVars
    BY <1>6 DEF Call, CallClaim, ClaimPrefix, CallFill, AllocateNew, MayAppend, Deallocate
  <2>. QED
    BY <1>2, <2>1
<1>7. ASSUME NEW S \in SUBSET Seqs, Advance(S) PROVE EvictionInv'
  <2>1. UNCHANGED poolVars
    BY <1>7 DEF Advance
  <2>. QED
    BY <1>2, <2>1
<1>8. ASSUME NEW s \in Seqs, NEW t \in Token, AppendToken(s, t) PROVE EvictionInv'
  <2>1. UNCHANGED poolVars
    BY <1>8 DEF AppendToken
  <2>. QED
    BY <1>2, <2>1
<1>9. CASE UNCHANGED bmVars
  <2>1. UNCHANGED poolVars
    BY <1>9 DEF bmVars
  <2>. QED
    BY <1>2, <2>1
<1>10. CASE CallStep
  BY <1>3, <1>4, <1>5, <1>10 DEF CallStep
<1>. QED
  BY <1>6, <1>7, <1>8, <1>9, <1>10 DEF Next

(* Releasing a table from its end is what keeps the lineages of the cache     *)
(* resident: no block outlives, in the pool, the block it names as its        *)
(* parent, and the index never answers with a block that was reset            *)
(* (deallocate, _allocate_block).                                          *)
THEOREM NoDanglingReference == Spec => []ReferencesResident
<1>1. EvictionInv => ReferencesResident
  BY ReferencesFollow
<1>2. Spec => []EvictionInv
  BY InitEviction, NextEviction, PTL DEF Spec
<1>. QED
  BY <1>1, <1>2, PTL

=============================================================================
