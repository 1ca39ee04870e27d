------------------------ MODULE SchedulerMetricsProofs ------------------------
(***************************************************************************)
(* Proofs about SchedulerMetrics, for every set of requests, every pool and *)
(* every setting of the scheduler: what is charged to a request is what the *)
(* engine did for it.                                                      *)
(***************************************************************************)
EXTENDS SchedulerMetrics, SchedulerProofs

-----------------------------------------------------------------------------
(* Sums                                                                    *)

(* One step of the recursion SumFunctionOnSet is defined by.                 *)
SumStep(f, g, T) ==
    IF T = {} THEN 0
    ELSE LET x == CHOOSE x \in T : TRUE IN f[x] + g[T \ {x}]

LEMMA SumExists ==
    ASSUME NEW f, NEW S, IsFiniteSet(S)
    PROVE  \E g : g = [T \in SUBSET S |-> SumStep(f, g, T)]
<1>. DEFINE Small(m) == {T \in SUBSET S : Cardinality(T) <= m}
            Upto(m) == \E g : g = [T \in Small(m) |-> SumStep(f, g, T)]
            Bad == {m \in Nat : ~Upto(m)}
<1>1. \A T \in SUBSET S : IsFiniteSet(T) /\ Cardinality(T) \in Nat /\ Cardinality(T) <= Cardinality(S)
  BY FS_Subset, FS_CardinalityType
<1>2. ASSUME Bad # {} PROVE FALSE
  <2>1. PICK m \in Bad : \A x \in Bad : m <= x
    BY <1>2, MinExists
  <2>2. CASE m = 0
    <3>. DEFINE g == [T \in Small(0) |-> 0]
    <3>1. \A T \in Small(0) : T = {}
      BY <1>1, FS_EmptySet
    <3>2. g = [T \in Small(0) |-> SumStep(f, g, T)]
      BY <3>1 DEF SumStep
    <3>. QED
      BY <2>1, <2>2, <3>2
  <2>3. CASE m # 0
    <3>b. m \in Nat /\ \A x \in Bad : m <= x
      BY <2>1
    <3>c. m - 1 \in Nat /\ ~(m <= m - 1)
      BY <2>3, <3>b
    <3>a. m \in Nat /\ m - 1 \in Nat /\ m - 1 \notin Bad
      BY <3>b, <3>c, Zenon
    <3>1. m \in Nat /\ m - 1 \in Nat /\ Upto(m - 1)
      BY <3>a
    <3>2. PICK h : h = [T \in Small(m - 1) |-> SumStep(f, h, T)]
      BY <3>1
    <3>. DEFINE g == [T \in Small(m) |-> SumStep(f, h, T)]
    <3>3. ASSUME NEW T \in Small(m - 1) PROVE g[T] = h[T]
      <4>1. T \in Small(m)
        BY <1>1, <3>1
      <4>2. h[T] = SumStep(f, h, T)
        BY <3>2
      <4>. QED
        BY <4>1, <4>2
    <3>4. ASSUME NEW T \in Small(m) PROVE g[T] = SumStep(f, g, T)
      <4>1. CASE T = {}
        BY <4>1 DEF SumStep
      <4>2. CASE T # {}
        <5>1. PICK x \in T : x = CHOOSE y \in T : TRUE
          BY <4>2
        <5>2. Cardinality(T \ {x}) = Cardinality(T) - 1
          BY <1>1, <5>1, FS_RemoveElement
        <5>3. T \ {x} \in Small(m - 1)
          BY <1>1, <3>1, <5>2
        <5>4. g[T \ {x}] = h[T \ {x}]
          BY <3>3, <5>3
        <5>5. g[T] = SumStep(f, h, T)
          OBVIOUS
        <5>. HIDE DEF g
        <5>. QED
          BY <5>1, <5>4, <5>5 DEF SumStep
      <4>. QED
        BY <4>1, <4>2
    <3>5. g = [T \in Small(m) |-> SumStep(f, g, T)]
      BY <3>4
    <3>. QED
      BY <2>1, <3>5
  <2>. QED
    BY <2>2, <2>3
<1>3. Cardinality(S) \in Nat /\ Small(Cardinality(S)) = SUBSET S
  BY <1>1
<1>4. Upto(Cardinality(S))
  BY <1>2, <1>3
<1>. QED
  BY <1>3, <1>4

LEMMA SumUnfolded ==
    ASSUME NEW S, IsFiniteSet(S), NEW f
    PROVE  \E g : /\ \A T \in SUBSET S : g[T] = SumStep(f, g, T)
                  /\ SumFunctionOnSet(f, S) = g[S]
<1>. DEFINE g == CHOOSE g : g = [T \in SUBSET S |->
                    IF T = {} THEN 0
                    ELSE LET x == CHOOSE x \in T : TRUE IN f[x] + g[T \ {x}]]
<1>1. g = [T \in SUBSET S |->
               IF T = {} THEN 0
               ELSE LET x == CHOOSE x \in T : TRUE IN f[x] + g[T \ {x}]]
  <2>1. \E h : h = [T \in SUBSET S |->
               IF T = {} THEN 0
               ELSE LET x == CHOOSE x \in T : TRUE IN f[x] + h[T \ {x}]]
    <3>1. PICK h : h = [T \in SUBSET S |-> SumStep(f, h, T)]
      <4>1. IsFiniteSet(S)
        OBVIOUS
      <4>. QED
        BY <4>1, SumExists
    <3>2. h = [T \in SUBSET S |->
               IF T = {} THEN 0
               ELSE LET x == CHOOSE x \in T : TRUE IN f[x] + h[T \ {x}]]
      BY <3>1 DEF SumStep
    <3>. QED
      BY <3>2
  <2>. QED
    BY <2>1
<1>2. SumFunctionOnSet(f, S) = g[S]
  BY DEF SumFunctionOnSet, FoldFunctionOnSet, MapThenFoldSet
<1>. HIDE DEF g
<1>3. \A T \in SUBSET S : g[T] = SumStep(f, g, T)
  BY <1>1 DEF SumStep
<1>. QED
  BY <1>2, <1>3

(* The element a set is shrunk by.                                          *)
Chosen(T) == CHOOSE x \in T : TRUE

(* A family of sets that has {}, and each set when it has it without its     *)
(* chosen element.                                                         *)
LEMMA Shrink ==
    ASSUME NEW S, IsFiniteSet(S), NEW G, {} \in G,
           \A T \in SUBSET S : T # {} /\ T \ {Chosen(T)} \in G => T \in G
    PROVE  S \in G
<1>. DEFINE H == {n \in Nat : \A T \in SUBSET S : Cardinality(T) = n => T \in G}
<1>1. \A T \in SUBSET S : IsFiniteSet(T) /\ Cardinality(T) \in Nat
  BY FS_Subset, FS_CardinalityType
<1>2. 0 \in H
  BY <1>1, FS_EmptySet
<1>3. ASSUME NEW n \in 1 .. Cardinality(S), n - 1 \in H PROVE n \in H
  <2>. SUFFICES ASSUME NEW T \in SUBSET S, Cardinality(T) = n PROVE T \in G
    OBVIOUS
  <2>1. T # {}
    BY <1>1, FS_EmptySet
  <2>2. PICK x \in T : x = Chosen(T)
    BY <2>1 DEF Chosen
  <2>3. Cardinality(T \ {x}) = n - 1 /\ T \ {x} \in SUBSET S
    BY <1>1, <2>2, FS_RemoveElement
  <2>. QED
    BY <1>3, <2>1, <2>2, <2>3
<1>. HIDE DEF H
<1>4. Cardinality(S) \in H
  BY <1>1, <1>2, <1>3, Ascend
<1>. QED
  BY <1>4 DEF H

(* The sums over the parts of a set.                                        *)
PartialSums(f, g, S) ==
    /\ g[{}] = 0
    /\ \A T \in SUBSET S : T # {} =>
          Chosen(T) \in T /\ g[T] = f[Chosen(T)] + g[T \ {Chosen(T)}]

LEMMA SumParts ==
    ASSUME NEW f, NEW S, IsFiniteSet(S)
    PROVE  \E g : PartialSums(f, g, S) /\ SumFunctionOnSet(f, S) = g[S]
<1>0. IsFiniteSet(S)
  OBVIOUS
<1>1. PICK g : /\ \A T \in SUBSET S : g[T] = SumStep(f, g, T)
               /\ SumFunctionOnSet(f, S) = g[S]
  BY <1>0, SumUnfolded
<1>2. g[{}] = 0
  BY <1>1 DEF SumStep
<1>3. ASSUME NEW T \in SUBSET S, T # {}
      PROVE  Chosen(T) \in T /\ g[T] = f[Chosen(T)] + g[T \ {Chosen(T)}]
  BY <1>1, <1>3 DEF SumStep, Chosen
<1>. QED
  BY <1>1, <1>2, <1>3 DEF PartialSums

LEMMA SumType ==
    ASSUME NEW S, IsFiniteSet(S), NEW f \in [S -> Nat]
    PROVE  SumFunctionOnSet(f, S) \in Nat /\ \A s \in S : f[s] <= SumFunctionOnSet(f, S)
<1>0. IsFiniteSet(S)
  OBVIOUS
<1>1a. PICK g : PartialSums(f, g, S) /\ SumFunctionOnSet(f, S) = g[S]
  BY <1>0, SumParts
<1>1. /\ SumFunctionOnSet(f, S) = g[S] /\ g[{}] = 0
     /\ \A T \in SUBSET S : T # {} =>
           Chosen(T) \in T /\ g[T] = f[Chosen(T)] + g[T \ {Chosen(T)}]
  BY <1>1a DEF PartialSums
<1>. DEFINE G == {T \in SUBSET S : g[T] \in Nat /\ \A s \in T : f[s] <= g[T]}
<1>2. {} \in G
  BY <1>1
<1>3. ASSUME NEW T \in SUBSET S, T # {}, T \ {Chosen(T)} \in G PROVE T \in G
  <2>a. PICK x \in T, U \in SUBSET S : x = Chosen(T) /\ U = T \ {x}
    BY <1>1, <1>3
  <2>b. g[U] \in Nat /\ f[x] \in Nat /\ g[T] = f[x] + g[U]
    BY <1>1, <1>3, <2>a
  <2>1. PICK m \in Nat, n \in Nat : m = g[U] /\ n = f[x] /\ g[T] = n + m
    BY <2>b
  <2>2. \A s \in U : f[s] <= m
    BY <1>3, <2>a, <2>1
  <2>3. ASSUME NEW s \in T PROVE f[s] <= n + m
    <3>1. f[s] \in Nat /\ (s = x \/ s \in U)
      BY <2>a
    <3>. QED
      BY <2>1, <2>2, <3>1
  <2>4. n + m \in Nat /\ \A s \in T : f[s] <= n + m
    BY <2>1, <2>3
  <2>. QED
    BY <2>1, <2>4
<1>. HIDE DEF G
<1>4. S \in G
  BY <1>2, <1>3, Shrink, <1>0
<1>. QED
  BY <1>1, <1>4 DEF G

(* Sums are added, and multiplied, element by element.                       *)
LEMMA SumAdd ==
    ASSUME NEW S, IsFiniteSet(S), NEW f \in [S -> Nat], NEW h \in [S -> Nat]
    PROVE  SumFunctionOnSet([s \in S |-> f[s] + h[s]], S)
               = SumFunctionOnSet(f, S) + SumFunctionOnSet(h, S)
<1>0. IsFiniteSet(S)
  OBVIOUS
<1>. DEFINE k == [s \in S |-> f[s] + h[s]]
<1>1a. PICK g : PartialSums(f, g, S) /\ SumFunctionOnSet(f, S) = g[S]
  BY <1>0, SumParts
<1>1. /\ SumFunctionOnSet(f, S) = g[S] /\ g[{}] = 0
     /\ \A T \in SUBSET S : T # {} =>
           Chosen(T) \in T /\ g[T] = f[Chosen(T)] + g[T \ {Chosen(T)}]
  BY <1>1a DEF PartialSums
<1>2a. PICK i : PartialSums(h, i, S) /\ SumFunctionOnSet(h, S) = i[S]
  BY <1>0, SumParts
<1>2. /\ SumFunctionOnSet(h, S) = i[S] /\ i[{}] = 0
     /\ \A T \in SUBSET S : T # {} =>
           Chosen(T) \in T /\ i[T] = h[Chosen(T)] + i[T \ {Chosen(T)}]
  BY <1>2a DEF PartialSums
<1>. HIDE DEF k
<1>3a. PICK j : PartialSums(k, j, S) /\ SumFunctionOnSet(k, S) = j[S]
  BY <1>0, SumParts
<1>3. /\ SumFunctionOnSet(k, S) = j[S] /\ j[{}] = 0
     /\ \A T \in SUBSET S : T # {} =>
           Chosen(T) \in T /\ j[T] = k[Chosen(T)] + j[T \ {Chosen(T)}]
  BY <1>3a DEF PartialSums
<1>4. \A s \in S : k[s] = f[s] + h[s] /\ f[s] \in Nat /\ h[s] \in Nat
  BY DEF k
<1>. DEFINE G == {T \in SUBSET S : g[T] \in Nat /\ i[T] \in Nat /\ j[T] = g[T] + i[T]}
<1>5. {} \in G
  BY <1>1, <1>2, <1>3
<1>6. ASSUME NEW T \in SUBSET S, T # {}, T \ {Chosen(T)} \in G PROVE T \in G
  <2>1. PICK x \in T, U \in SUBSET S : x = Chosen(T) /\ U = T \ {x}
    BY <1>1, <1>6
  <2>2. g[T] = f[x] + g[U] /\ i[T] = h[x] + i[U] /\ j[T] = k[x] + j[U]
    BY <1>1, <1>2, <1>3, <1>6, <2>1
  <2>3. g[U] \in Nat /\ i[U] \in Nat /\ j[U] = g[U] + i[U]
    BY <1>6, <2>1
  <2>. QED
    BY <1>4, <2>1, <2>2, <2>3
<1>. HIDE DEF G
<1>7. S \in G
  BY <1>5, <1>6, Shrink, <1>0
<1>. QED
  BY <1>1, <1>2, <1>3, <1>7 DEF G, k

LEMMA SumScale ==
    ASSUME NEW S, IsFiniteSet(S), NEW f \in [S -> Nat], NEW d \in Nat \ {0}
    PROVE  SumFunctionOnSet([s \in S |-> f[s] * d], S) = SumFunctionOnSet(f, S) * d
<1>0. IsFiniteSet(S)
  OBVIOUS
<1>. DEFINE k == [s \in S |-> f[s] * d]
<1>1a. PICK g : PartialSums(f, g, S) /\ SumFunctionOnSet(f, S) = g[S]
  BY <1>0, SumParts
<1>1. /\ SumFunctionOnSet(f, S) = g[S] /\ g[{}] = 0
     /\ \A T \in SUBSET S : T # {} =>
           Chosen(T) \in T /\ g[T] = f[Chosen(T)] + g[T \ {Chosen(T)}]
  BY <1>1a DEF PartialSums
<1>. HIDE DEF k
<1>3a. PICK j : PartialSums(k, j, S) /\ SumFunctionOnSet(k, S) = j[S]
  BY <1>0, SumParts
<1>3. /\ SumFunctionOnSet(k, S) = j[S] /\ j[{}] = 0
     /\ \A T \in SUBSET S : T # {} =>
           Chosen(T) \in T /\ j[T] = k[Chosen(T)] + j[T \ {Chosen(T)}]
  BY <1>3a DEF PartialSums
<1>4. \A s \in S : k[s] = f[s] * d /\ f[s] \in Nat
  BY DEF k
<1>. DEFINE G == {T \in SUBSET S : g[T] \in Nat /\ j[T] = g[T] * d}
<1>5. {} \in G
  BY <1>1, <1>3
<1>6. ASSUME NEW T \in SUBSET S, T # {}, T \ {Chosen(T)} \in G PROVE T \in G
  <2>1. PICK x \in T, U \in SUBSET S : x = Chosen(T) /\ U = T \ {x}
    BY <1>1, <1>6
  <2>2. g[T] = f[x] + g[U] /\ j[T] = k[x] + j[U]
    BY <1>1, <1>3, <1>6, <2>1
  <2>3. g[U] \in Nat /\ j[U] = g[U] * d /\ f[x] \in Nat
    BY <1>4, <1>6, <2>1
  <2>4. (f[x] + g[U]) * d = f[x] * d + g[U] * d
    BY <2>3, MulFacts
  <2>5. g[T] \in Nat
    BY <2>2, <2>3
  <2>6. k[x] = f[x] * d
    BY <1>4, <2>1
  <2>. QED
    BY <2>2, <2>3, <2>4, <2>5, <2>6
<1>. HIDE DEF G
<1>7. S \in G
  BY <1>5, <1>6, Shrink, <1>0
<1>. QED
  BY <1>1, <1>3, <1>7 DEF G, k

(* A function with one value.                                               *)
LEMMA SumOne ==
    ASSUME NEW S, IsFiniteSet(S), NEW n \in Nat, NEW s
    PROVE  SumFunctionOnSet([q \in S |-> IF q = s THEN n ELSE 0], S) = IF s \in S THEN n ELSE 0
<1>0. IsFiniteSet(S)
  OBVIOUS
<1>. DEFINE f == [q \in S |-> IF q = s THEN n ELSE 0]
<1>4. \A q \in S : f[q] = IF q = s THEN n ELSE 0
  OBVIOUS
<1>. HIDE DEF f
<1>1a. PICK g : PartialSums(f, g, S) /\ SumFunctionOnSet(f, S) = g[S]
  BY <1>0, SumParts
<1>1. /\ SumFunctionOnSet(f, S) = g[S] /\ g[{}] = 0
     /\ \A T \in SUBSET S : T # {} =>
           Chosen(T) \in T /\ g[T] = f[Chosen(T)] + g[T \ {Chosen(T)}]
  BY <1>1a DEF PartialSums
<1>. DEFINE G == {T \in SUBSET S : g[T] = IF s \in T THEN n ELSE 0}
<1>5. {} \in G
  BY <1>1
<1>6. ASSUME NEW T \in SUBSET S, T # {}, T \ {Chosen(T)} \in G PROVE T \in G
  <2>1. PICK x \in T, U \in SUBSET S : x = Chosen(T) /\ U = T \ {x}
    BY <1>1, <1>6
  <2>2. g[T] = f[x] + g[U] /\ f[x] = IF x = s THEN n ELSE 0
    BY <1>1, <1>4, <1>6, <2>1
  <2>3. g[U] = IF s \in U THEN n ELSE 0
    BY <1>6, <2>1
  <2>4. g[T] = IF s \in T THEN n ELSE 0
    BY <2>1, <2>2, <2>3
  <2>. QED
    BY <2>4
<1>. HIDE DEF G
<1>7. S \in G
  BY <1>5, <1>6, Shrink, <1>0
<1>. QED
  BY <1>1, <1>7 DEF G, f

-----------------------------------------------------------------------------
(* What the scheduler keeps, measured or not                               *)

Sampling == pc \in {"sample", "stop", "advance"}

(* _record_prefix_hits has been called for the i-th admitted request.        *)
Recorded(i) == SameStep \/ i <= Allocated
HitsInv ==
    Scheduling =>
        /\ \A s \in Seqs :
            (\A i \in DOMAIN step.admitted : step.admitted[i].seq = s => ~Recorded(i))
                => step.hits[s] = NoHits
        /\ \A i \in DOMAIN step.admitted : Recorded(i) =>
            LET a == step.admitted[i]
            IN  step.hits[a.seq].initial + step.hits[a.seq].same_step = Len(a.plan)

(* A sampled row has reached the end of its prompt, and so has a request     *)
(* that runs.                                                              *)
RowsReach ==
    Sampling => \A i \in DOMAIN step.rows :
        status[step.rows[i]] = "RUNNING" =>
            ContextEnd(step.rows[i]) >= num_prompt_tokens[step.rows[i]]
RunningReach == \A s \in Range(running) : num_cached_tokens[s] >= num_prompt_tokens[s]

ReachInv == HitsInv /\ RowsReach /\ RunningReach

(* A step of a call leaves the running requests where they are.              *)
LEMMA CallQuiet ==
    ASSUME SchedInv, BlockManagerStep
    PROVE  /\ UNCHANGED <<schedVars, pc, step, token_ids>>
           /\ \A s \in Seqs : status[s] = "RUNNING" =>
                num_cached_tokens'[s] = num_cached_tokens[s] /\ num_new_tokens'[s] = num_new_tokens[s]
<1>1. CallStep /\ UNCHANGED <<schedVars, pc, step>>
  BY DEF BlockManagerStep
<1>2. UNCHANGED token_ids
  BY <1>1 DEF CallStep, ClaimBlock, FillBlock, ReleaseBlock
<1>3. /\ num_cached_tokens \in [Seqs -> Nat] /\ num_new_tokens \in [Seqs -> Nat]
      /\ call \in Calls
  BY DEF SchedInv, SchedTypeOK, TypeOK
<1>4. CASE ClaimBlock
  <2>1. call.op = "claim" /\ num_new_tokens' = num_new_tokens
        /\ num_cached_tokens' =
              [num_cached_tokens EXCEPT ![call.seq] = @ + BlockSize]
    BY <1>4 DEF ClaimBlock
  <2>2. status[call.seq] # "RUNNING"
    <3>1. PICK i \in 1 .. Len(step.admitted) :
              call.seq = step.admitted[i].seq /\ i > Allocated /\ pc \in {"admit", "claim"}
      BY <2>1, ClaimOf
    <3>2. InBatch /\ i \in DOMAIN step.admitted
      BY <3>1, BatchTypes DEF InBatch, Scheduling
    <3>. QED
      BY <3>1, <3>2 DEF SchedInv, AdmittedInv
  <2>. QED
    BY <1>1, <1>2, <1>3, <2>1, <2>2
<1>5. CASE FillBlock
  <2>1. num_new_tokens' = num_new_tokens /\ num_cached_tokens' = num_cached_tokens
    BY <1>5 DEF FillBlock
  <2>. QED
    BY <1>1, <1>2, <1>3, <2>1
<1>6. CASE ReleaseBlock
  <2>1. call.op = "release"
    BY <1>6 DEF ReleaseBlock
  <2>2. pc \in {"preempt", "sample"} /\ status[call.seq] # "RUNNING"
    BY <2>1 DEF SchedInv, PhaseInv
  <2>3. /\ num_new_tokens' \in {num_new_tokens, [num_new_tokens EXCEPT ![call.seq] = 0]}
        /\ num_cached_tokens' \in {num_cached_tokens, [num_cached_tokens EXCEPT ![call.seq] = 0]}
    BY <1>6 DEF ReleaseBlock
  <2>. QED
    BY <1>1, <1>2, <1>3, <2>2, <2>3
<1>. QED
  BY <1>1, <1>4, <1>5, <1>6 DEF CallStep

(* The steps between two calls leave num_cached_tokens alone, until the      *)
(* batch is over.                                                          *)
LEMMA CachedQuiet ==
    ASSUME StartStep \/ Schedule \/ Run \/ (\E t \in Token : Sample(t)) \/ Finish
               \/ SampleEnd \/ (\E s \in Seqs : Add(s)) \/ UNCHANGED vars
    PROVE  num_cached_tokens' = num_cached_tokens /\ num_prompt_tokens' = num_prompt_tokens
<1>1. CASE StartStep \/ UNCHANGED vars \/ \E s \in Seqs : Add(s)
  BY <1>1 DEF StartStep, Add, vars, schedVars, bmVars, seqVars
<1>2. CASE PreemptTail \/ PlanStep \/ ChunkAppend
  BY <1>2 DEF PreemptTail, Deallocate, PlanStep, ChunkAppend, MayAppend, schedVars, bmVars, seqVars
<1>3. CASE CommitClaim
  BY <1>3 DEF CommitClaim, ClaimPrefix, schedVars, bmVars, seqVars
<1>4. CASE CommitAllocate
  BY <1>4 DEF CommitAllocate, Admit, AllocateNew
<1>5. CASE CommitEnd \/ FreezeEnd \/ ScheduleEnd \/ DecodeAssertionRaises \/ NoProgressRaises \/ Freeze
  BY <1>5 DEF CommitEnd, FreezeEnd, ScheduleEnd, DecodeAssertionRaises, NoProgressRaises, Freeze,
              schedVars, bmVars, seqVars
<1>6. CASE FrozenClaim
  BY <1>6 DEF FrozenClaim, ClaimPrefix, schedVars, bmVars, seqVars
<1>7. CASE FrozenAllocate
  BY <1>7 DEF FrozenAllocate, Admit, AllocateNew, schedVars, bmVars, seqVars
<1>8. CASE DecodeAppend
  BY <1>8 DEF DecodeAppend, MayAppend, schedVars
<1>9. CASE Run
  BY <1>9 DEF Run, bmVars, seqVars
<1>10. CASE (\E t \in Token : Sample(t)) \/ Finish \/ SampleEnd
  BY <1>10 DEF Sample, AppendToken, Finish, Deallocate, SampleEnd, schedVars, bmVars, seqVars
<1>. QED
  BY <1>1, <1>2, <1>3, <1>4, <1>5, <1>6, <1>7, <1>8, <1>9, <1>10 DEF Schedule

-----------------------------------------------------------------------------
(* Hits                                                                    *)

(* Nothing is recorded and nobody is admitted.                              *)
LEMMA HitsStay ==
    ASSUME HitsInv, Scheduling \/ ~Scheduling',
           step'.admitted = step.admitted, step'.hits = step.hits,
           \A i \in DOMAIN step.admitted : Recorded(i)' = Recorded(i)
    PROVE  HitsInv'
BY DEF HitsInv

(* Whatever was matched first, the two kinds of hits are the blocks matched  *)
(* last.                                                                   *)
LEMMA HitsAddUp ==
    ASSUME NEW m \in Nat, NEW n \in Nat
    PROVE  HitsOf(m, n).initial + HitsOf(m, n).same_step = n
BY DEF HitsOf, MinOf

(* A step with a new admission, in either plan.                             *)
LEMMA CommitHits ==
    ASSUME SchedInv, HitsInv, CommitClaim
    PROVE  HitsInv'
<1>. DEFINE s == Head(step.ranked)
            plan == MatchPrefix(s)
<1>1. /\ pc = "commit" /\ pc' = "admit" /\ call = NoCall /\ step.ranked # <<>>
      /\ step' = [step EXCEPT
                !.admitted = Append(@, AdmitRecord(s, plan)),
                !.token_budget = @ - NewTokens(s, plan),
                !.ranked = RankedAfter(s, plan),
                !.hits[s] = HitsOf(Len(step.initial[s]), Len(plan))]
  BY DEF CommitClaim, At, Goto
<1>2. SameStep
  BY <1>1 DEF SchedInv, PhaseInv
<1>3. /\ s \in Seqs /\ Fresh(s) /\ \A i \in 1 .. Len(step.admitted) : step.admitted[i].seq # s
  BY <1>1, HeadFacts
<1>4. PICK P \in Seq(BlockIds) : P = plan
  <2>1. TypeOK /\ CommittedInv
    BY DEF SchedInv, SchedTypeOK, EvictionInv, CallsInv, CacheInv, PoolInv
  <2>2. MatchPrefix(s) \in Seq(BlockIds)
    BY <1>3, <2>1, MatchIsCurrent
  <2>. QED
    BY <2>2
<1>5. step \in Step /\ step.hits \in [Seqs -> [initial : Nat, same_step : Nat]]
      /\ step.initial[s] \in Seq(BlockIds)
  BY <1>3, BatchTypes DEF Step
<1>6. PICK N \in Nat : N = Len(step.admitted) /\ DOMAIN step.admitted = 1 .. N
  BY BatchTypes
<1>7. /\ step'.admitted = Append(step.admitted, AdmitRecord(s, plan))
      /\ step'.hits = [step.hits EXCEPT ![s] = HitsOf(Len(step.initial[s]), Len(plan))]
  BY <1>1, <1>5 DEF Step
<1>8. /\ DOMAIN step'.admitted = 1 .. N + 1
      /\ \A i \in 1 .. N : step'.admitted[i] = step.admitted[i]
      /\ step'.admitted[N + 1].seq = s /\ step'.admitted[N + 1].plan = plan
  <2>1. step.admitted \in Seq([seq : Seqs, plan : Seq(BlockIds), new : Nat])
    BY <1>5 DEF Step
  <2>2. PICK q : q = step.admitted /\ q \in Seq([seq : Seqs, plan : Seq(BlockIds), new : Nat])
    BY <2>1
  <2>4. AdmitRecord(s, plan).seq = s /\ AdmitRecord(s, plan).plan = plan
    BY DEF AdmitRecord
  <2>3. PICK a : a = AdmitRecord(s, plan) /\ a.seq = s /\ a.plan = plan
    BY <2>4
  <2>. QED
    BY <1>6, <1>7, <2>2, <2>3
<1>9. Scheduling /\ \A i : Recorded(i) /\ Recorded(i)'
  BY <1>1, <1>2 DEF Scheduling, Recorded
<1>10. step'.hits[s].initial + step'.hits[s].same_step = Len(plan)
  <2>1. step'.hits[s] = HitsOf(Len(step.initial[s]), Len(plan))
    BY <1>3, <1>5, <1>7
  <2>2. Len(step.initial[s]) \in Nat /\ Len(plan) \in Nat
    BY <1>4, <1>5
  <2>. QED
    BY <2>1, <2>2, HitsAddUp
<1>11. \A q \in Seqs : q # s => step'.hits[q] = step.hits[q]
  BY <1>3, <1>5, <1>7
<1>12. ASSUME NEW q \in Seqs,
              \A i \in DOMAIN step'.admitted : step'.admitted[i].seq = q => ~Recorded(i)'
       PROVE  step'.hits[q] = NoHits
  <2>1. \A i \in 1 .. N + 1 : step'.admitted[i].seq # q
    BY <1>8, <1>9, <1>12
  <2>2. q # s /\ \A i \in 1 .. N : step.admitted[i].seq # q
    BY <1>8, <2>1
  <2>. QED
    BY <1>6, <1>9, <1>11, <2>2 DEF HitsInv
<1>13. ASSUME NEW i \in DOMAIN step'.admitted
       PROVE  LET a == step'.admitted[i]
              IN  step'.hits[a.seq].initial + step'.hits[a.seq].same_step = Len(a.plan)
  <2>1. CASE i = N + 1
    BY <1>8, <1>10, <2>1
  <2>2. CASE i \in 1 .. N
    <3>1. step.admitted[i].seq # s /\ step.admitted[i].seq \in Seqs
      BY <1>3, <1>6, <2>2, BatchTypes
    <3>. QED
      BY <1>6, <1>8, <1>9, <1>11, <2>2, <3>1 DEF HitsInv
  <2>. QED
    BY <1>8, <2>1, <2>2
<1>. QED
  BY <1>12, <1>13 DEF HitsInv

LEMMA FreezeHits ==
    ASSUME SchedInv, HitsInv, Freeze
    PROVE  HitsInv'
<1>. DEFINE s == Head(step.ranked)
            plan == step.initial[s]
<1>1. /\ pc = "freeze" /\ pc' = "freeze"
      /\ step' = [step EXCEPT
                !.admitted = Append(@, AdmitRecord(s, plan)),
                !.token_budget = @ - NewTokens(s, plan),
                !.free_budget = @ - FreezeTaken(s),
                !.ranked = RankedAfter(s, plan)]
  BY DEF Freeze, At
<1>2. ~SameStep /\ Scheduling
  BY <1>1 DEF SchedInv, PhaseInv, Scheduling
<1>3. step.admitted \in Seq([seq : Seqs, plan : Seq(BlockIds), new : Nat])
      /\ step'.admitted = Append(step.admitted, AdmitRecord(s, plan)) /\ step'.hits = step.hits
  BY <1>1, BatchTypes DEF Step
<1>4. /\ \A i \in DOMAIN step.admitted : ~Recorded(i)
      /\ \A i \in DOMAIN step'.admitted : ~Recorded(i)'
  <2>1. \A i \in Nat \ {0} : ~Recorded(i) /\ ~Recorded(i)'
    BY <1>1, <1>2 DEF Recorded, Allocated
  <2>2. PICK q, a : q = step.admitted /\ a = AdmitRecord(s, plan)
                    /\ q \in Seq([seq : Seqs, plan : Seq(BlockIds), new : Nat])
    BY <1>3
  <2>3. DOMAIN Append(q, a) = 1 .. Len(q) + 1 /\ DOMAIN q = 1 .. Len(q) /\ Len(q) \in Nat
    BY <2>2
  <2>. QED
    BY <1>3, <2>1, <2>2, <2>3
<1>. QED
  BY <1>2, <1>3, <1>4 DEF HitsInv

(* The frozen plan records the hits when it allocates.                      *)
LEMMA FrozenHits ==
    ASSUME SchedInv, HitsInv, FrozenAllocate
    PROVE  HitsInv'
<1>1. /\ pc = "allocate" /\ call = NoCall /\ ~SameStep /\ Scheduling
  BY DEF FrozenAllocate, At, SchedInv, PhaseInv, Scheduling
<1>2. PICK N \in Nat, k \in Nat :
          /\ N = Len(step.admitted) /\ DOMAIN step.admitted = 1 .. N
          /\ k = step.at /\ k \in 1 .. N + 1
  <2>1. step.at \in 1 .. Len(step.admitted) + 1
    BY <1>1 DEF SchedInv, AtInv
  <2>. QED
    BY <2>1, BatchTypes
<1>3. \A i \in 1 .. N : Recorded(i) <=> i < k
  BY <1>1, <1>2 DEF Recorded, Allocated
<1>4. CASE k > N
  <2>1. step' = [step EXCEPT !.at = 1] /\ pc' = "decode"
    BY <1>2, <1>4 DEF FrozenAllocate, Goto
  <2>2. step'.admitted = step.admitted /\ step'.hits = step.hits
    BY <2>1, BatchTypes DEF Step
  <2>3. \A i \in 1 .. N : Recorded(i)' = Recorded(i)
    BY <1>1, <1>2, <1>3, <1>4, <2>1, <2>2 DEF Recorded, Allocated
  <2>. QED
    BY <1>1, <1>2, <2>2, <2>3, HitsStay
<1>5. CASE k <= N
  <2>. DEFINE a == step.admitted[k]
  <2>1. /\ pc' = pc
        /\ step' = [step EXCEPT !.at = @ + 1, !.prefill = Append(@, a.seq),
                                !.hits[a.seq] = HitsOf(Len(a.plan), Len(a.plan))]
    BY <1>2, <1>5 DEF FrozenAllocate
  <2>a. k \in 1 .. N
    BY <1>2, <1>5
  <2>2. a.seq \in Seqs /\ Len(a.plan) \in Nat
    BY <1>2, <2>a, BatchTypes
  <2>3. step \in Step /\ step.hits \in [Seqs -> [initial : Nat, same_step : Nat]]
    BY BatchTypes DEF Step
  <2>4. /\ step'.admitted = step.admitted /\ step'.at = k + 1
        /\ step'.hits = [step.hits EXCEPT ![a.seq] = HitsOf(Len(a.plan), Len(a.plan))]
    BY <1>2, <2>1, <2>3 DEF Step
  <2>5. \A i \in 1 .. N : Recorded(i)' <=> i <= k
    BY <1>1, <1>2, <2>1, <2>4 DEF Recorded, Allocated
  <2>6. \A i \in 1 .. N : i # k => step.admitted[i].seq # a.seq /\ step.admitted[i].seq \in Seqs
    <3>1. \A i \in 1 .. N : step.admitted[i].seq \in Seqs
      BY <1>2, BatchTypes
    <3>2. \A i, j \in 1 .. N : i # j => step.admitted[i].seq # step.admitted[j].seq
      BY <1>1, <1>2 DEF SchedInv, AdmittedInv, InBatch
    <3>. QED
      BY <2>a, <3>1, <3>2
  <2>7. /\ step'.hits[a.seq].initial + step'.hits[a.seq].same_step = Len(a.plan)
        /\ \A q \in Seqs : q # a.seq => step'.hits[q] = step.hits[q]
    BY <2>2, <2>3, <2>4, HitsAddUp
  <2>8. ASSUME NEW q \in Seqs,
               \A i \in 1 .. N : step.admitted[i].seq = q => ~Recorded(i)'
        PROVE  step'.hits[q] = NoHits
    <3>1. q # a.seq
      BY <1>2, <1>5, <2>5, <2>8
    <3>2. \A i \in 1 .. N : step.admitted[i].seq = q => ~Recorded(i)
      BY <1>2, <1>3, <2>5, <2>8
    <3>. QED
      BY <1>1, <1>2, <2>7, <3>1, <3>2 DEF HitsInv
  <2>9. ASSUME NEW i \in 1 .. N, Recorded(i)'
        PROVE  step'.hits[step.admitted[i].seq].initial + step'.hits[step.admitted[i].seq].same_step
                   = Len(step.admitted[i].plan)
    <3>1. CASE i = k
      BY <2>7, <3>1
    <3>2. CASE i # k
      <4>1. Recorded(i)
        BY <1>2, <1>3, <2>5, <2>9, <3>2
      <4>2. step'.hits[step.admitted[i].seq] = step.hits[step.admitted[i].seq]
        BY <2>6, <2>7, <3>2
      <4>. QED
        BY <1>1, <1>2, <4>1, <4>2 DEF HitsInv
    <3>. QED
      BY <3>1, <3>2
  <2>. QED
    BY <1>2, <2>4, <2>8, <2>9 DEF HitsInv
<1>. QED
  BY <1>2, <1>4, <1>5

LEMMA NextHits ==
    ASSUME SchedInv, HitsInv, [SchedNext]_vars
    PROVE  HitsInv'
<1>1. CASE CommitClaim \/ Freeze \/ FrozenAllocate
  BY <1>1, CommitHits, FreezeHits, FrozenHits
<1>2. CASE PlanStep
  <2>1. PICK T \in Nat : step'.admitted = <<>>
    BY <1>2, PlanShape
  <2>2. step'.hits = [s \in Seqs |-> NoHits]
    BY <1>2, EmptyStepType DEF PlanStep, EmptyStep
  <2>. QED
    BY <2>1, <2>2 DEF HitsInv
<1>3. CASE \/ StartStep \/ PreemptTail \/ ScheduleEnd \/ DecodeAssertionRaises \/ NoProgressRaises
           \/ Run \/ Postprocess \/ \E s \in Seqs : Add(s)
  <2>1. ~Scheduling'
    BY <1>3 DEF StartStep, PreemptTail, ScheduleEnd, DecodeAssertionRaises, NoProgressRaises, Run,
                Postprocess, Sample, Finish, SampleEnd, AdvanceBatch, Add, At, Goto, Scheduling
  <2>. QED
    BY <2>1 DEF HitsInv
<1>4. CASE BlockManagerStep \/ DecodeAppend \/ UNCHANGED vars
  <2>1. pc' = pc /\ step'.admitted = step.admitted /\ step'.hits = step.hits
        /\ (step'.at = step.at \/ pc = "decode")
    BY <1>4, BatchTypes DEF BlockManagerStep, DecodeAppend, At, Step, vars
  <2>2. \A i \in DOMAIN step.admitted : Recorded(i)' = Recorded(i)
    BY <2>1 DEF Recorded, Allocated
  <2>. QED
    BY <2>1, <2>2, HitsStay DEF Scheduling
<1>5. CASE ChunkAppend
  <2>1. /\ pc = "chunk" /\ pc' = IF SameStep THEN "commit" ELSE "allocate"
        /\ step'.admitted = step.admitted /\ step'.hits = step.hits /\ step'.at = step.at
    BY <1>5, BatchTypes DEF ChunkAppend, At, Goto, Step
  <2>2. step.at = 1
    BY <2>1 DEF SchedInv, AtInv
  <2>3. \A i \in DOMAIN step.admitted : Recorded(i)' = Recorded(i)
    BY <2>1, <2>2 DEF Recorded, Allocated
  <2>. QED
    BY <2>1, <2>3, HitsStay DEF Scheduling
<1>6. CASE CommitAllocate \/ CommitEnd
  <2>1. /\ pc \in {"admit", "commit"}
        /\ step'.admitted = step.admitted /\ step'.hits = step.hits
    BY <1>6, BatchTypes DEF CommitAllocate, CommitEnd, At, Step
  <2>2. SameStep
    BY <2>1 DEF SchedInv, PhaseInv
  <2>3. \A i \in DOMAIN step.admitted : Recorded(i)' = Recorded(i)
    BY <2>2 DEF Recorded
  <2>. QED
    BY <2>1, <2>3, HitsStay DEF Scheduling
<1>7. CASE FreezeEnd \/ FrozenClaim
  <2>1. /\ pc \in {"freeze", "claim"} /\ pc' \in {"claim", "chunk"}
        /\ step'.admitted = step.admitted /\ step'.hits = step.hits
    BY <1>7, BatchTypes DEF FreezeEnd, FrozenClaim, At, Goto, Step
  <2>2. \A i \in DOMAIN step.admitted : Recorded(i)' = Recorded(i)
    BY <2>1 DEF Recorded, Allocated
  <2>. QED
    BY <2>1, <2>2, HitsStay DEF Scheduling
<1>. QED
  BY <1>1, <1>2, <1>3, <1>4, <1>5, <1>6, <1>7 DEF SchedNext, Engine, Schedule, Stopped

-----------------------------------------------------------------------------
(* How far a request has come                                              *)

(* The end of a batch: the unfinished rows count what they computed, and the *)
(* prefills that reached the end of their prompt start to run.              *)
LEMMA AdvanceFacts ==
    ASSUME SchedInv, AdvanceBatch
    PROVE  /\ pc = "advance" /\ pc' = "idle" /\ call = NoCall /\ call' = NoCall
           /\ step' = EmptyStep
           /\ UNCHANGED <<status, num_prompt_tokens, waiting, token_ids>>
           /\ \A s \in Seqs : status[s] = "RUNNING" => num_cached_tokens'[s] = ContextEnd(s)
           /\ \A s \in Seqs : num_cached_tokens'[s] >= num_cached_tokens[s]
           /\ \A s \in Range(Scheduled) :
                status[s] = "FINISHED" \/ (status[s] = "RUNNING" /\ ContextEnd(s) < SeqLen(s))
           /\ Range(Scheduled) = Range(step.prefill) \cup Range(step.decode)
           /\ Range(Scheduled) \subseteq Seqs
           /\ Range(running') = Range(running) \cup
                 {s \in Range(step.prefill) :
                    Unfinished(s) /\ ContextEnd(s) >= num_prompt_tokens[s] /\ s \notin Range(running)}
<1>. DEFINE S == {s \in Range(Scheduled) : Unfinished(s)}
<1>a. /\ SchedTypeOK /\ QueueInv /\ DecodeInv /\ TokensInv /\ RowsInv
  BY DEF SchedInv
<1>1. /\ pc = "advance" /\ pc' = "idle" /\ call = NoCall
      /\ Advance(S)
      /\ running' = running \o CompletedPrefills
      /\ step' = EmptyStep
      /\ UNCHANGED <<status, num_prompt_tokens, waiting, kv>>
  BY DEF AdvanceBatch, At, Goto
<1>2. InBatch /\ Processing /\ ~Scheduling /\ \A q \in Seqs : ~Releasing(q)
  BY <1>1 DEF InBatch, Processing, Scheduling, Releasing, NoCall
<1>3. /\ step.prefill \in Seq(Seqs) /\ step.decode \in Seq(Seqs) /\ running \in Seq(Seqs)
      /\ num_cached_tokens \in [Seqs -> Nat] /\ num_new_tokens \in [Seqs -> Nat]
  BY BatchTypes DEF TypeOK
<1>4. Range(Scheduled) = Range(step.prefill) \cup Range(step.decode)
      /\ Range(Scheduled) \subseteq Seqs
  <2>1. /\ Scheduled \in Seq(Seqs)
        /\ Range(Scheduled) = Range(step.prefill) \cup Range(step.decode)
    BY <1>3, ConcatFacts DEF Scheduled
  <2>2. Range(Scheduled) \subseteq Seqs
    BY <2>1 DEF Range
  <2>. QED
    BY <2>1, <2>2
<1>5. /\ call' = NoCall /\ UNCHANGED token_ids
      /\ \A q \in S : num_cached_tokens'[q] = ContextEnd(q)
      /\ \A q \in Seqs \ S : num_cached_tokens'[q] = num_cached_tokens[q]
  BY <1>1, <1>4 DEF Advance
<1>6. \A s \in Range(Scheduled) :
          status[s] = "FINISHED" \/ (status[s] = "RUNNING" /\ ContextEnd(s) < SeqLen(s))
  <2>1. RowsLeft = {}
    <3>1. step.at > Len(step.rows) /\ step.rows \in Seq(Seqs) /\ step.at \in Nat
      BY <1>1, <1>a, BatchTypes DEF RowsInv
    <3>. QED
      BY <1>1, <3>1 DEF RowsLeft
  <2>. QED
    BY <1>1, <1>a, <2>1 DEF RowsInv
<1>7. ASSUME NEW s \in Seqs, status[s] = "RUNNING" PROVE num_cached_tokens'[s] = ContextEnd(s)
  <2>1. CASE s \in Range(Scheduled)
    BY <1>5, <1>7, <2>1 DEF Unfinished
  <2>2. CASE s \notin Range(Scheduled)
    <3>1. ~(num_new_tokens[s] > 0)
      <4>1. s \notin Range(step.prefill) /\ \A i \in DOMAIN step.decode : step.decode[i] # s
        BY <1>4, <2>2 DEF Range
      <4>. QED
        BY <1>a, <4>1 DEF TokensInv
    <3>2. num_new_tokens[s] = 0 /\ num_cached_tokens[s] \in Nat
      BY <1>3, <3>1
    <3>. QED
      BY <1>5, <2>2, <3>2 DEF ContextEnd
  <2>. QED
    BY <2>1, <2>2
<1>8. \A s \in Seqs : num_cached_tokens'[s] >= num_cached_tokens[s]
  <2>1. \A s \in Seqs : num_cached_tokens[s] \in Nat /\ num_new_tokens[s] \in Nat
    BY <1>3
  <2>. QED
    BY <1>5, <2>1 DEF ContextEnd
<1>9. Range(running') = Range(running) \cup
        {s \in Range(step.prefill) :
           Unfinished(s) /\ ContextEnd(s) >= num_prompt_tokens[s] /\ s \notin Range(running)}
  <2>. DEFINE done == {s \in Seqs : /\ Unfinished(s) /\ ContextEnd(s) >= num_prompt_tokens[s]
                                     /\ s \notin Range(running)}
  <2>1. CompletedPrefills = Filter(step.prefill, done)
    BY DEF CompletedPrefills
  <2>. HIDE DEF done
  <2>2. CompletedPrefills \in Seq(Seqs) /\ Range(CompletedPrefills) = Range(step.prefill) \cap done
    BY <1>3, <2>1, FilterFacts
  <2>3. Range(running') = Range(running) \cup Range(CompletedPrefills)
    BY <1>1, <1>3, <2>2, ConcatFacts
  <2>4. Range(step.prefill) \subseteq Seqs
    BY <1>4
  <2>. QED
    BY <2>2, <2>3, <2>4 DEF done
<1>. QED
  BY <1>1, <1>4, <1>5, <1>6, <1>7, <1>8, <1>9

(* Run picks the rows that reach the end of what they have.                  *)
LEMMA RunRows ==
    ASSUME SchedInv, Run
    PROVE  /\ pc = "run" /\ pc' = "sample" /\ call = NoCall /\ UNCHANGED bmVars
           /\ UNCHANGED <<status, num_prompt_tokens, waiting, running, chunked_req>>
           /\ step'.rows \in Seq(Seqs)
           /\ Range(step'.rows) = {s \in Range(Scheduled) : ContextEnd(s) = SeqLen(s)}
           /\ UNCHANGED <<step.prefill, step.decode, step.admitted>>
           /\ step'.at = 1
<1>1. /\ pc = "run" /\ pc' = "sample" /\ call = NoCall /\ UNCHANGED bmVars
      /\ UNCHANGED <<status, num_prompt_tokens, waiting, running, chunked_req>>
      /\ step' = [step EXCEPT
            !.rows = Filter(Scheduled, {s \in Seqs : ContextEnd(s) = SeqLen(s)}),
            !.at = 1]
  BY DEF Run, At, Goto
<1>2. Scheduled \in Seq(Seqs) /\ Range(Scheduled) \subseteq Seqs
  <2>1. Scheduled \in Seq(Seqs)
    BY <1>1, RunFacts
  <2>. QED
    BY <2>1 DEF Range
<1>. DEFINE whole == {s \in Seqs : ContextEnd(s) = SeqLen(s)}
<1>3. /\ step'.rows = Filter(Scheduled, whole) /\ step'.at = 1
      /\ UNCHANGED <<step.prefill, step.decode, step.admitted>>
  BY <1>1, BatchTypes DEF Step
<1>. HIDE DEF whole
<1>4. step'.rows \in Seq(Seqs) /\ Range(step'.rows) = Range(Scheduled) \cap whole
  BY <1>2, <1>3, FilterFacts
<1>. QED
  BY <1>1, <1>2, <1>3, <1>4 DEF whole

(* The postprocessing of a row: a token is appended, or the row finishes.    *)
LEMMA SampleFacts ==
    ASSUME SchedInv, NEW t \in Token, Sample(t)
    PROVE  /\ pc = "sample" /\ call = NoCall /\ call' = NoCall
           /\ UNCHANGED <<schedVars, seqVars, step.rows, step.prefill, step.decode, step.admitted>>
           /\ step.at \in DOMAIN step.rows
           /\ step.rows[step.at] \in Seqs /\ status[step.rows[step.at]] = "RUNNING"
           /\ token_ids' = [token_ids EXCEPT ![step.rows[step.at]] = Append(@, t)]
           /\ \/ pc' = "stop" /\ step' = step
              \/ pc' = "sample" /\ step'.at = step.at + 1
<1>1. /\ pc = "sample" /\ call = NoCall /\ step.at <= Len(step.rows)
      /\ AppendToken(step.rows[step.at], t)
      /\ \/ pc' = "stop" /\ UNCHANGED step
         \/ step' = [step EXCEPT !.at = @ + 1] /\ UNCHANGED pc
      /\ UNCHANGED schedVars
  BY DEF Sample, At, Goto
<1>2. step.rows \in Seq(Seqs) /\ step.at \in 1 .. Len(step.rows)
  <2>1. step.rows \in Seq(Seqs) /\ step.at \in Nat
    BY BatchTypes
  <2>2. step.at \in 1 .. Len(step.rows) + 1
    BY <1>1 DEF SchedInv, AtInv
  <2>. QED
    BY <1>1, <2>1, <2>2
<1>3. step.at \in DOMAIN step.rows /\ step.rows[step.at] \in Seqs
  BY <1>2
<1>4. status[step.rows[step.at]] = "RUNNING"
  <2>1. step.at \in RowsLeft
    BY <1>1, <1>2, <1>3 DEF RowsLeft
  <2>. QED
    BY <1>1, <2>1 DEF SchedInv, RowsInv
<1>5. /\ UNCHANGED <<step.rows, step.prefill, step.decode, step.admitted>>
      /\ \/ pc' = "stop" /\ step' = step
         \/ pc' = "sample" /\ step'.at = step.at + 1
  BY <1>1, BatchTypes DEF Step
<1>. QED
  BY <1>1, <1>3, <1>4, <1>5 DEF AppendToken

LEMMA FinishFacts ==
    ASSUME SchedInv, Finish
    PROVE  /\ pc = "stop" /\ pc' = "sample" /\ call = NoCall
           /\ UNCHANGED <<seqVars, token_ids, num_prompt_tokens, waiting,
                          step.rows, step.prefill, step.decode, step.admitted>>
           /\ step.at \in DOMAIN step.rows /\ step'.at = step.at + 1
           /\ step.rows[step.at] \in Seqs /\ status[step.rows[step.at]] = "RUNNING"
           /\ status' = [status EXCEPT ![step.rows[step.at]] = "FINISHED"]
           /\ Range(running') = Range(running) \ {step.rows[step.at]}
<1>1. /\ pc = "stop" /\ pc' = "sample" /\ call = NoCall
      /\ status' = [status EXCEPT ![step.rows[step.at]] = "FINISHED"]
      /\ Deallocate(step.rows[step.at])
      /\ running' = (IF step.rows[step.at] \in Range(running)
                       THEN Removed(running, step.rows[step.at]) ELSE running)
      /\ step' = [step EXCEPT !.at = @ + 1]
      /\ UNCHANGED <<num_prompt_tokens, waiting, kv>>
  BY DEF Finish, At, Goto
<1>2. step.rows \in Seq(Seqs) /\ step.at \in 1 .. Len(step.rows) /\ step.at \in Nat
  BY <1>1, BatchTypes DEF SchedInv, AtInv
<1>3. step.at \in DOMAIN step.rows /\ step.rows[step.at] \in Seqs
  BY <1>2
<1>4. status[step.rows[step.at]] = "RUNNING"
  BY <1>1 DEF SchedInv, RowsInv
<1>5. /\ UNCHANGED <<step.rows, step.prefill, step.decode, step.admitted>>
      /\ step'.at = step.at + 1
  BY <1>1, BatchTypes DEF Step
<1>6. Range(running') = Range(running) \ {step.rows[step.at]}
  <2>1. IsInjective(running) /\ running \in Seq(Seqs)
    BY BatchTypes DEF SchedInv, QueueInv
  <2>. QED
    BY <1>1, <2>1, RemovedFacts
<1>. QED
  BY <1>1, <1>3, <1>4, <1>5, <1>6 DEF Deallocate, seqVars

LEMMA CountTypes ==
    ASSUME SchedInv
    PROVE  /\ num_cached_tokens \in [Seqs -> Nat] /\ num_new_tokens \in [Seqs -> Nat]
           /\ token_ids \in [Seqs -> Seq(Token)]
           /\ \A s \in Seqs :
                /\ ContextEnd(s) \in Nat /\ SeqLen(s) \in Nat /\ num_prompt_tokens[s] \in Nat
                /\ num_prompt_tokens[s] <= SeqLen(s) /\ num_cached_tokens[s] <= ContextEnd(s)
                /\ ContextEnd(s) <= SeqLen(s) /\ num_prompt_tokens[s] >= 1
<1>1. TypeOK /\ CommittedInv /\ SchedTypeOK /\ TokensInv
  BY DEF SchedInv, SchedTypeOK, EvictionInv, CallsInv, CacheInv, PoolInv
<1>2. /\ num_cached_tokens \in [Seqs -> Nat] /\ num_new_tokens \in [Seqs -> Nat]
      /\ token_ids \in [Seqs -> Seq(Token)]
      /\ num_prompt_tokens \in [Seqs -> 1 .. MaxLen]
  BY <1>1 DEF TypeOK, SchedTypeOK
<1>3. ASSUME NEW s \in Seqs
      PROVE  /\ num_cached_tokens[s] \in Nat /\ num_new_tokens[s] \in Nat
             /\ SeqLen(s) \in Nat /\ num_prompt_tokens[s] \in Nat /\ num_prompt_tokens[s] >= 1
             /\ num_prompt_tokens[s] <= SeqLen(s) /\ ContextEnd(s) <= SeqLen(s)
  <2>1. SeqLen(s) \in Nat
    BY <1>2 DEF SeqLen
  <2>2. num_prompt_tokens[s] \in Nat /\ num_prompt_tokens[s] >= 1
    BY <1>2, BlockManagerAssumption
  <2>. QED
    BY <1>1, <1>2, <2>1, <2>2 DEF CommittedInv, TokensInv
<1>. QED
  BY <1>2, <1>3 DEF ContextEnd

(* Every step that neither samples nor ends a batch keeps the running        *)
(* requests, or drops some, and their counts.                              *)
LEMMA OtherSteps ==
    ASSUME SchedInv,
           StartStep \/ Schedule \/ BlockManagerStep \/ (\E s \in Seqs : Add(s)) \/ UNCHANGED vars
    PROVE  /\ Range(running') \subseteq Range(running)
           /\ num_prompt_tokens' = num_prompt_tokens /\ token_ids' = token_ids
           /\ step'.rows = step.rows \/ ~Sampling'
           /\ Sampling' = Sampling
           /\ \A s \in Seqs : status[s] = "RUNNING" => num_cached_tokens'[s] = num_cached_tokens[s]
           /\ Sampling => \A s \in Seqs :
                status'[s] = status[s] \/ (status[s] = "new" /\ status'[s] = "WAITING")
           /\ Sampling => \A s \in Seqs :
                status[s] = "RUNNING" => num_new_tokens'[s] = num_new_tokens[s]
<1>1. CASE BlockManagerStep
  <2>1. /\ UNCHANGED <<schedVars, pc, step, token_ids>>
        /\ \A s \in Seqs : status[s] = "RUNNING" =>
                num_cached_tokens'[s] = num_cached_tokens[s] /\ num_new_tokens'[s] = num_new_tokens[s]
    BY <1>1, CallQuiet
  <2>. QED
    BY <2>1 DEF schedVars, Sampling
<1>2. CASE StartStep \/ (\E s \in Seqs : Add(s)) \/ UNCHANGED vars
  <2>1. /\ UNCHANGED <<num_prompt_tokens, token_ids, running, num_cached_tokens, num_new_tokens>>
        /\ Sampling' = Sampling /\ (status' = status \/ ~Sampling) /\ step' = step
    BY <1>2 DEF StartStep, Add, At, Goto, Sampling, vars, schedVars, bmVars, seqVars
  <2>. QED
    BY <2>1
<1>3. CASE Schedule
  <2>1. num_cached_tokens' = num_cached_tokens /\ num_prompt_tokens' = num_prompt_tokens
    BY <1>3, CachedQuiet
  <2>2. ~Sampling /\ ~Sampling'
    BY <1>3 DEF Schedule, PreemptTail, PlanStep, ChunkAppend, CommitClaim, CommitAllocate, CommitEnd,
                Freeze, FreezeEnd, FrozenClaim, FrozenAllocate, DecodeAppend, ScheduleEnd,
                DecodeAssertionRaises, NoProgressRaises, At, Goto, Sampling
  <2>3. token_ids' = token_ids
    <3>1. CASE PreemptTail \/ PlanStep \/ ChunkAppend \/ CommitClaim \/ CommitAllocate \/ CommitEnd
      BY <3>1 DEF PreemptTail, Deallocate, PlanStep, ChunkAppend, MayAppend, CommitClaim, ClaimPrefix,
                  CommitAllocate, Admit, AllocateNew, CommitEnd, bmVars
    <3>2. CASE \/ Freeze \/ FreezeEnd \/ FrozenClaim \/ FrozenAllocate \/ DecodeAppend
               \/ ScheduleEnd \/ DecodeAssertionRaises \/ NoProgressRaises
      BY <3>2 DEF Freeze, FreezeEnd, FrozenClaim, ClaimPrefix, FrozenAllocate, Admit, AllocateNew,
                  DecodeAppend, MayAppend, ScheduleEnd, DecodeAssertionRaises, NoProgressRaises, bmVars
    <3>. QED
      BY <1>3, <3>1, <3>2 DEF Schedule
  <2>4. Range(running') \subseteq Range(running)
    <3>1. CASE PreemptTail
      <4>1. running' = Front(running) /\ running # <<>>
        BY <3>1 DEF PreemptTail, DecodeFits
      <4>2. IsInjective(running) /\ running \in Seq(Seqs)
        BY BatchTypes DEF SchedInv, QueueInv
      <4>. QED
        BY <4>1, <4>2, FrontFacts
    <3>2. CASE ~PreemptTail
      <4>1. running' = running
        BY <1>3, <3>2 DEF Schedule, PlanStep, ChunkAppend, CommitClaim, CommitAllocate, CommitEnd,
                Freeze, FreezeEnd, FrozenClaim, FrozenAllocate, DecodeAppend, ScheduleEnd,
                DecodeAssertionRaises, NoProgressRaises, Admit, schedVars
      <4>. QED
        BY <4>1
    <3>. QED
      BY <3>1, <3>2
  <2>5. Sampling' = Sampling
    BY <2>2 DEF Sampling
  <2>. QED
    BY <2>1, <2>2, <2>3, <2>4, <2>5
<1>. QED
  BY <1>1, <1>2, <1>3

(* No row that is still to be sampled or finished stops short of its prompt. *)
LEMMA NextRows ==
    ASSUME SchedInv, RowsReach, [SchedNext]_vars
    PROVE  RowsReach'
<1>1. CASE StartStep \/ Schedule \/ BlockManagerStep \/ (\E s \in Seqs : Add(s)) \/ UNCHANGED vars
  <2>. SUFFICES ASSUME Sampling', NEW i \in DOMAIN step'.rows, status'[step'.rows[i]] = "RUNNING"
                PROVE  (ContextEnd(step.rows[i]) >= num_prompt_tokens[step.rows[i]])'
    BY DEF RowsReach
  <2>1. Sampling /\ step'.rows = step.rows /\ num_prompt_tokens' = num_prompt_tokens
    BY <1>1, OtherSteps DEF Sampling
  <2>2. step.rows[i] \in Seqs
    BY <2>1, BatchTypes
  <2>3. status[step.rows[i]] = "RUNNING"
    BY <1>1, <2>1, <2>2, OtherSteps
  <2>4. /\ num_cached_tokens'[step.rows[i]] = num_cached_tokens[step.rows[i]]
        /\ num_new_tokens'[step.rows[i]] = num_new_tokens[step.rows[i]]
    BY <1>1, <2>1, <2>2, <2>3, OtherSteps
  <2>. QED
    BY <2>1, <2>3, <2>4 DEF RowsReach, ContextEnd
<1>2. CASE Run
  <2>. SUFFICES ASSUME NEW i \in DOMAIN step'.rows
                PROVE  (ContextEnd(step.rows[i]) >= num_prompt_tokens[step.rows[i]])'
    BY DEF RowsReach
  <2>1. step'.rows[i] \in Range(Scheduled) /\ ContextEnd(step'.rows[i]) = SeqLen(step'.rows[i])
    <3>1. step'.rows[i] \in Range(step'.rows)
      BY DEF Range
    <3>. QED
      BY <1>2, <3>1, RunRows
  <2>2. step'.rows[i] \in Seqs
    BY <1>2, <2>1, RunRows, RunFacts
  <2>3. ContextEnd(step'.rows[i]) >= num_prompt_tokens[step'.rows[i]]
    BY <2>1, <2>2, CountTypes
  <2>4. UNCHANGED <<num_cached_tokens, num_new_tokens, num_prompt_tokens>>
    BY <1>2, RunRows DEF bmVars, seqVars
  <2>. QED
    BY <2>3, <2>4 DEF ContextEnd
<1>3. CASE AdvanceBatch
  <2>1. pc' = "idle"
    BY <1>3, AdvanceFacts
  <2>. QED
    BY <2>1 DEF RowsReach, Sampling
<1>4. CASE SampleEnd \/ (\E t \in Token : Sample(t)) \/ Finish
  <2>. SUFFICES ASSUME NEW i \in DOMAIN step'.rows, status'[step'.rows[i]] = "RUNNING"
                PROVE  (ContextEnd(step.rows[i]) >= num_prompt_tokens[step.rows[i]])'
    BY DEF RowsReach
  <2>1. /\ Sampling /\ step'.rows = step.rows
        /\ UNCHANGED <<num_cached_tokens, num_new_tokens, num_prompt_tokens>>
        /\ \A s \in Seqs : status'[s] = "RUNNING" => status[s] = "RUNNING"
    <3>1. CASE SampleEnd
      BY <3>1 DEF SampleEnd, At, Sampling, bmVars, seqVars, schedVars
    <3>2. CASE \E t \in Token : Sample(t)
      <4>1. PICK t \in Token : Sample(t)
        BY <3>2
      <4>. QED
        BY <4>1, SampleFacts DEF Sampling, seqVars, schedVars
    <3>3. CASE Finish
      <4>1. status \in [Seqs -> Statuses]
        BY BatchTypes
      <4>. QED
        BY <3>3, <4>1, FinishFacts DEF Sampling, seqVars
    <3>. QED
      BY <1>4, <3>1, <3>2, <3>3
  <2>2. step.rows[i] \in Seqs
    BY <2>1, BatchTypes
  <2>. QED
    BY <2>1, <2>2 DEF RowsReach, ContextEnd
<1>. QED
  BY <1>1, <1>2, <1>3, <1>4 DEF SchedNext, Engine, Postprocess, Stopped

(* A request that runs has its whole prompt in the cache.                    *)
LEMMA NextRunning ==
    ASSUME SchedInv, RunningReach, [SchedNext]_vars
    PROVE  RunningReach'
<1>a. \A s \in Range(running) : s \in Seqs /\ status[s] = "RUNNING"
  <2>1. running \in Seq(Seqs)
    BY BatchTypes
  <2>2. \A s \in Range(running) : s \in Seqs
    BY <2>1 DEF Range
  <2>. QED
    BY <2>2 DEF SchedInv, QueueInv
<1>1. CASE StartStep \/ Schedule \/ BlockManagerStep \/ (\E s \in Seqs : Add(s)) \/ UNCHANGED vars
  <2>1. /\ Range(running') \subseteq Range(running) /\ num_prompt_tokens' = num_prompt_tokens
        /\ \A s \in Seqs : status[s] = "RUNNING" => num_cached_tokens'[s] = num_cached_tokens[s]
    BY <1>1, OtherSteps
  <2>. QED
    BY <1>a, <2>1 DEF RunningReach
<1>2. CASE Run \/ SampleEnd \/ (\E t \in Token : Sample(t)) \/ Finish
  <2>1. UNCHANGED <<num_cached_tokens, num_prompt_tokens>>
    BY <1>2, CachedQuiet
  <2>2. Range(running') \subseteq Range(running)
    <3>1. CASE Finish
      BY <3>1, FinishFacts
    <3>2. CASE ~Finish
      <4>1. running' = running
        BY <1>2, <3>2 DEF Run, SampleEnd, Sample, schedVars
      <4>. QED
        BY <4>1
    <3>. QED
      BY <3>1, <3>2
  <2>. QED
    BY <2>1, <2>2 DEF RunningReach
<1>3. CASE AdvanceBatch
  <2>. SUFFICES ASSUME NEW s \in Range(running')
                PROVE  num_cached_tokens'[s] >= num_prompt_tokens[s]
    BY <1>3, AdvanceFacts DEF RunningReach
  <2>1. CASE s \in Range(running)
    <3>1. s \in Seqs /\ num_cached_tokens[s] >= num_prompt_tokens[s]
          /\ num_cached_tokens'[s] >= num_cached_tokens[s]
      BY <1>3, <1>a, <2>1, AdvanceFacts DEF RunningReach
    <3>2. num_cached_tokens'[s] = ContextEnd(s)
      BY <1>3, <1>a, <2>1, AdvanceFacts
    <3>. QED
      BY <3>1, <3>2, CountTypes
  <2>2. CASE s \notin Range(running)
    <3>1. /\ s \in Range(step.prefill) /\ Unfinished(s)
          /\ ContextEnd(s) >= num_prompt_tokens[s]
      BY <1>3, <2>2, AdvanceFacts
    <3>2. s \in Range(Scheduled) /\ s \in Seqs
      BY <1>3, <3>1, AdvanceFacts
    <3>3. status[s] = "RUNNING"
      BY <1>3, <3>1, <3>2, AdvanceFacts DEF Unfinished
    <3>. QED
      BY <1>3, <3>1, <3>2, <3>3, AdvanceFacts
  <2>. QED
    BY <2>1, <2>2
<1>. QED
  BY <1>1, <1>2, <1>3 DEF SchedNext, Engine, Postprocess, Stopped

LEMMA InitReach ==
    ASSUME SchedInit
    PROVE  ReachInv
<1>1. pc = "idle" /\ running = <<>>
  BY DEF SchedInit
<1>2. Range(running) = {}
  BY <1>1 DEF Range
<1>. QED
  BY <1>1, <1>2 DEF ReachInv, HitsInv, RowsReach, RunningReach, Scheduling, Sampling

LEMMA NextReach ==
    ASSUME SchedInv, ReachInv, [SchedNext]_vars
    PROVE  ReachInv'
BY NextHits, NextRows, NextRunning DEF ReachInv

-----------------------------------------------------------------------------
(* What a step changes of where the requests have come                     *)

Admitted(s) == \E i \in DOMAIN step.admitted : step.admitted[i].seq = s

(* The steps of schedule() between the plan and the end.                    *)
Planning ==
    \/ PlanStep \/ ChunkAppend \/ CommitClaim \/ CommitAllocate \/ CommitEnd
    \/ Freeze \/ FreezeEnd \/ FrozenClaim \/ FrozenAllocate \/ DecodeAppend

(* Only admitted requests change status, and only waiting ones are admitted. *)
LEMMA PlanningFacts ==
    ASSUME SchedInv, Planning
    PROVE  /\ Scheduling' /\ ~Processing' /\ ~Processing /\ running' = running
           /\ call = NoCall /\ (Scheduling \/ pc = "preempt")
           /\ UNCHANGED <<token_ids, num_prompt_tokens, num_cached_tokens>>
           /\ \A s \in Seqs :
                \/ status'[s] = status[s]
                \/ status[s] = "WAITING" /\ status'[s] = "RUNNING" /\ Scheduling /\ Admitted(s)
           /\ \A s \in Seqs : Scheduling /\ Admitted(s) => Admitted(s)'
           /\ \A s \in Seqs :
                Admitted(s)' => (Scheduling /\ Admitted(s)) \/ status[s] = "WAITING"
<1>1. /\ Scheduling' /\ ~Processing' /\ ~Processing /\ running' = running
      /\ call = NoCall /\ (Scheduling \/ pc = "preempt") /\ (pc = "preempt" <=> PlanStep)
  BY DEF Planning, PlanStep, ChunkAppend, CommitClaim, CommitAllocate, CommitEnd, Freeze, FreezeEnd,
         FrozenClaim, FrozenAllocate, DecodeAppend, Admit, At, Goto, Scheduling, Processing, schedVars
<1>2. UNCHANGED <<token_ids, num_prompt_tokens, num_cached_tokens>>
  <2>1. Schedule
    BY DEF Planning, Schedule
  <2>. QED
    BY <2>1, OtherSteps, CachedQuiet
<1>3. step \in Step /\ DOMAIN step.admitted = 1 .. Len(step.admitted) /\ Len(step.admitted) \in Nat
      /\ status \in [Seqs -> Statuses]
      /\ step.admitted \in Seq([seq : Seqs, plan : Seq(BlockIds), new : Nat])
      /\ \A i \in 1 .. Len(step.admitted) : step.admitted[i].seq \in Seqs
  BY BatchTypes DEF Step, SchedInv, SchedTypeOK
<1>4. CASE PlanStep
  <2>1. step'.admitted = <<>> /\ status' = status
    BY <1>4, PlanShape DEF PlanStep, schedVars
  <2>2. \A s \in Seqs : ~Admitted(s)'
    BY <2>1 DEF Admitted
  <2>3. ~Scheduling
    BY <1>4 DEF PlanStep, At, Scheduling
  <2>. QED
    BY <1>1, <1>2, <2>1, <2>2, <2>3
<1>5. CASE ChunkAppend \/ CommitEnd \/ FreezeEnd \/ FrozenClaim \/ DecodeAppend
  <2>1. step'.admitted = step.admitted /\ status' = status
    BY <1>3, <1>5 DEF ChunkAppend, CommitEnd, FreezeEnd, FrozenClaim, DecodeAppend, schedVars, Step
  <2>2. \A s \in Seqs : Admitted(s)' <=> Admitted(s)
    BY <2>1 DEF Admitted
  <2>3. Scheduling
    BY <1>5 DEF ChunkAppend, CommitEnd, FreezeEnd, FrozenClaim, DecodeAppend, At, Scheduling
  <2>. QED
    BY <1>1, <1>2, <2>1, <2>2, <2>3
<1>6. CASE CommitClaim \/ Freeze
  <2>1. PICK plan : step'.admitted = Append(step.admitted, AdmitRecord(Head(step.ranked), plan))
    BY <1>3, <1>6 DEF CommitClaim, Freeze, Step
  <2>2. status' = status /\ Scheduling /\ pc \in {"commit", "freeze"} /\ step.ranked # <<>>
    BY <1>6 DEF CommitClaim, Freeze, At, schedVars, Scheduling
  <2>3. status[Head(step.ranked)] = "WAITING"
    BY <1>1, <2>2, HeadFacts
  <2>. DEFINE a == AdmitRecord(Head(step.ranked), plan)
  <2>4. a.seq = Head(step.ranked)
    BY DEF AdmitRecord
  <2>. HIDE DEF a
  <2>5. /\ DOMAIN step'.admitted = 1 .. Len(step.admitted) + 1
        /\ \A i \in 1 .. Len(step.admitted) : step'.admitted[i] = step.admitted[i]
        /\ step'.admitted[Len(step.admitted) + 1] = a
    BY <1>3, <2>1 DEF a
  <2>b. PICK n \in Nat : n = Len(step.admitted)
    BY <1>3
  <2>6. ASSUME NEW s \in Seqs, Admitted(s) PROVE Admitted(s)'
    <3>1. PICK i \in 1 .. n : step.admitted[i].seq = s
      BY <1>3, <2>b, <2>6 DEF Admitted
    <3>2. i \in DOMAIN step'.admitted /\ step'.admitted[i].seq = s
      BY <2>5, <2>b, <3>1
    <3>. QED
      BY <3>2 DEF Admitted
  <2>7. ASSUME NEW s \in Seqs, Admitted(s)' PROVE Admitted(s) \/ s = Head(step.ranked)
    <3>1. PICK i \in 1 .. n + 1 : step'.admitted[i].seq = s
      BY <2>5, <2>7, <2>b DEF Admitted
    <3>2. CASE i \in 1 .. n
      BY <1>3, <2>5, <2>b, <3>1, <3>2 DEF Admitted
    <3>3. CASE i = n + 1
      <4>1. step'.admitted[i] = a
        BY <2>5, <2>b, <3>3
      <4>2. s = a.seq
        BY <3>1, <4>1
      <4>. QED
        BY <2>4, <4>2
    <3>4. i \in 1 .. n \/ i = n + 1
      OBVIOUS
    <3>. QED
      BY <3>2, <3>3, <3>4
  <2>. QED
    BY <1>1, <1>2, <2>2, <2>3, <2>6, <2>7
<1>7. CASE CommitAllocate \/ FrozenAllocate
  <2>1. step'.admitted = step.admitted
    BY <1>3, <1>7 DEF CommitAllocate, FrozenAllocate, Step
  <2>2. \A s \in Seqs : Admitted(s)' <=> Admitted(s)
    BY <2>1 DEF Admitted
  <2>3. Scheduling /\ pc \in {"admit", "allocate"}
    BY <1>7 DEF CommitAllocate, FrozenAllocate, At, Scheduling
  <2>4. \A s \in Seqs :
            \/ status'[s] = status[s]
            \/ status[s] = "WAITING" /\ status'[s] = "RUNNING" /\ Admitted(s)
    <3>1. CASE status' = status
      BY <3>1
    <3>2. CASE status' # status
      <4>1. PICK i \in DOMAIN step.admitted : i > Allocated /\ Admit(step.admitted[i])
        <5>1. CASE CommitAllocate
          <6>1. pc = "admit" /\ Admit(Last(step.admitted)) /\ step.admitted # <<>>
            BY <5>1 DEF CommitAllocate, At, SchedInv, AtInv
          <6>2. Len(step.admitted) \in 1 .. Len(step.admitted)
            BY <1>3, <6>1
          <6>3. Allocated = Len(step.admitted) - 1
            BY <6>1 DEF Allocated
          <6>4. Len(step.admitted) > Allocated
            BY <1>3, <6>3
          <6>. QED
            BY <1>3, <6>1, <6>2, <6>4 DEF Last
        <5>2. CASE FrozenAllocate
          <6>1. pc = "allocate" /\ step.at <= Len(step.admitted) /\ Admit(step.admitted[step.at])
            BY <3>2, <5>2, BatchTypes DEF FrozenAllocate, At, schedVars
          <6>2. step.at \in 1 .. Len(step.admitted) + 1 /\ step.at \in Nat
            BY <6>1, BatchTypes DEF SchedInv, AtInv
          <6>3. Allocated = step.at - 1
            BY <6>1 DEF Allocated
          <6>4. step.at > Allocated /\ step.at \in DOMAIN step.admitted
            BY <1>3, <6>1, <6>2, <6>3
          <6>. QED
            BY <6>1, <6>4
        <5>. QED
          BY <1>7, <5>1, <5>2
      <4>2. status[step.admitted[i].seq] = "WAITING"
        BY <2>3, <4>1 DEF SchedInv, AdmittedInv, InBatch
      <4>3. status' = [status EXCEPT ![step.admitted[i].seq] = "RUNNING"]
        BY <4>1 DEF Admit
      <4>. QED
        BY <1>3, <4>2, <4>3 DEF Admitted
    <3>. QED
      BY <3>1, <3>2
  <2>. QED
    BY <1>1, <1>2, <2>2, <2>3, <2>4
<1>. QED
  BY <1>4, <1>5, <1>6, <1>7 DEF Planning

(* How much of its prompt a request has, counted as it will be charged.      *)
SoFar(s) == IF Processing THEN ContextEnd(s) ELSE num_cached_tokens[s]
Come(s) ==
    IF status[s] = "FINISHED" THEN num_prompt_tokens[s]
    ELSE IF status[s] # "RUNNING" \/ (Scheduling /\ Admitted(s)) THEN 0
    ELSE MinOf(SoFar(s), num_prompt_tokens[s])

LEMMA ComeSame ==
    ASSUME NEW s, status'[s] = status[s], num_prompt_tokens'[s] = num_prompt_tokens[s],
           status[s] = "RUNNING" =>
                /\ (Scheduling' /\ Admitted(s)') <=> (Scheduling /\ Admitted(s))
                /\ SoFar(s)' = SoFar(s)
    PROVE  Come(s)' = Come(s)
BY DEF Come, MinOf

(* Nobody moves but at the end of schedule(), where the batch is charged, and *)
(* by a preemption.                                                        *)
LEMMA ComeKeeps ==
    ASSUME SchedInv, ReachInv, NEW s \in Seqs,
           StartStep \/ Planning \/ Run \/ Postprocess \/ BlockManagerStep
    PROVE  Come(s)' = Come(s)
<1>1. CASE StartStep
  <2>1. /\ UNCHANGED <<status, num_prompt_tokens, num_cached_tokens, num_new_tokens>>
        /\ ~Scheduling /\ ~Scheduling' /\ ~Processing /\ ~Processing'
    BY <1>1 DEF StartStep, At, Goto, schedVars, bmVars, seqVars, Scheduling, Processing
  <2>. QED
    BY <2>1, ComeSame DEF SoFar
<1>2. CASE Planning
  <2>1. /\ Scheduling' /\ ~Processing' /\ ~Processing
        /\ UNCHANGED <<num_prompt_tokens, num_cached_tokens>>
        /\ \/ status'[s] = status[s]
           \/ status[s] = "WAITING" /\ status'[s] = "RUNNING" /\ Scheduling /\ Admitted(s)
        /\ Scheduling /\ Admitted(s) => Admitted(s)'
        /\ Admitted(s)' => (Scheduling /\ Admitted(s)) \/ status[s] = "WAITING"
    BY <1>2, PlanningFacts
  <2>2. CASE status'[s] = status[s]
    BY <2>1, <2>2, ComeSame DEF SoFar
  <2>3. CASE status'[s] # status[s]
    BY <2>1, <2>3 DEF Come
  <2>. QED
    BY <2>2, <2>3
<1>3. CASE Run
  <2>1. /\ UNCHANGED <<status, num_prompt_tokens, num_cached_tokens, num_new_tokens>>
        /\ ~Scheduling /\ ~Scheduling' /\ Processing /\ Processing'
    BY <1>3, RunRows DEF bmVars, seqVars, Scheduling, Processing
  <2>. QED
    BY <2>1, ComeSame DEF SoFar, ContextEnd
<1>4. CASE \E t \in Token : Sample(t)
  <2>1. PICK t \in Token : Sample(t)
    BY <1>4
  <2>2. /\ UNCHANGED <<status, num_prompt_tokens, num_cached_tokens, num_new_tokens>>
        /\ ~Scheduling /\ ~Scheduling' /\ Processing /\ Processing'
    BY <2>1, SampleFacts DEF schedVars, seqVars, Scheduling, Processing
  <2>. QED
    BY <2>2, ComeSame DEF SoFar, ContextEnd
<1>5. CASE SampleEnd
  <2>1. /\ UNCHANGED <<status, num_prompt_tokens, num_cached_tokens, num_new_tokens>>
        /\ ~Scheduling /\ ~Scheduling' /\ Processing /\ Processing'
    BY <1>5 DEF SampleEnd, At, Goto, schedVars, bmVars, seqVars, Scheduling, Processing
  <2>. QED
    BY <2>1, ComeSame DEF SoFar, ContextEnd
<1>6. CASE Finish
  <2>1. /\ UNCHANGED <<num_prompt_tokens, num_cached_tokens, num_new_tokens>>
        /\ ~Scheduling /\ ~Scheduling' /\ Processing /\ Processing' /\ Sampling
    BY <1>6, FinishFacts DEF seqVars, Scheduling, Processing, Sampling
  <2>2. status \in [Seqs -> Statuses]
    BY BatchTypes DEF SchedInv, SchedTypeOK
  <2>3. CASE s = step.rows[step.at]
    <3>1. status[s] = "RUNNING" /\ status'[s] = "FINISHED"
      BY <1>6, <2>2, <2>3, FinishFacts
    <3>2. ContextEnd(s) >= num_prompt_tokens[s]
      BY <1>6, <2>1, <2>3, <3>1, FinishFacts DEF ReachInv, RowsReach
    <3>3. ContextEnd(s) \in Nat /\ num_prompt_tokens[s] \in Nat
      BY CountTypes
    <3>4. Come(s) = num_prompt_tokens[s]
      BY <2>1, <3>1, <3>2, <3>3 DEF Come, SoFar, MinOf
    <3>. QED
      BY <2>1, <3>1, <3>4 DEF Come
  <2>4. CASE s # step.rows[step.at]
    <3>1. status'[s] = status[s]
      BY <1>6, <2>2, <2>4, FinishFacts
    <3>. QED
      BY <2>1, <3>1, ComeSame DEF SoFar, ContextEnd
  <2>. QED
    BY <2>3, <2>4
<1>7. CASE AdvanceBatch
  <2>1. /\ UNCHANGED <<status, num_prompt_tokens>>
        /\ ~Scheduling /\ ~Scheduling' /\ Processing /\ ~Processing'
        /\ status[s] = "RUNNING" => num_cached_tokens'[s] = ContextEnd(s)
    BY <1>7, AdvanceFacts DEF Scheduling, Processing
  <2>. QED
    BY <2>1, ComeSame DEF SoFar
<1>8. CASE BlockManagerStep
  <2>1. /\ UNCHANGED <<status, num_prompt_tokens, pc, step>>
        /\ status[s] = "RUNNING" => num_cached_tokens'[s] = num_cached_tokens[s]
                                    /\ num_new_tokens'[s] = num_new_tokens[s]
    BY <1>8, CallQuiet DEF schedVars
  <2>2. /\ Scheduling' <=> Scheduling
        /\ Processing' <=> Processing
        /\ Admitted(s)' <=> Admitted(s)
    BY <2>1 DEF Scheduling, Processing, Admitted
  <2>. QED
    BY <2>1, <2>2, ComeSame DEF SoFar, ContextEnd
<1>. QED
  BY <1>1, <1>2, <1>3, <1>4, <1>5, <1>6, <1>7, <1>8 DEF Postprocess

(* The request that is preempted had its whole prompt, and has nothing left.  *)
LEMMA PreemptCome ==
    ASSUME SchedInv, ReachInv, PreemptTail
    PROVE  \E q \in Seqs :
              /\ status[q] = "RUNNING" /\ Come(q) = num_prompt_tokens[q]
              /\ status' = [status EXCEPT ![q] = "WAITING"] /\ Come(q)' = 0
              /\ \A s \in Seqs \ {q} : Come(s)' = Come(s)
<1>1. /\ pc = "preempt" /\ pc' = "preempt" /\ running # <<>>
      /\ UNCHANGED <<num_prompt_tokens, step>>
      /\ status' = [status EXCEPT ![Last(running)] = "WAITING"]
      /\ num_cached_tokens' = num_cached_tokens
  BY DEF PreemptTail, At, DecodeFits, Deallocate, seqVars
<1>2. ~Scheduling /\ ~Scheduling' /\ ~Processing /\ ~Processing'
  BY <1>1 DEF Scheduling, Processing
<1>3. /\ IsInjective(running) /\ running \in Seq(Seqs) /\ status \in [Seqs -> Statuses]
      /\ \A s \in Range(running) : status[s] = "RUNNING"
  BY BatchTypes DEF SchedInv, QueueInv, SchedTypeOK
<1>4. PICK q \in Seqs : q = Last(running) /\ q \in Range(running)
  BY <1>1, <1>3, FrontFacts
<1>5. status[q] = "RUNNING" /\ num_cached_tokens[q] >= num_prompt_tokens[q]
  BY <1>3, <1>4 DEF ReachInv, RunningReach
<1>6. num_cached_tokens[q] \in Nat /\ num_prompt_tokens[q] \in Nat
  BY CountTypes
<1>7. Come(q) = num_prompt_tokens[q]
  BY <1>2, <1>5, <1>6 DEF Come, SoFar, MinOf
<1>8. status'[q] = "WAITING" /\ \A s \in Seqs \ {q} : status'[s] = status[s]
  BY <1>1, <1>3, <1>4
<1>9. Come(q)' = 0
  BY <1>8 DEF Come
<1>10. ASSUME NEW s \in Seqs \ {q} PROVE Come(s)' = Come(s)
  BY <1>1, <1>2, <1>8, ComeSame DEF SoFar
<1>. QED
  BY <1>1, <1>4, <1>5, <1>7, <1>9, <1>10

(* The batch at the end of schedule().                                      *)
LEMMA ScheduledFacts ==
    ASSUME SchedInv, ScheduleEnd
    PROVE  /\ Scheduling /\ pc' = "run" /\ step' = step
           /\ UNCHANGED <<bmVars, schedVars>>
           /\ Range(Scheduled) = Range(step.prefill) \cup Range(step.decode)
           /\ Range(step.decode) = Range(running)
           /\ \A s \in Seqs : num_new_tokens[s] > 0 => s \in Range(Scheduled)
           /\ \A s \in Range(Scheduled) : s \in Seqs /\ status[s] = "RUNNING"
           /\ \A i \in DOMAIN step.admitted :
                LET a == step.admitted[i] IN
                /\ a.seq \in Range(Scheduled) /\ a.seq \notin Range(running)
                /\ num_new_tokens[a.seq] = a.new /\ num_cached_tokens[a.seq] = Len(a.plan) * BlockSize
                /\ Len(a.plan) * BlockSize + a.new <= SeqLen(a.seq)
<1>1. /\ pc = "decode" /\ call = NoCall /\ step.at > Len(step.decode)
      /\ pc' = "run" /\ step' = step /\ UNCHANGED <<bmVars, schedVars>>
  BY DEF ScheduleEnd, At, Goto
<1>2. /\ Scheduling /\ InBatch /\ ~ChunkWaits /\ Allocated = Len(step.admitted)
      /\ \A s \in Seqs : ~Releasing(s)
  BY <1>1 DEF Scheduling, InBatch, ChunkWaits, Allocated, Releasing, NoCall
<1>3. /\ step.prefill \in Seq(Seqs) /\ step.decode \in Seq(Seqs) /\ running \in Seq(Seqs)
      /\ status \in [Seqs -> Statuses] /\ num_new_tokens \in [Seqs -> Nat]
      /\ DOMAIN step.admitted = 1 .. Len(step.admitted)
      /\ \A i \in DOMAIN step.admitted : step.admitted[i].seq \in Seqs
  BY BatchTypes DEF SchedInv, SchedTypeOK, TypeOK
<1>4. /\ Scheduled \in Seq(Seqs)
      /\ Range(Scheduled) = Range(step.prefill) \cup Range(step.decode)
  BY <1>3, ConcatFacts DEF Scheduled
<1>5. \A s \in Range(Scheduled) : s \in Seqs
  BY <1>4 DEF Range
<1>6. Range(step.decode) = Range(running) /\ \A s \in Range(running) : status[s] = "RUNNING"
  BY <1>2 DEF SchedInv, DecodeInv, QueueInv
<1>7. \A s \in Seqs : num_new_tokens[s] > 0 => s \in Range(Scheduled)
  <2>1. \A i \in DOMAIN step.decode : step.decode[i] \in Range(step.decode)
    BY DEF Range
  <2>. QED
    BY <1>4, <2>1 DEF SchedInv, TokensInv
<1>8. ASSUME NEW i \in DOMAIN step.admitted
      PROVE  LET a == step.admitted[i] IN
                /\ a.seq \in Range(Scheduled) /\ a.seq \notin Range(running)
                /\ num_new_tokens[a.seq] = a.new /\ num_cached_tokens[a.seq] = Len(a.plan) * BlockSize
                /\ Len(a.plan) * BlockSize + a.new <= SeqLen(a.seq)
                /\ status[a.seq] = "RUNNING"
  <2>1. i \in 1 .. Allocated
    BY <1>2, <1>3
  <2>2. step.admitted[i].seq \in Range(step.prefill)
    BY <1>2, <2>1, PrefillRows
  <2>3. /\ num_new_tokens[step.admitted[i].seq] = step.admitted[i].new
        /\ num_cached_tokens[step.admitted[i].seq] = Len(step.admitted[i].plan) * BlockSize
    BY <1>2, <2>1 DEF SchedInv, TokensInv
  <2>4. /\ step.admitted[i].seq \notin Range(step.decode)
        /\ Len(step.admitted[i].plan) * BlockSize + step.admitted[i].new <= SeqLen(step.admitted[i].seq)
        /\ step.admitted[i].new >= 1
    BY <1>2 DEF SchedInv, AdmittedInv
  <2>a. step.admitted[i].new \in Nat
    BY <1>3, BatchTypes
  <2>5. num_new_tokens[step.admitted[i].seq] > 0
    BY <2>3, <2>4, <2>a
  <2>6. status[step.admitted[i].seq] = "RUNNING"
    BY <1>2, <1>3, <2>5, ScheduledRuns
  <2>. QED
    BY <1>4, <1>6, <2>2, <2>3, <2>4, <2>6
<1>9. ASSUME NEW s \in Range(step.prefill) PROVE status[s] = "RUNNING"
  <2>1. PICK j \in 1 .. Len(step.prefill) : s = step.prefill[j]
    <3>1. DOMAIN step.prefill = 1 .. Len(step.prefill)
      BY BatchTypes
    <3>. QED
      BY <3>1 DEF Range
  <2>2. CASE s = step.chunk /\ step.chunk # NoSeq
    <3>1. step.chunk = chunked_req
      BY <1>2, <2>2 DEF SchedInv, ChunkInv
    <3>. QED
      BY <2>2, <3>1 DEF SchedInv, QueueInv
  <2>3. CASE \E i \in 1 .. Allocated : s = step.admitted[i].seq
    BY <1>2, <1>3, <1>8, <2>3
  <2>. QED
    BY <1>2, <2>1, <2>2, <2>3, PrefillRows
<1>. QED
  BY <1>1, <1>2, <1>4, <1>5, <1>6, <1>7, <1>8, <1>9

(* What the counters are raised by for a request.                           *)
Charged(s) == (step.hits[s].initial + step.hits[s].same_step) * BlockSize + ComputedNow(s)

(* A batch charges at least what it adds to what a request has, and exactly  *)
(* that to the requests that have only their prompt.                        *)
LEMMA ScheduleCome ==
    ASSUME SchedInv, ReachInv, ScheduleEnd, NEW s \in Seqs
    PROVE  /\ step.hits[s].initial \in Nat /\ step.hits[s].same_step \in Nat
           /\ ComputedNow(s) \in Nat /\ Charged(s) \in Nat
           /\ Come(s) \in Nat /\ Come(s)' \in Nat
           /\ Come(s)' <= Come(s) + Charged(s)
           /\ (status[s] = "RUNNING" /\ s \notin Range(running) => SeqLen(s) = num_prompt_tokens[s])
                => Come(s)' = Come(s) + Charged(s)
<1>1. step.hits[s].initial \in Nat /\ step.hits[s].same_step \in Nat
  BY BatchTypes DEF Step
<1>2. PICK c \in Nat, n \in Nat, p \in Nat, e \in Nat :
          /\ c = num_cached_tokens[s] /\ n = num_new_tokens[s] /\ p = num_prompt_tokens[s]
          /\ e = ContextEnd(s) /\ e = c + n /\ e <= SeqLen(s) /\ SeqLen(s) \in Nat
  <2>1. /\ num_cached_tokens[s] \in Nat /\ num_new_tokens[s] \in Nat
        /\ ContextEnd(s) = num_cached_tokens[s] + num_new_tokens[s]
    BY CountTypes DEF ContextEnd
  <2>. QED
    BY <2>1, CountTypes
<1>3. /\ Scheduling /\ pc' = "run" /\ step' = step /\ UNCHANGED <<bmVars, schedVars>>
      /\ ~Processing /\ Processing' /\ ~Scheduling'
  BY ScheduledFacts DEF ScheduleEnd, At, Processing, Scheduling
<1>4. /\ ContextEnd(s)' = e /\ num_prompt_tokens'[s] = p /\ status'[s] = status[s]
  BY <1>2, <1>3 DEF ContextEnd, bmVars, seqVars, schedVars
<1>5. Come(s)' = IF status[s] = "FINISHED" THEN p ELSE IF status[s] # "RUNNING" THEN 0
                 ELSE MinOf(e, p)
  BY <1>3, <1>4 DEF Come, SoFar
<1>6. Come(s) = IF status[s] = "FINISHED" THEN p ELSE IF status[s] # "RUNNING" \/ Admitted(s) THEN 0
                ELSE MinOf(c, p)
  BY <1>2, <1>3 DEF Come, SoFar
<1>7. ComputedNow(s) = IF s \in Range(Scheduled) /\ p - c > 0 THEN MinOf(n, p - c) ELSE 0
  BY <1>2 DEF ComputedNow, ComputedPrompt
<1>8. ComputedNow(s) \in Nat /\ Come(s) \in Nat /\ Come(s)' \in Nat
  BY <1>2, <1>5, <1>6, <1>7 DEF MinOf
<1>9. CASE Admitted(s)
  <2>1. PICK i \in DOMAIN step.admitted : step.admitted[i].seq = s
    BY <1>9 DEF Admitted
  <2>2. /\ s \in Range(Scheduled) /\ s \notin Range(running) /\ status[s] = "RUNNING"
        /\ c = Len(step.admitted[i].plan) * BlockSize
    BY <1>2, <2>1, ScheduledFacts
  <2>3. step.hits[s].initial + step.hits[s].same_step = Len(step.admitted[i].plan)
    <3>1. Recorded(i)
      <4>1. pc = "decode" /\ i \in 1 .. Len(step.admitted) /\ Len(step.admitted) \in Nat
        BY BatchTypes DEF ScheduleEnd, At
      <4>. QED
        BY <4>1 DEF Recorded, Allocated
    <3>. QED
      BY <1>3, <2>1, <3>1 DEF ReachInv, HitsInv
  <2>4. Charged(s) = c + ComputedNow(s)
    BY <2>2, <2>3 DEF Charged
  <2>5. Come(s) = 0 /\ Come(s)' = MinOf(e, p)
    BY <1>5, <1>6, <1>9, <2>2
  <2>6. SeqLen(s) = p => c + ComputedNow(s) = MinOf(e, p)
    <3>. SUFFICES ASSUME e <= p PROVE c + ComputedNow(s) = MinOf(e, p)
      BY <1>2
    <3>1. CASE p - c > 0
      <4>1. ComputedNow(s) = n /\ MinOf(e, p) = e
        BY <1>2, <1>7, <2>2, <3>1 DEF MinOf
      <4>. QED
        BY <1>2, <4>1
    <3>2. CASE ~(p - c > 0)
      <4>1. ComputedNow(s) = 0 /\ e = c /\ p = c
        BY <1>2, <1>7, <3>2
      <4>. QED
        BY <1>2, <4>1 DEF MinOf
    <3>. QED
      BY <3>1, <3>2
  <2>7. MinOf(e, p) <= c + ComputedNow(s)
    BY <1>2, <1>7, <2>2 DEF MinOf
  <2>8. SeqLen(s) = num_prompt_tokens[s] => Come(s)' = Come(s) + Charged(s)
    BY <1>2, <1>8, <2>4, <2>5, <2>6
  <2>9. Charged(s) \in Nat /\ Come(s)' <= Come(s) + Charged(s)
    BY <1>2, <1>8, <2>4, <2>5, <2>7
  <2>. QED
    BY <1>1, <1>8, <2>2, <2>8, <2>9
<1>10. CASE ~Admitted(s)
  <2>1. step.hits[s] = NoHits
    BY <1>3, <1>10 DEF ReachInv, HitsInv, Admitted
  <2>2. Charged(s) = ComputedNow(s)
    <3>1. (0 + 0) * BlockSize = 0
      BY BlockManagerAssumption
    <3>. QED
      BY <1>8, <2>1, <3>1 DEF Charged, NoHits
  <2>3. CASE status[s] = "RUNNING"
    <3>1. s \notin Range(Scheduled) => n = 0
      BY <1>2, ScheduledFacts
    <3>2. MinOf(e, p) = MinOf(c, p) + ComputedNow(s)
      BY <1>2, <1>7, <3>1 DEF MinOf
    <3>. QED
      BY <1>1, <1>5, <1>6, <1>8, <1>10, <2>2, <2>3, <3>2
  <2>4. CASE status[s] # "RUNNING"
    <3>1. s \notin Range(Scheduled)
      BY <2>4, ScheduledFacts
    <3>2. ComputedNow(s) = 0
      BY <1>7, <3>1
    <3>3. Come(s)' = Come(s)
      BY <1>5, <1>6, <2>4
    <3>. QED
      BY <1>1, <1>8, <2>2, <3>2, <3>3
  <2>. QED
    BY <2>3, <2>4
<1>. QED
  BY <1>9, <1>10

-----------------------------------------------------------------------------
(* The collector                                                           *)

Totals == [initial : Nat, same_step : Nat, claimed : Nat, computed : Nat,
           evictions : Nat, preemptions : Nat, steps : Nat]
Row == [initial : Nat, same_step : Nat, computed : Nat, first : Nat, completed : Nat]

MetricsTypeOK ==
    /\ measuring \in {"off", "on", "done", "raised"}
    /\ observed \in SUBSET Seqs
    /\ record \in {"none", "active", "pending"}
    /\ claims \in [Seqs -> Nat]
    /\ totals \in Totals
    /\ rows \in [Seqs -> Row]

(* Nothing is counted before install.                                       *)
StartInv ==
    measuring = "off" =>
        totals = NoTotals /\ rows = [s \in Seqs |-> NoRow] /\ record = "none"

(* The observed requests are those that were added and not served yet when   *)
(* the measurement began.                                                  *)
ObservedInv ==
    On => \A s \in Seqs :
        /\ s \in observed => status[s] # "new"
        /\ status[s] \in {"WAITING", "RUNNING"} => s \in observed

(* As long as nothing was preempted, only requests that run, and the rows of  *)
(* the batch, have more than their prompt.                                  *)
Undisturbed == On /\ totals.preemptions = 0
Unsampled(s) ==
    \/ status[s] = "WAITING"
    \/ /\ status[s] = "RUNNING" /\ s \notin Range(running)
       /\ Sampling => s \notin Range(step.rows)
UnsampledInv ==
    Undisturbed => \A s \in Seqs : Unsampled(s) => SeqLen(s) = num_prompt_tokens[s]

(* PromptsCharged at every point of a step.                                 *)
ChargeInv ==
    On => \A s \in observed :
        /\ Counted(s) >= Come(s)
        /\ totals.preemptions = 0 => Counted(s) = Come(s)

CollectorInv == MetricsTypeOK /\ StartInv /\ ObservedInv /\ UnsampledInv /\ ChargeInv

LEMMA MetricsIsSched ==
    ASSUME [MetricsNext]_allVars
    PROVE  [SchedNext]_vars
<1>1. CASE Arrive \/ Unmeasured
  BY <1>1 DEF Arrive, Unmeasured, SchedNext
<1>2. CASE Install \/ MetricsEnded \/ UNCHANGED allVars
  BY <1>2 DEF Install, MetricsEnded, allVars
<1>3. CASE Measured
  <2>1. CASE BeginStep \/ FinishStep \/ CountEviction
    BY <2>1 DEF BeginStep, FinishStep, CountEviction, SchedNext, Engine, Postprocess
  <2>2. CASE CountPreemption \/ CountClaim \/ CloseSchedule \/ EngineRaises
    BY <2>2 DEF CountPreemption, CountClaim, CloseSchedule, EngineRaises, SchedNext, Engine, Schedule
  <2>3. CASE NotHooked
    BY <2>3 DEF NotHooked, SchedNext, Engine, Schedule, Postprocess
  <2>4. CASE Summarize
    BY <2>4 DEF Summarize
  <2>. QED
    BY <1>3, <2>1, <2>2, <2>3, <2>4 DEF Measured
<1>. QED
  BY <1>1, <1>2, <1>3 DEF MetricsNext

(* Four kinds of measured steps: the ones that charge nobody, a preemption,  *)
(* the end of schedule(), and the end of the measurement.                   *)
Charges(s) ==
    /\ rows'[s].initial = rows[s].initial
    /\ rows'[s].same_step = rows[s].same_step
    /\ rows'[s].computed = rows[s].computed
LEMMA MeasuredKinds ==
    ASSUME SchedInv, MetricsTypeOK, Measured
    PROVE  /\ On /\ observed' = observed
           /\ \/ /\ StartStep \/ Planning \/ Run \/ Postprocess \/ BlockManagerStep
                 /\ totals'.preemptions = totals.preemptions
                 /\ \A s \in Seqs : Charges(s)
              \/ CountPreemption
              \/ CloseSchedule
              \/ (DecodeAssertionRaises \/ NoProgressRaises \/ UNCHANGED vars) /\ ~On'
<1>1. On /\ observed' = observed
  BY DEF Measured, BeginStep, CountPreemption, CountClaim, CountEviction, CloseSchedule, FinishStep,
         NotHooked, EngineRaises, Summarize, metricVars
<1>2. CASE BeginStep \/ NotHooked
  <2>1. /\ StartStep \/ Planning \/ Run \/ Postprocess
        /\ totals' = totals /\ rows' = rows
    BY <1>2 DEF BeginStep, NotHooked, Planning, Postprocess, metricVars
  <2>. QED
    BY <1>1, <2>1 DEF Charges
<1>3. CASE CountClaim \/ CountEviction
  <2>1. /\ Planning \/ BlockManagerStep
        /\ rows' = rows
        /\ \E n, m : totals' = [totals EXCEPT !.claimed = n] \/ totals' = [totals EXCEPT !.evictions = m]
    BY <1>3 DEF CountClaim, CountEviction, Planning
  <2>2. totals'.preemptions = totals.preemptions
    BY <2>1 DEF MetricsTypeOK, Totals
  <2>. QED
    BY <1>1, <2>1, <2>2 DEF Charges
<1>4. CASE FinishStep
  <2>1. /\ AdvanceBatch
        /\ rows' = [s \in Seqs |-> IF s \in observed THEN Stamped(s) ELSE rows[s]]
        /\ totals' = [totals EXCEPT !.steps = @ + 1]
    BY <1>4 DEF FinishStep
  <2>2. totals'.preemptions = totals.preemptions
    BY <2>1 DEF MetricsTypeOK, Totals
  <2>3. ASSUME NEW s \in Seqs PROVE Charges(s)
    <3>1. rows[s] \in Row
      BY DEF MetricsTypeOK
    <3>2. CASE s \in observed
      <4>1. rows'[s] = Stamped(s)
        BY <2>1, <3>2
      <4>2. \E m, n : rows'[s] = [rows[s] EXCEPT !.first = m, !.completed = n]
        BY <4>1 DEF Stamped
      <4>. QED
        BY <3>1, <4>2 DEF Charges, Row
    <3>3. CASE s \notin observed
      BY <2>1, <3>3 DEF Charges
    <3>. QED
      BY <3>2, <3>3
  <2>. QED
    BY <1>1, <2>1, <2>2, <2>3 DEF Postprocess
<1>5. CASE EngineRaises \/ Summarize
  <2>1. (DecodeAssertionRaises \/ NoProgressRaises \/ UNCHANGED vars) /\ measuring' # "on"
    BY <1>5 DEF EngineRaises, Summarize
  <2>. QED
    BY <1>1, <2>1 DEF On
<1>. QED
  BY <1>1, <1>2, <1>3, <1>4, <1>5 DEF Measured

(* What a request got in a batch is added to its row, and to the totals.     *)
LEMMA CloseFacts ==
    ASSUME SchedInv, MetricsTypeOK, CloseSchedule
    PROVE  /\ ScheduleEnd /\ UNCHANGED <<observed, claims>> /\ totals'.preemptions = totals.preemptions
           /\ \A s \in Seqs :
                /\ step.hits[s].initial \in Nat /\ step.hits[s].same_step \in Nat
                /\ ComputedNow(s) \in Nat
                /\ s \notin observed => rows'[s] = rows[s]
                /\ s \in observed =>
                    /\ rows'[s].initial = rows[s].initial + step.hits[s].initial * BlockSize
                    /\ rows'[s].same_step = rows[s].same_step + step.hits[s].same_step * BlockSize
                    /\ rows'[s].computed = rows[s].computed + ComputedNow(s)
                    /\ rows'[s].first = rows[s].first /\ rows'[s].completed = rows[s].completed
<1>1. /\ ScheduleEnd /\ UNCHANGED <<observed, claims>>
      /\ rows' = [s \in Seqs |->
            IF s \notin observed THEN rows[s]
            ELSE [rows[s] EXCEPT
                    !.initial = @ + step.hits[s].initial * BlockSize,
                    !.same_step = @ + step.hits[s].same_step * BlockSize,
                    !.computed = @ + ComputedNow(s)]]
  BY DEF CloseSchedule
<1>2. totals'.preemptions = totals.preemptions
  <2>1. \E i, m, n : totals' = [totals EXCEPT !.initial = i, !.same_step = m, !.computed = n]
    BY DEF CloseSchedule
  <2>. QED
    BY <2>1 DEF MetricsTypeOK, Totals
<1>3. ASSUME NEW s \in Seqs
      PROVE  /\ step.hits[s].initial \in Nat /\ step.hits[s].same_step \in Nat
             /\ ComputedNow(s) \in Nat
             /\ s \notin observed => rows'[s] = rows[s]
             /\ s \in observed =>
                    /\ rows'[s].initial = rows[s].initial + step.hits[s].initial * BlockSize
                    /\ rows'[s].same_step = rows[s].same_step + step.hits[s].same_step * BlockSize
                    /\ rows'[s].computed = rows[s].computed + ComputedNow(s)
                    /\ rows'[s].first = rows[s].first /\ rows'[s].completed = rows[s].completed
  <2>1. step.hits[s].initial \in Nat /\ step.hits[s].same_step \in Nat
    BY BatchTypes DEF Step
  <2>2. ComputedNow(s) \in Nat
    <3>1. num_cached_tokens[s] \in Nat /\ num_new_tokens[s] \in Nat /\ num_prompt_tokens[s] \in Nat
      BY CountTypes
    <3>. QED
      BY <3>1 DEF ComputedNow, ComputedPrompt, MinOf
  <2>3. rows[s] \in Row
    BY DEF MetricsTypeOK
  <2>4. s \notin observed => rows'[s] = rows[s]
    BY <1>1
  <2>5. ASSUME s \in observed
        PROVE  /\ rows'[s].initial = rows[s].initial + step.hits[s].initial * BlockSize
               /\ rows'[s].same_step = rows[s].same_step + step.hits[s].same_step * BlockSize
               /\ rows'[s].computed = rows[s].computed + ComputedNow(s)
               /\ rows'[s].first = rows[s].first /\ rows'[s].completed = rows[s].completed
    <3>1. rows'[s] = [rows[s] EXCEPT
                    !.initial = @ + step.hits[s].initial * BlockSize,
                    !.same_step = @ + step.hits[s].same_step * BlockSize,
                    !.computed = @ + ComputedNow(s)]
      BY <1>1, <2>5
    <3>. QED
      BY <2>3, <3>1 DEF Row
  <2>. QED
    BY <2>1, <2>2, <2>4, <2>5
<1>. QED
  BY <1>1, <1>2, <1>3

(* The sums that are added to the totals are numbers.                       *)
LEMMA SeqsSum ==
    ASSUME NEW f \in [Seqs -> Nat]
    PROVE  SumFunction(f) = SumFunctionOnSet(f, Seqs) /\ SumFunction(f) \in Nat
<1>1. IsFiniteSet(Seqs)
  BY BlockManagerAssumption
<1>2. DOMAIN f = Seqs
  OBVIOUS
<1>3. SumFunctionOnSet(f, Seqs) \in Nat
  BY <1>1, SumType
<1>. QED
  BY <1>2, <1>3 DEF SumFunction

LEMMA NextMetricsType ==
    ASSUME SchedInv, TypeOK', MetricsTypeOK, [MetricsNext]_allVars
    PROVE  MetricsTypeOK'
<1>1. CASE Arrive \/ Unmeasured \/ MetricsEnded \/ UNCHANGED allVars \/ NotHooked
  <2>1. UNCHANGED metricVars
    BY <1>1 DEF Arrive, Unmeasured, MetricsEnded, NotHooked, allVars
  <2>. QED
    BY <2>1 DEF MetricsTypeOK, metricVars
<1>2. CASE Install
  <2>1. waiting \in Seq(Seqs)
    BY DEF SchedInv, SchedTypeOK
  <2>2. Range(waiting) \subseteq Seqs
    BY <2>1 DEF Range
  <2>. QED
    BY <1>2, <2>2 DEF Install, MetricsTypeOK
<1>3. CASE BeginStep
  BY <1>3 DEF BeginStep, MetricsTypeOK
<1>4. CASE CountPreemption
  BY <1>4 DEF CountPreemption, MetricsTypeOK, Totals
<1>5. CASE CountClaim
  <2>1. /\ totals' = [totals EXCEPT !.claimed = @ + ClaimedBlocks * BlockSize]
        /\ claims' = (IF call'.op = "claim" THEN [claims EXCEPT ![call'.seq] = @ + ClaimedBlocks] ELSE claims)
        /\ UNCHANGED <<measuring, observed, record, rows>>
    BY <1>5 DEF CountClaim
  <2>2. call' \in Calls
    BY DEF TypeOK
  <2>3. call'.op = "claim" => call'.seq \in Seqs /\ call'.plan \in Seq(BlockIds)
    BY <2>2 DEF Calls, NoCall
  <2>4. ClaimedBlocks \in Nat
    BY <2>3 DEF ClaimedBlocks
  <2>5. ClaimedBlocks * BlockSize \in Nat
    BY <2>4, BlockManagerAssumption, MulFacts
  <2>6. totals' \in Totals
    BY <2>1, <2>5 DEF MetricsTypeOK, Totals
  <2>7. claims' \in [Seqs -> Nat]
    BY <2>1, <2>3, <2>4 DEF MetricsTypeOK
  <2>. QED
    BY <2>1, <2>6, <2>7 DEF MetricsTypeOK
<1>6. CASE CountEviction
  BY <1>6 DEF CountEviction, MetricsTypeOK, Totals
<1>7. CASE CloseSchedule
  <2>1. /\ measuring' \in {"on", "raised"} /\ record' = "pending" /\ UNCHANGED <<observed, claims>>
        /\ totals' = [totals EXCEPT
            !.initial = @ + SumFunction([s \in Seqs |-> step.hits[s].initial]) * BlockSize,
            !.same_step = @ + SumFunction([s \in Seqs |-> step.hits[s].same_step]) * BlockSize,
            !.computed = @ + SumFunction([s \in Seqs |-> ComputedNow(s)])]
        /\ rows' = [s \in Seqs |->
            IF s \notin observed THEN rows[s]
            ELSE [rows[s] EXCEPT
                    !.initial = @ + step.hits[s].initial * BlockSize,
                    !.same_step = @ + step.hits[s].same_step * BlockSize,
                    !.computed = @ + ComputedNow(s)]]
    BY <1>7 DEF CloseSchedule
  <2>2. \A s \in Seqs : /\ step.hits[s].initial \in Nat /\ step.hits[s].same_step \in Nat
                        /\ ComputedNow(s) \in Nat
    BY <1>7, CloseFacts
  <2>3. /\ SumFunction([s \in Seqs |-> step.hits[s].initial]) \in Nat
        /\ SumFunction([s \in Seqs |-> step.hits[s].same_step]) \in Nat
        /\ SumFunction([s \in Seqs |-> ComputedNow(s)]) \in Nat
    <3>1. /\ [s \in Seqs |-> step.hits[s].initial] \in [Seqs -> Nat]
          /\ [s \in Seqs |-> step.hits[s].same_step] \in [Seqs -> Nat]
          /\ [s \in Seqs |-> ComputedNow(s)] \in [Seqs -> Nat]
      BY <2>2
    <3>. QED
      BY <3>1, SeqsSum
  <2>4. \A n \in Nat : n * BlockSize \in Nat
    BY BlockManagerAssumption, MulFacts
  <2>5. totals' \in Totals
    <3>1. PICK i \in Nat, m \in Nat, n \in Nat :
            /\ i = SumFunction([s \in Seqs |-> step.hits[s].initial]) * BlockSize
            /\ m = SumFunction([s \in Seqs |-> step.hits[s].same_step]) * BlockSize
            /\ n = SumFunction([s \in Seqs |-> ComputedNow(s)])
      BY <2>3, <2>4
    <3>2. PICK x \in Nat, y \in Nat, z \in Nat :
            x = totals.initial + i /\ y = totals.same_step + m /\ z = totals.computed + n
      <4>1. totals.initial \in Nat /\ totals.same_step \in Nat /\ totals.computed \in Nat
        BY DEF MetricsTypeOK, Totals
      <4>2. totals.initial + i \in Nat /\ totals.same_step + m \in Nat /\ totals.computed + n \in Nat
        BY <4>1
      <4>. QED
        BY <4>2
    <3>3. totals' = [totals EXCEPT !.initial = x, !.same_step = y, !.computed = z]
      BY <2>1, <3>1, <3>2
    <3>4. PICK t \in Totals : t = [totals EXCEPT !.initial = x]
      BY DEF MetricsTypeOK, Totals
    <3>5. PICK u \in Totals : u = [t EXCEPT !.same_step = y]
      BY DEF Totals
    <3>6. totals' = [u EXCEPT !.computed = z]
      BY <3>3, <3>4, <3>5
    <3>. QED
      BY <3>6 DEF Totals
  <2>6. rows' \in [Seqs -> Row]
    <3>1. ASSUME NEW s \in Seqs PROVE rows'[s] \in Row
      <4>1. rows[s] \in Row
        BY DEF MetricsTypeOK
      <4>2. step.hits[s].initial * BlockSize \in Nat /\ step.hits[s].same_step * BlockSize \in Nat
        BY <2>2, <2>4
      <4>3. PICK x \in Nat, y \in Nat, z \in Nat :
              /\ x = rows[s].initial + step.hits[s].initial * BlockSize
              /\ y = rows[s].same_step + step.hits[s].same_step * BlockSize
              /\ z = rows[s].computed + ComputedNow(s)
        BY <2>2, <4>1, <4>2 DEF Row
      <4>4. PICK t \in Row : t = [rows[s] EXCEPT !.initial = x]
        BY <4>1 DEF Row
      <4>5. PICK u \in Row : u = [t EXCEPT !.same_step = y]
        BY DEF Row
      <4>6. [u EXCEPT !.computed = z] \in Row
        BY DEF Row
      <4>7. rows'[s] = rows[s] \/ rows'[s] = [rows[s] EXCEPT !.initial = x, !.same_step = y, !.computed = z]
        BY <2>1, <4>3
      <4>8. [u EXCEPT !.computed = z] = [rows[s] EXCEPT !.initial = x, !.same_step = y, !.computed = z]
        BY <4>4, <4>5
      <4>. QED
        BY <4>1, <4>6, <4>7, <4>8
    <3>2. rows' = [s \in Seqs |-> rows'[s]]
      BY <2>1
    <3>. QED
      BY <3>1, <3>2
  <2>. QED
    BY <2>1, <2>5, <2>6 DEF MetricsTypeOK
<1>8. CASE FinishStep
  <2>1. /\ rows' = [s \in Seqs |-> IF s \in observed THEN Stamped(s) ELSE rows[s]]
        /\ totals' = [totals EXCEPT !.steps = @ + 1]
        /\ record' = "none" /\ UNCHANGED <<measuring, observed, claims>>
    BY <1>8 DEF FinishStep
  <2>2. totals' \in Totals /\ totals.steps \in Nat
    BY <2>1 DEF MetricsTypeOK, Totals
  <2>3. ASSUME NEW s \in Seqs PROVE Stamped(s) \in Row /\ rows[s] \in Row
    <3>1. rows[s] \in Row
      BY DEF MetricsTypeOK
    <3>2. PICK x \in Nat, y \in Nat : Stamped(s) = [rows[s] EXCEPT !.first = x, !.completed = y]
      <4>1. rows[s].first \in Nat /\ rows[s].completed \in Nat /\ totals.steps + 1 \in Nat
        BY <2>2, <3>1 DEF Row
      <4>. QED
        BY <4>1 DEF Stamped
    <3>3. PICK t \in Row : t = [rows[s] EXCEPT !.first = x]
      BY <3>1 DEF Row
    <3>4. [t EXCEPT !.completed = y] \in Row
      BY DEF Row
    <3>. QED
      BY <3>1, <3>2, <3>3, <3>4
  <2>4. rows' \in [Seqs -> Row]
    BY <2>1, <2>3
  <2>. QED
    BY <2>1, <2>2, <2>4 DEF MetricsTypeOK
<1>9. CASE EngineRaises \/ Summarize
  BY <1>9 DEF EngineRaises, Summarize, MetricsTypeOK
<1>. QED
  BY <1>1, <1>2, <1>3, <1>4, <1>5, <1>6, <1>7, <1>8, <1>9 DEF MetricsNext, Measured

LEMMA NextStart ==
    ASSUME MetricsTypeOK, StartInv, [MetricsNext]_allVars
    PROVE  StartInv'
<1>1. CASE Measured
  <2>1. measuring' # "off"
    BY <1>1 DEF Measured, BeginStep, CountPreemption, CountClaim, CountEviction, CloseSchedule, FinishStep,
                NotHooked, EngineRaises, Summarize, On, metricVars
  <2>. QED
    BY <2>1 DEF StartInv
<1>2. CASE Install
  BY <1>2 DEF Install, StartInv
<1>3. CASE Arrive \/ Unmeasured \/ MetricsEnded \/ UNCHANGED allVars
  <2>1. UNCHANGED metricVars
    BY <1>3 DEF Arrive, Unmeasured, MetricsEnded, allVars
  <2>. QED
    BY <2>1 DEF StartInv, metricVars
<1>. QED
  BY <1>1, <1>2, <1>3 DEF MetricsNext

(* When the measurement begins nobody runs, and the waiting requests have    *)
(* only their prompt.                                                      *)
LEMMA InstallFacts ==
    ASSUME SchedInv, StartInv, Install
    PROVE  /\ UNCHANGED vars /\ totals' = NoTotals /\ rows' = [s \in Seqs |-> NoRow] /\ record' = "none"
           /\ pc = "idle" /\ call = NoCall /\ step = EmptyStep
           /\ \A s \in Seqs : /\ s \in observed' <=> status[s] = "WAITING"
                              /\ status[s] # "RUNNING"
                              /\ status[s] = "WAITING" => SeqLen(s) = num_prompt_tokens[s]
<1>1. /\ measuring = "off" /\ UNCHANGED vars /\ UNCHANGED <<totals, rows, record>>
      /\ observed' = Range(waiting)
      /\ pc = "idle" /\ call = NoCall /\ running = <<>> /\ chunked_req = NoSeq
      /\ \A s \in Range(waiting) : SeqLen(s) = num_prompt_tokens[s]
  BY DEF Install, NothingStarted, At
<1>2. step = EmptyStep
  BY <1>1 DEF SchedInv, PhaseInv
<1>3. ASSUME NEW s \in Seqs
      PROVE  /\ s \in Range(waiting) <=> status[s] = "WAITING"
             /\ status[s] # "RUNNING"
  <2>1. s \notin Range(running) /\ s # chunked_req /\ s \notin Range(step.prefill)
    BY <1>1, <1>2, SchedulerAssumption DEF Range, EmptyStep
  <2>. QED
    BY <2>1 DEF SchedInv, QueueInv
<1>. QED
  BY <1>1, <1>2, <1>3 DEF StartInv

(* A request is new until it is added, and finished for good.                *)
LEMMA EngineStatus ==
    ASSUME SchedInv, ReachInv, Engine \/ UNCHANGED vars, NEW s \in Seqs
    PROVE  \/ status'[s] = status[s]
           \/ /\ status[s] \in {"WAITING", "RUNNING"}
              /\ status'[s] \in {"WAITING", "RUNNING", "FINISHED"}
<1>1. status \in [Seqs -> Statuses]
  BY DEF SchedInv, SchedTypeOK
<1>2. CASE Planning
  BY <1>2, PlanningFacts
<1>3. CASE PreemptTail
  <2>1. PICK q \in Seqs : status[q] = "RUNNING" /\ status' = [status EXCEPT ![q] = "WAITING"]
    BY <1>3, PreemptCome
  <2>. QED
    BY <1>1, <2>1
<1>4. CASE Finish
  BY <1>1, <1>4, FinishFacts
<1>5. CASE \/ StartStep \/ ScheduleEnd \/ DecodeAssertionRaises \/ NoProgressRaises \/ Run
           \/ (\E t \in Token : Sample(t)) \/ SampleEnd \/ AdvanceBatch \/ BlockManagerStep
           \/ UNCHANGED vars
  <2>1. status' = status
    BY <1>5 DEF StartStep, ScheduleEnd, DecodeAssertionRaises, NoProgressRaises, Run, Sample, SampleEnd,
                AdvanceBatch, BlockManagerStep, vars, schedVars
  <2>. QED
    BY <2>1
<1>. QED
  BY <1>2, <1>3, <1>4, <1>5 DEF Engine, Schedule, Postprocess, Planning

LEMMA MeasuredEngine ==
    ASSUME Measured
    PROVE  On /\ observed' = observed /\ (Engine \/ UNCHANGED vars)
<1>1. On /\ observed' = observed
  BY DEF Measured, BeginStep, CountPreemption, CountClaim, CountEviction, CloseSchedule, FinishStep,
         NotHooked, EngineRaises, Summarize, metricVars
<1>2. CASE BeginStep \/ FinishStep \/ CountEviction
  BY <1>1, <1>2 DEF BeginStep, FinishStep, CountEviction, Engine, Postprocess
<1>3. CASE CountPreemption \/ CountClaim \/ CloseSchedule \/ EngineRaises
  BY <1>1, <1>3 DEF CountPreemption, CountClaim, CloseSchedule, EngineRaises, Engine, Schedule
<1>4. CASE NotHooked
  BY <1>1, <1>4 DEF NotHooked, Engine, Schedule, Postprocess
<1>5. CASE Summarize
  BY <1>1, <1>5 DEF Summarize
<1>. QED
  BY <1>1, <1>2, <1>3, <1>4, <1>5 DEF Measured

(* A step after which the measurement is on has been measured, or is install. *)
LEMMA OnSteps ==
    ASSUME [MetricsNext]_allVars, On'
    PROVE  Install \/ Measured \/ (On /\ UNCHANGED allVars)
BY DEF MetricsNext, Arrive, Unmeasured, MetricsEnded, On, metricVars, allVars

LEMMA NextObserved ==
    ASSUME SchedInv, ReachInv, StartInv, ObservedInv, [MetricsNext]_allVars
    PROVE  ObservedInv'
<1>. SUFFICES ASSUME On', NEW s \in Seqs
              PROVE  /\ s \in observed' => status'[s] # "new"
                     /\ status'[s] \in {"WAITING", "RUNNING"} => s \in observed'
  BY DEF ObservedInv
<1>1. CASE Install
  BY <1>1, InstallFacts DEF vars, schedVars
<1>2. CASE Measured
  <2>1. /\ On /\ observed' = observed
        /\ \/ status'[s] = status[s]
           \/ /\ status[s] \in {"WAITING", "RUNNING"}
              /\ status'[s] \in {"WAITING", "RUNNING", "FINISHED"}
    BY <1>2, MeasuredEngine, EngineStatus
  <2>. QED
    BY <2>1 DEF ObservedInv
<1>3. CASE On /\ UNCHANGED allVars
  BY <1>3 DEF ObservedInv, allVars, metricVars, vars, schedVars
<1>. QED
  BY <1>1, <1>2, <1>3, OnSteps

(* The requests with nothing but their prompt stay so until they are sampled. *)
LEMMA UnsampledKeeps ==
    ASSUME SchedInv, ReachInv, NEW s \in Seqs, Unsampled(s)',
           StartStep \/ Planning \/ Run \/ Postprocess \/ BlockManagerStep \/ ScheduleEnd
    PROVE  Unsampled(s) /\ SeqLen(s)' = SeqLen(s) /\ num_prompt_tokens' = num_prompt_tokens
<1>1. CASE StartStep \/ Planning \/ BlockManagerStep \/ ScheduleEnd
  <2>1. StartStep \/ Schedule \/ BlockManagerStep
    BY <1>1 DEF Planning, Schedule
  <2>2. /\ num_prompt_tokens' = num_prompt_tokens /\ token_ids' = token_ids
        /\ step'.rows = step.rows \/ ~Sampling'
        /\ Sampling' = Sampling
    BY <2>1, OtherSteps
  <2>3. running' = running
    <3>1. CASE Planning
      BY <3>1, PlanningFacts
    <3>2. CASE StartStep \/ BlockManagerStep \/ ScheduleEnd
      BY <3>2 DEF StartStep, BlockManagerStep, ScheduleEnd, schedVars
    <3>. QED
      BY <1>1, <3>1, <3>2
  <2>4. status'[s] = status[s] \/ status[s] = "WAITING"
    <3>1. CASE Planning
      BY <3>1, PlanningFacts
    <3>2. CASE StartStep \/ BlockManagerStep \/ ScheduleEnd
      BY <3>2 DEF StartStep, BlockManagerStep, ScheduleEnd, schedVars
    <3>. QED
      BY <1>1, <3>1, <3>2
  <2>. QED
    BY <2>2, <2>3, <2>4 DEF Unsampled, SeqLen
<1>2. CASE Run
  <2>1. /\ ~Sampling
        /\ UNCHANGED <<status, num_prompt_tokens, running, token_ids>>
    BY <1>2, RunRows DEF bmVars, Sampling
  <2>. QED
    BY <2>1 DEF Unsampled, SeqLen
<1>3. CASE \E t \in Token : Sample(t)
  <2>1. PICK t \in Token : Sample(t)
    BY <1>3
  <2>2. /\ Sampling /\ Sampling'
        /\ UNCHANGED <<status, num_prompt_tokens, running, step.rows>>
        /\ step.at \in DOMAIN step.rows /\ status[step.rows[step.at]] = "RUNNING"
        /\ token_ids' = [token_ids EXCEPT ![step.rows[step.at]] = Append(@, t)]
        /\ token_ids \in [Seqs -> Seq(Token)]
    BY <2>1, SampleFacts, CountTypes DEF schedVars, Sampling
  <2>3. Unsampled(s)
    BY <2>2 DEF Unsampled
  <2>4. s # step.rows[step.at]
    <3>1. step.rows[step.at] \in Range(step.rows)
      BY <2>2 DEF Range
    <3>. QED
      BY <2>2, <2>3, <3>1 DEF Unsampled
  <2>. QED
    BY <2>2, <2>3, <2>4 DEF SeqLen
<1>4. CASE SampleEnd
  <2>1. /\ Sampling /\ Sampling'
        /\ UNCHANGED <<status, num_prompt_tokens, running, step, token_ids>>
    BY <1>4 DEF SampleEnd, At, Goto, Sampling, schedVars, bmVars
  <2>. QED
    BY <2>1 DEF Unsampled, SeqLen
<1>5. CASE Finish
  <2>1. /\ Sampling /\ Sampling' /\ status \in [Seqs -> Statuses]
        /\ UNCHANGED <<num_prompt_tokens, token_ids, step.rows>>
        /\ status' = [status EXCEPT ![step.rows[step.at]] = "FINISHED"]
        /\ Range(running') = Range(running) \ {step.rows[step.at]}
    BY <1>5, FinishFacts DEF Sampling, SchedInv, SchedTypeOK
  <2>. QED
    BY <2>1 DEF Unsampled, SeqLen
<1>6. CASE AdvanceBatch
  <2>1. /\ Sampling /\ pc = "advance"
        /\ UNCHANGED <<status, num_prompt_tokens, token_ids>>
        /\ Range(running') = Range(running) \cup
              {q \in Range(step.prefill) :
                 Unfinished(q) /\ ContextEnd(q) >= num_prompt_tokens[q] /\ q \notin Range(running)}
    BY <1>6, AdvanceFacts DEF Sampling
  <2>2. ASSUME status[s] = "RUNNING", s \in Range(step.rows) PROVE s \in Range(running')
    <3>1. s \in Range(Scheduled)
      BY <2>1, <2>2 DEF SchedInv, RowsInv
    <3>2. CASE s \in Range(step.prefill)
      <4>1. ContextEnd(s) >= num_prompt_tokens[s]
        <5>1. PICK i \in DOMAIN step.rows : s = step.rows[i]
          BY <2>2 DEF Range
        <5>. QED
          BY <2>1, <2>2, <5>1 DEF ReachInv, RowsReach
      <4>. QED
        BY <2>1, <2>2, <3>2, <4>1 DEF Unfinished
    <3>3. CASE s \in Range(step.decode)
      <4>1. InBatch
        BY <2>1 DEF InBatch, Processing
      <4>2. s \in Range(running)
        BY <2>2, <3>3, <4>1 DEF SchedInv, DecodeInv
      <4>. QED
        BY <2>1, <4>2
    <3>. QED
      BY <1>6, <3>1, <3>2, <3>3, AdvanceFacts
  <2>3. Range(running) \subseteq Range(running')
    BY <2>1
  <2>4. Unsampled(s)
    BY <2>1, <2>2, <2>3 DEF Unsampled
  <2>. QED
    BY <2>1, <2>4 DEF SeqLen
<1>. QED
  BY <1>1, <1>2, <1>3, <1>4, <1>5, <1>6 DEF Postprocess

LEMMA NextUnsampled ==
    ASSUME SchedInv, ReachInv, MetricsTypeOK, StartInv, UnsampledInv, [MetricsNext]_allVars
    PROVE  UnsampledInv'
<1>. SUFFICES ASSUME Undisturbed', NEW s \in Seqs, Unsampled(s)'
              PROVE  SeqLen(s)' = num_prompt_tokens'[s]
  BY DEF UnsampledInv
<1>0. On' /\ totals'.preemptions = 0
  BY DEF Undisturbed
<1>1. CASE Install
  <2>1. UNCHANGED vars /\ status[s] # "RUNNING" /\ (status[s] = "WAITING" => SeqLen(s) = num_prompt_tokens[s])
    BY <1>1, InstallFacts
  <2>. QED
    BY <2>1 DEF Unsampled, SeqLen, vars, schedVars, bmVars
<1>2. CASE Measured
  <2>1. CASE totals'.preemptions = totals.preemptions /\
             (StartStep \/ Planning \/ Run \/ Postprocess \/ BlockManagerStep \/ ScheduleEnd)
    <3>1. Undisturbed
      BY <1>0, <1>2, <2>1, MeasuredEngine DEF Undisturbed
    <3>2. Unsampled(s) /\ SeqLen(s)' = SeqLen(s) /\ num_prompt_tokens' = num_prompt_tokens
      BY <2>1, UnsampledKeeps
    <3>. QED
      BY <3>1, <3>2 DEF UnsampledInv
  <2>2. CASE CountPreemption
    <3>1. totals'.preemptions = totals.preemptions + 1 /\ totals.preemptions \in Nat
      BY <2>2 DEF CountPreemption, MetricsTypeOK, Totals
    <3>. QED
      BY <1>0, <3>1
  <2>3. CASE CloseSchedule
    BY <2>1, <2>3, CloseFacts
  <2>. QED
    BY <1>0, <1>2, <2>1, <2>2, <2>3, MeasuredKinds
<1>3. CASE On /\ UNCHANGED allVars
  <2>1. Undisturbed /\ Unsampled(s) /\ UNCHANGED <<token_ids, num_prompt_tokens>>
    BY <1>0, <1>3 DEF Undisturbed, Unsampled, Sampling, allVars, metricVars, vars, schedVars, bmVars
  <2>. QED
    BY <2>1 DEF UnsampledInv, SeqLen
<1>. QED
  BY <1>0, <1>1, <1>2, <1>3, OnSteps

LEMMA CountedType ==
    ASSUME MetricsTypeOK, NEW s \in Seqs
    PROVE  /\ rows[s].initial \in Nat /\ rows[s].same_step \in Nat /\ rows[s].computed \in Nat
           /\ Counted(s) \in Nat
<1>1. rows[s] \in Row
  BY DEF MetricsTypeOK
<1>. QED
  BY <1>1 DEF Row, Counted

(* The balance of a request moves only by a preemption, or by a batch that   *)
(* finds in the cache tokens the request had sampled.                       *)
LEMMA Balance ==
    ASSUME SchedInv, ReachInv, MetricsTypeOK, MetricsTypeOK', ObservedInv, UnsampledInv,
           Measured, On', NEW s \in observed
    PROVE  /\ Come(s) \in Nat /\ Come(s)' \in Nat
           /\ Counted(s)' + Come(s) >= Counted(s) + Come(s)'
           /\ totals'.preemptions = 0 => /\ totals.preemptions = 0
                                         /\ Counted(s)' + Come(s) = Counted(s) + Come(s)'
<1>. s \in Seqs /\ observed' = observed
  BY MeasuredEngine DEF MetricsTypeOK
<1>1. Come(s) \in Nat
  <2>1. num_cached_tokens[s] \in Nat /\ ContextEnd(s) \in Nat /\ num_prompt_tokens[s] \in Nat
    BY CountTypes
  <2>. QED
    BY <2>1 DEF Come, SoFar, MinOf
<1>2. Counted(s) \in Nat /\ Counted(s)' \in Nat
  <2>1. rows[s] \in Row /\ rows'[s] \in Row
    BY DEF MetricsTypeOK
  <2>. QED
    BY <2>1 DEF Row, Counted
<1>3. CASE /\ StartStep \/ Planning \/ Run \/ Postprocess \/ BlockManagerStep
           /\ totals'.preemptions = totals.preemptions
           /\ Charges(s)
  <2>1. Come(s)' = Come(s)
    BY <1>3, ComeKeeps
  <2>2. Counted(s)' = Counted(s)
    BY <1>3 DEF Charges, Counted
  <2>. QED
    BY <1>1, <1>2, <1>3, <2>1, <2>2
<1>4. CASE CountPreemption
  <2>1. /\ PreemptTail /\ rows' = rows
        /\ totals'.preemptions = totals.preemptions + 1 /\ totals.preemptions \in Nat
    BY <1>4 DEF CountPreemption, MetricsTypeOK, Totals
  <2>2. Come(s)' = 0 \/ Come(s)' = Come(s)
    BY <2>1, PreemptCome
  <2>3. Counted(s)' = Counted(s)
    BY <2>1 DEF Counted
  <2>. QED
    BY <1>1, <1>2, <2>1, <2>2, <2>3
<1>5. CASE CloseSchedule
  <2>1. /\ ScheduleEnd /\ totals'.preemptions = totals.preemptions
        /\ step.hits[s].initial \in Nat /\ step.hits[s].same_step \in Nat /\ ComputedNow(s) \in Nat
        /\ rows'[s].initial = rows[s].initial + step.hits[s].initial * BlockSize
        /\ rows'[s].same_step = rows[s].same_step + step.hits[s].same_step * BlockSize
        /\ rows'[s].computed = rows[s].computed + ComputedNow(s)
    BY <1>5, CloseFacts
  <2>2. PICK i \in Nat, m \in Nat, n \in Nat :
            /\ i = step.hits[s].initial * BlockSize /\ m = step.hits[s].same_step * BlockSize
            /\ n = ComputedNow(s)
    BY <2>1, MulFacts, BlockManagerAssumption
  <2>3. Charged(s) = i + m + n
    BY <2>1, <2>2, MulFacts, BlockManagerAssumption DEF Charged
  <2>4. Counted(s)' = Counted(s) + Charged(s)
    BY <2>1, <2>2, <2>3, CountedType DEF Counted
  <2>5. /\ Come(s)' \in Nat /\ Charged(s) \in Nat
        /\ Come(s)' <= Come(s) + Charged(s)
        /\ (status[s] = "RUNNING" /\ s \notin Range(running) => SeqLen(s) = num_prompt_tokens[s])
                => Come(s)' = Come(s) + Charged(s)
    BY <2>1, ScheduleCome
  <2>6. ASSUME totals'.preemptions = 0
        PROVE  /\ totals.preemptions = 0
               /\ status[s] = "RUNNING" /\ s \notin Range(running) => SeqLen(s) = num_prompt_tokens[s]
    <3>1. Undisturbed /\ ~Sampling
      BY <2>1, <2>6, MeasuredEngine DEF Undisturbed, ScheduleEnd, At, Sampling
    <3>. QED
      BY <3>1 DEF UnsampledInv, Unsampled, Undisturbed
  <2>. QED
    BY <1>1, <1>2, <2>4, <2>5, <2>6
<1>. QED
  BY <1>3, <1>4, <1>5, MeasuredKinds

LEMMA NextCharge ==
    ASSUME SchedInv, ReachInv, CollectorInv, MetricsTypeOK', [MetricsNext]_allVars
    PROVE  ChargeInv'
<1>. SUFFICES ASSUME On', NEW s \in observed'
              PROVE  /\ Counted(s)' >= Come(s)'
                     /\ totals'.preemptions = 0 => Counted(s)' = Come(s)'
  BY DEF ChargeInv
<1>. s \in Seqs
  BY DEF MetricsTypeOK
<1>1. CASE Install
  <2>1. rows'[s] = NoRow /\ status'[s] = "WAITING"
    BY <1>1, InstallFacts DEF vars, schedVars, CollectorInv
  <2>2. Come(s)' = 0 /\ Counted(s)' = 0
    BY <2>1 DEF Come, Counted, NoRow
  <2>. QED
    BY <2>2
<1>2. CASE Measured
  <2>1. On /\ s \in observed
    BY <1>2, MeasuredEngine
  <2>2. /\ Come(s) \in Nat /\ Come(s)' \in Nat
        /\ Counted(s)' + Come(s) >= Counted(s) + Come(s)'
        /\ totals'.preemptions = 0 => /\ totals.preemptions = 0
                                      /\ Counted(s)' + Come(s) = Counted(s) + Come(s)'
    BY <1>2, <2>1, Balance DEF CollectorInv
  <2>3. Counted(s) \in Nat /\ Counted(s)' \in Nat
    <3>1. rows[s] \in Row /\ rows'[s] \in Row
      BY DEF CollectorInv, MetricsTypeOK
    <3>. QED
      BY <3>1 DEF Row, Counted
  <2>4. Counted(s) >= Come(s) /\ (totals.preemptions = 0 => Counted(s) = Come(s))
    BY <2>1 DEF CollectorInv, ChargeInv
  <2>. QED
    BY <2>2, <2>3, <2>4
<1>3. CASE On /\ UNCHANGED allVars
  <2>1. s \in observed /\ Come(s)' = Come(s) /\ Counted(s)' = Counted(s) /\ totals' = totals
    BY <1>3 DEF Come, SoFar, ContextEnd, Counted, Scheduling, Processing, Admitted,
                allVars, metricVars, vars, schedVars, bmVars, seqVars
  <2>. QED
    BY <1>3, <2>1 DEF CollectorInv, ChargeInv
<1>. QED
  BY <1>1, <1>2, <1>3, OnSteps

LEMMA InitCollector ==
    ASSUME MetricsInit
    PROVE  CollectorInv
<1>1. measuring = "off" /\ ~On /\ observed = {} /\ record = "none"
      /\ claims = [s \in Seqs |-> 0] /\ totals = NoTotals /\ rows = [s \in Seqs |-> NoRow]
  BY DEF MetricsInit, On
<1>2. NoTotals \in Totals /\ NoRow \in Row
  BY DEF NoTotals, NoRow, Totals, Row
<1>3. MetricsTypeOK
  BY <1>1, <1>2 DEF MetricsTypeOK
<1>. QED
  BY <1>1, <1>3 DEF CollectorInv, StartInv, ObservedInv, UnsampledInv, ChargeInv, Undisturbed

(* Everything, step by step.                                                *)
LEMMA NextCollector ==
    ASSUME SchedInv, ReachInv, CollectorInv, [MetricsNext]_allVars
    PROVE  SchedInv' /\ ReachInv' /\ CollectorInv'
<1>1. SchedInv' /\ ReachInv'
  BY MetricsIsSched, NextSched, NextReach
<1>2. TypeOK'
  BY <1>1 DEF SchedInv, SchedTypeOK
<1>3. MetricsTypeOK'
  BY <1>2, NextMetricsType DEF CollectorInv
<1>4. StartInv' /\ ObservedInv' /\ UnsampledInv' /\ ChargeInv'
  BY <1>3, NextStart, NextObserved, NextUnsampled, NextCharge DEF CollectorInv
<1>. QED
  BY <1>1, <1>3, <1>4 DEF CollectorInv

(* Between two steps every request is in one of the states it is charged for. *)
LEMMA ChargesFollow ==
    ASSUME SchedInv, CollectorInv
    PROVE  PromptsCharged
<1>. SUFFICES ASSUME On, At("idle"), NEW s \in observed
              PROVE  LET reached == CASE status[s] = "WAITING" -> 0
                             [] status[s] = "RUNNING" ->
                                    MinOf(num_cached_tokens[s], num_prompt_tokens[s])
                             [] status[s] = "FINISHED" -> num_prompt_tokens[s]
                     IN  /\ Counted(s) >= reached
                         /\ totals.preemptions = 0 => Counted(s) = reached
  BY DEF PromptsCharged
<1>1. s \in Seqs /\ ~Scheduling /\ ~Processing
  BY DEF CollectorInv, MetricsTypeOK, At, Scheduling, Processing
<1>2. status[s] \in {"WAITING", "RUNNING", "FINISHED"}
  BY <1>1 DEF SchedInv, SchedTypeOK, Statuses, CollectorInv, ObservedInv
<1>3. Come(s) = CASE status[s] = "WAITING" -> 0
                  [] status[s] = "RUNNING" -> MinOf(num_cached_tokens[s], num_prompt_tokens[s])
                  [] status[s] = "FINISHED" -> num_prompt_tokens[s]
  BY <1>1, <1>2 DEF Come, SoFar
<1>. QED
  BY <1>3 DEF CollectorInv, ChargeInv

LEMMA CollectorInvariant == MetricsSpec => [](SchedInv /\ ReachInv /\ CollectorInv)
<1>1. MetricsInit => SchedInv /\ ReachInv /\ CollectorInv
  BY InitSched, InitReach, InitCollector DEF MetricsInit
<1>2. SchedInv /\ ReachInv /\ CollectorInv /\ [MetricsNext]_allVars
          => (SchedInv /\ ReachInv /\ CollectorInv)'
  BY NextCollector
<1>. QED
  BY <1>1, <1>2, PTL DEF MetricsSpec

(* Whatever was cached, chunked, batched or preempted, between two steps an  *)
(* observed request has been charged at least its prompt up to where it has  *)
(* come, and exactly that as long as nothing was preempted: the part of      *)
(* PromptTokensConserved that speaks of the requests one by one.            *)
THEOREM EveryPromptCharged == MetricsSpec => []PromptsCharged
BY CollectorInvariant, ChargesFollow, PTL

-----------------------------------------------------------------------------
(* No hook refuses a measurement                                           *)

(* A step is recorded from the start of schedule() to the end of the step.   *)
RecordInv == On => (record = "pending" <=> Processing)

LEMMA NextRecord ==
    ASSUME SchedInv, StartInv, RecordInv, [MetricsNext]_allVars
    PROVE  RecordInv'
<1>. SUFFICES ASSUME On' PROVE record' = "pending" <=> Processing'
  BY DEF RecordInv
<1>1. CASE Install
  BY <1>1, InstallFacts DEF Processing, vars
<1>2. CASE On /\ UNCHANGED allVars
  BY <1>2 DEF RecordInv, Processing, allVars, metricVars, vars
<1>3. CASE BeginStep \/ CloseSchedule \/ FinishStep
  BY <1>3 DEF BeginStep, CloseSchedule, FinishStep, StartStep, ScheduleEnd, AdvanceBatch, Goto, Processing
<1>4. CASE CountPreemption \/ CountClaim \/ CountEviction \/ NotHooked
  <2>1. On /\ record' = record
    BY <1>4 DEF CountPreemption, CountClaim, CountEviction, NotHooked, metricVars
  <2>2. Processing' <=> Processing
    <3>1. CASE Planning
      BY <3>1, PlanningFacts
    <3>2. CASE PreemptTail \/ BlockManagerStep \/ Run \/ (\E t \in Token : Sample(t)) \/ Finish \/ SampleEnd
      BY <3>2 DEF PreemptTail, BlockManagerStep, Run, Sample, Finish, SampleEnd, At, Goto, Processing
    <3>. QED
      BY <1>4, <3>1, <3>2 DEF CountPreemption, CountClaim, CountEviction, NotHooked, Planning
  <2>. QED
    BY <2>1, <2>2 DEF RecordInv
<1>5. CASE EngineRaises \/ Summarize
  BY <1>5 DEF EngineRaises, Summarize, RecordInv, Processing, At, On, vars
<1>. QED
  BY <1>1, <1>2, <1>3, <1>4, <1>5, OnSteps DEF Measured

(* claim_prefix has been called for the i-th admitted request: what was       *)
(* claimed for it is its plan, and nothing was claimed for the others.       *)
Claiming == pc = "preempt" \/ Scheduling
PlanClaimed(i) == SameStep \/ pc \notin {"freeze", "claim"} \/ (pc = "claim" /\ i < step.at)
ClaimsInv ==
    On /\ Claiming =>
        /\ \A s \in Seqs :
            (\A i \in DOMAIN step.admitted : step.admitted[i].seq = s => ~PlanClaimed(i))
                => claims[s] = 0
        /\ \A i \in DOMAIN step.admitted : PlanClaimed(i) =>
            claims[step.admitted[i].seq] = Len(step.admitted[i].plan)

LEMMA ClaimsStay ==
    ASSUME ClaimsInv, On, Claiming, claims' = claims, step'.admitted = step.admitted,
           \A i \in DOMAIN step.admitted : PlanClaimed(i)' <=> PlanClaimed(i)
    PROVE  ClaimsInv'
BY DEF ClaimsInv

(* Nobody is admitted yet.                                                  *)
LEMMA ClaimsEmpty ==
    ASSUME step'.admitted = <<>>, \A s \in Seqs : claims'[s] = 0
    PROVE  ClaimsInv'
BY DEF ClaimsInv

(* What the hook of claim_prefix sees.                                      *)
LEMMA ClaimSeen ==
    ASSUME SchedInv, NEW s, NEW plan,
           IF plan = <<>> THEN UNCHANGED bmVars ELSE ClaimPrefix(s, plan), call = NoCall
    PROVE  /\ plan = <<>> => call'.op # "claim"
           /\ plan # <<>> => call'.op = "claim" /\ call'.seq = s /\ call'.plan = plan
<1>1. CASE plan = <<>>
  BY <1>1 DEF bmVars, NoCall
<1>2. CASE plan # <<>>
  <2>1. call' = [op |-> "claim", seq |-> s, plan |-> plan]
    BY <1>2 DEF ClaimPrefix
  <2>. QED
    BY <1>2, <2>1
<1>. QED
  BY <1>1, <1>2

LEMMA ClaimCounted ==
    ASSUME SchedInv, MetricsTypeOK, CountClaim, NEW s \in Seqs, NEW plan \in Seq(BlockIds),
           IF plan = <<>> THEN UNCHANGED bmVars ELSE ClaimPrefix(s, plan), call = NoCall
    PROVE  /\ claims'[s] = claims[s] + Len(plan)
           /\ \A q \in Seqs : q # s => claims'[q] = claims[q]
<1>1. claims' = (IF call'.op = "claim" THEN [claims EXCEPT ![call'.seq] = @ + ClaimedBlocks] ELSE claims)
  BY DEF CountClaim
<1>2. claims \in [Seqs -> Nat]
  BY DEF MetricsTypeOK
<1>3. CASE plan = <<>>
  <2>1. claims' = claims /\ Len(plan) = 0
    BY <1>1, <1>3, ClaimSeen
  <2>. QED
    BY <1>2, <2>1
<1>4. CASE plan # <<>>
  <2>1. call'.op = "claim" /\ call'.seq = s /\ ClaimedBlocks = Len(plan)
    BY <1>4, ClaimSeen DEF ClaimedBlocks
  <2>2. claims' = [claims EXCEPT ![s] = @ + Len(plan)]
    BY <1>1, <2>1
  <2>. QED
    BY <1>2, <2>2
<1>. QED
  BY <1>3, <1>4

LEMMA CommitClaims ==
    ASSUME SchedInv, MetricsTypeOK, ClaimsInv, CountClaim, CommitClaim
    PROVE  ClaimsInv'
<1>. DEFINE s == Head(step.ranked)
            plan == MatchPrefix(s)
<1>1. /\ pc = "commit" /\ pc' = "admit" /\ call = NoCall /\ step.ranked # <<>>
      /\ step' = [step EXCEPT
                !.admitted = Append(@, AdmitRecord(s, plan)),
                !.token_budget = @ - NewTokens(s, plan),
                !.ranked = RankedAfter(s, plan),
                !.hits[s] = HitsOf(Len(step.initial[s]), Len(plan))]
      /\ IF plan = <<>> THEN UNCHANGED bmVars ELSE ClaimPrefix(s, plan)
  BY DEF CommitClaim, At, Goto
<1>2. SameStep /\ On /\ Claiming
  BY <1>1 DEF SchedInv, PhaseInv, CountClaim, Claiming, Scheduling
<1>3. /\ s \in Seqs /\ Fresh(s) /\ \A i \in 1 .. Len(step.admitted) : step.admitted[i].seq # s
  BY <1>1, HeadFacts
<1>4. plan \in Seq(BlockIds)
  <2>1. TypeOK /\ CommittedInv
    BY DEF SchedInv, SchedTypeOK, EvictionInv, CallsInv, CacheInv, PoolInv
  <2>. QED
    BY <1>3, <2>1, MatchIsCurrent
<1>5. /\ claims'[s] = claims[s] + Len(plan)
      /\ \A q \in Seqs : q # s => claims'[q] = claims[q]
  BY <1>1, <1>3, <1>4, ClaimCounted
<1>. DEFINE a == AdmitRecord(s, plan)
<1>6. a.seq = s /\ a.plan = plan
  BY DEF AdmitRecord
<1>7. step'.admitted = Append(step.admitted, a)
  BY <1>1, BatchTypes DEF Step
<1>. HIDE DEF s, plan, a
<1>8. PICK N \in Nat :
        /\ N = Len(step.admitted) /\ DOMAIN step.admitted = 1 .. N
        /\ DOMAIN step'.admitted = 1 .. N + 1
        /\ step'.admitted[N + 1] = a
        /\ \A i \in 1 .. N : step'.admitted[i] = step.admitted[i] /\ step.admitted[i].seq \in Seqs
  <2>1. step.admitted \in Seq([seq : Seqs, plan : Seq(BlockIds), new : Nat])
    BY BatchTypes DEF Step
  <2>2. PICK q \in Seq([seq : Seqs, plan : Seq(BlockIds), new : Nat]) : q = step.admitted
    BY <2>1
  <2>3. DOMAIN q = 1 .. Len(q) /\ Len(q) \in Nat
    OBVIOUS
  <2>4. \A i \in 1 .. Len(q) : q[i].seq \in Seqs
    BY <2>2, BatchTypes
  <2>5. /\ DOMAIN Append(q, a) = 1 .. Len(q) + 1 /\ Append(q, a)[Len(q) + 1] = a
        /\ \A i \in 1 .. Len(q) : Append(q, a)[i] = q[i]
    BY <2>3
  <2>. QED
    BY <1>7, <2>2, <2>3, <2>4, <2>5
<1>9. /\ \A i : PlanClaimed(i) /\ PlanClaimed(i)'
      /\ \A q \in Seqs : (\A i \in 1 .. N : step.admitted[i].seq # q) => claims[q] = 0
      /\ \A i \in 1 .. N : claims[step.admitted[i].seq] = Len(step.admitted[i].plan)
  BY <1>2, <1>8 DEF ClaimsInv, PlanClaimed
<1>10. claims'[s] = Len(plan)
  <2>1. claims[s] = 0 /\ Len(plan) \in Nat
    BY <1>3, <1>4, <1>8, <1>9
  <2>. QED
    BY <1>5, <2>1
<1>11. ASSUME NEW q \in Seqs, \A i \in 1 .. N + 1 : step'.admitted[i].seq # q PROVE claims'[q] = 0
  <2>1. q # s
    BY <1>6, <1>8, <1>11
  <2>2. \A i \in 1 .. N : step.admitted[i].seq # q
    BY <1>8, <1>11
  <2>. QED
    BY <1>5, <1>9, <2>1, <2>2
<1>12. ASSUME NEW i \in 1 .. N + 1 PROVE claims'[step'.admitted[i].seq] = Len(step'.admitted[i].plan)
  <2>1. CASE i \in 1 .. N
    <3>1. step.admitted[i].seq # s /\ step.admitted[i].seq \in Seqs
      BY <1>3, <1>8, <2>1
    <3>. QED
      BY <1>5, <1>8, <1>9, <2>1, <3>1
  <2>2. CASE i = N + 1
    BY <1>6, <1>8, <1>10, <2>2
  <2>. QED
    BY <2>1, <2>2
<1>. QED
  BY <1>8, <1>9, <1>11, <1>12 DEF ClaimsInv

LEMMA FrozenClaims ==
    ASSUME SchedInv, MetricsTypeOK, ClaimsInv, CountClaim, FrozenClaim
    PROVE  ClaimsInv'
<1>1. /\ pc = "claim" /\ call = NoCall /\ ~SameStep /\ On /\ Claiming
  BY DEF FrozenClaim, At, SchedInv, PhaseInv, Claiming, Scheduling, CountClaim
<1>2. PICK N \in Nat, k \in Nat :
          /\ N = Len(step.admitted) /\ DOMAIN step.admitted = 1 .. N
          /\ k = step.at /\ k \in 1 .. N + 1
  <2>1. step.at \in 1 .. Len(step.admitted) + 1
    BY <1>1 DEF SchedInv, AtInv
  <2>. QED
    BY <2>1, BatchTypes
<1>3. \A i \in 1 .. N : PlanClaimed(i) <=> i < k
  BY <1>1, <1>2 DEF PlanClaimed
<1>4. CASE k > N
  <2>1. step' = [step EXCEPT !.at = 1] /\ pc' = "chunk" /\ UNCHANGED bmVars
    BY <1>2, <1>4 DEF FrozenClaim, Goto
  <2>2. step'.admitted = step.admitted
    BY <2>1, BatchTypes DEF Step
  <2>3. claims' = claims
    BY <1>1, <2>1 DEF CountClaim, bmVars, NoCall
  <2>4. \A i \in 1 .. N : PlanClaimed(i)' <=> PlanClaimed(i)
    BY <1>2, <1>3, <1>4, <2>1 DEF PlanClaimed
  <2>. QED
    BY <1>1, <1>2, <2>2, <2>3, <2>4, ClaimsStay
<1>5. CASE k <= N
  <2>a. k \in 1 .. N
    BY <1>2, <1>5
  <2>. DEFINE a == step.admitted[k]
  <2>1. /\ step' = [step EXCEPT !.at = @ + 1] /\ pc' = pc
        /\ IF a.plan = <<>> THEN UNCHANGED bmVars ELSE ClaimPrefix(a.seq, a.plan)
    BY <1>2, <1>5 DEF FrozenClaim
  <2>2. a.seq \in Seqs /\ a.plan \in Seq(BlockIds)
    BY <1>2, <2>a, BatchTypes
  <2>3. /\ claims'[a.seq] = claims[a.seq] + Len(a.plan)
        /\ \A q \in Seqs : q # a.seq => claims'[q] = claims[q]
    BY <1>1, <2>1, <2>2, ClaimCounted
  <2>4. step'.admitted = step.admitted /\ step'.at = k + 1
    BY <1>2, <2>1, BatchTypes DEF Step
  <2>5. \A i \in 1 .. N : PlanClaimed(i)' <=> i <= k
    BY <1>1, <1>2, <2>1, <2>4 DEF PlanClaimed
  <2>6. \A i \in 1 .. N : i # k => step.admitted[i].seq # a.seq /\ step.admitted[i].seq \in Seqs
    <3>1. \A i \in 1 .. N : step.admitted[i].seq \in Seqs
      BY <1>2, BatchTypes
    <3>2. \A i, j \in 1 .. N : i # j => step.admitted[i].seq # step.admitted[j].seq
      BY <1>1, <1>2 DEF SchedInv, AdmittedInv, InBatch, Scheduling
    <3>. QED
      BY <2>a, <3>1, <3>2
  <2>7. claims'[a.seq] = Len(a.plan)
    <3>1. \A i \in 1 .. N : step.admitted[i].seq = a.seq => ~PlanClaimed(i)
      BY <1>2, <1>3, <2>6
    <3>2. claims[a.seq] = 0
      BY <1>1, <1>2, <2>2, <3>1 DEF ClaimsInv
    <3>3. Len(a.plan) \in Nat
      BY <2>2
    <3>. QED
      BY <2>3, <3>2, <3>3
  <2>. HIDE DEF a
  <2>8. ASSUME NEW q \in Seqs, \A i \in 1 .. N : step.admitted[i].seq = q => ~PlanClaimed(i)'
        PROVE  claims'[q] = 0
    <3>1. q # a.seq
      BY <1>2, <1>5, <2>a, <2>5, <2>8 DEF a
    <3>2. \A i \in 1 .. N : step.admitted[i].seq = q => ~PlanClaimed(i)
      BY <1>2, <1>3, <2>5, <2>8
    <3>. QED
      BY <1>1, <1>2, <2>3, <3>1, <3>2 DEF ClaimsInv
  <2>9. ASSUME NEW i \in 1 .. N, PlanClaimed(i)'
        PROVE  claims'[step.admitted[i].seq] = Len(step.admitted[i].plan)
    <3>1. CASE i = k
      BY <2>7, <3>1 DEF a
    <3>2. CASE i # k
      <4>1. PlanClaimed(i)
        BY <1>2, <1>3, <2>5, <2>9, <3>2
      <4>2. claims'[step.admitted[i].seq] = claims[step.admitted[i].seq]
        BY <2>3, <2>6, <3>2
      <4>. QED
        BY <1>1, <1>2, <4>1, <4>2 DEF ClaimsInv
    <3>. QED
      BY <3>1, <3>2
  <2>. QED
    BY <1>2, <2>4, <2>8, <2>9 DEF ClaimsInv
<1>. QED
  BY <1>2, <1>4, <1>5

LEMMA NextClaims ==
    ASSUME SchedInv, MetricsTypeOK, StartInv, ClaimsInv, [MetricsNext]_allVars
    PROVE  ClaimsInv'
<1>. SUFFICES ASSUME On', Claiming' PROVE ClaimsInv'
  BY DEF ClaimsInv
<1>1. CASE Install \/ CloseSchedule \/ FinishStep \/ Summarize
  <2>1. pc' \in {"idle", "run"}
    BY <1>1 DEF Install, CloseSchedule, FinishStep, Summarize, NothingStarted, At, ScheduleEnd, AdvanceBatch,
                Goto, vars
  <2>. QED
    BY <2>1 DEF Claiming, Scheduling
<1>2. CASE On /\ UNCHANGED allVars
  BY <1>2 DEF ClaimsInv, Claiming, Scheduling, PlanClaimed, allVars, metricVars, vars
<1>3. CASE BeginStep
  <2>1. step' = step /\ pc = "idle" /\ claims' = [s \in Seqs |-> 0]
    BY <1>3 DEF BeginStep, StartStep, At
  <2>2. step'.admitted = <<>>
    BY <2>1 DEF SchedInv, PhaseInv, EmptyStep
  <2>. QED
    BY <2>1, <2>2, ClaimsEmpty
<1>4. CASE CountPreemption \/ CountEviction
  <2>1. On /\ UNCHANGED <<pc, step, claims>>
    BY <1>4 DEF CountPreemption, CountEviction, PreemptTail, BlockManagerStep
  <2>. QED
    BY <2>1 DEF ClaimsInv, Claiming, Scheduling, PlanClaimed
<1>5. CASE CountClaim
  BY <1>5, CommitClaims, FrozenClaims DEF CountClaim
<1>6. CASE EngineRaises
  BY <1>6 DEF EngineRaises, On
<1>7. CASE NotHooked
  <2>0. On /\ claims' = claims
    BY <1>7 DEF NotHooked, metricVars
  <2>1. CASE PlanStep \/ Freeze
    <3>1. Claiming /\ (\A i \in DOMAIN step.admitted : ~PlanClaimed(i))
          /\ (\A i : ~PlanClaimed(i)' \/ PlanStep)
      <4>1. CASE PlanStep
        <5>1. pc = "preempt"
          BY <4>1 DEF PlanStep, At
        <5>2. step.admitted = <<>>
          BY <5>1 DEF SchedInv, PhaseInv, EmptyStep
        <5>. QED
          BY <4>1, <5>1, <5>2 DEF Claiming
      <4>2. CASE Freeze
        <5>1. pc = "freeze" /\ pc' = "freeze" /\ ~SameStep
          BY <4>2 DEF Freeze, At, SchedInv, PhaseInv
        <5>. QED
          BY <5>1 DEF Claiming, Scheduling, PlanClaimed
      <4>. QED
        BY <2>1, <4>1, <4>2
    <3>2. \A s \in Seqs : claims[s] = 0
      BY <2>0, <3>1 DEF ClaimsInv
    <3>3. CASE PlanStep
      <4>1. step'.admitted = <<>>
        BY <3>3, PlanShape
      <4>. QED
        BY <2>0, <3>2, <4>1, ClaimsEmpty
    <3>4. CASE ~PlanStep
      BY <2>0, <3>1, <3>2, <3>4 DEF ClaimsInv
    <3>. QED
      BY <3>3, <3>4
  <2>2. CASE FreezeEnd
    <3>1. pc = "freeze" /\ pc' = "claim" /\ step' = step /\ ~SameStep
      BY <2>2 DEF FreezeEnd, At, Goto, SchedInv, PhaseInv
    <3>2. step.at = 1
      BY <3>1 DEF SchedInv, AtInv
    <3>3. \A i \in DOMAIN step.admitted : PlanClaimed(i)' <=> PlanClaimed(i)
      <4>1. DOMAIN step.admitted \subseteq Nat \ {0}
        <5>1. DOMAIN step.admitted = 1 .. Len(step.admitted) /\ Len(step.admitted) \in Nat
          BY BatchTypes
        <5>. QED
          BY <5>1
      <4>. QED
        BY <3>1, <3>2, <4>1 DEF PlanClaimed
    <3>. QED
      BY <2>0, <3>1, <3>3, ClaimsStay DEF Claiming, Scheduling
  <2>3. CASE ChunkAppend \/ CommitAllocate \/ CommitEnd \/ FrozenAllocate \/ DecodeAppend
    <3>1. /\ pc \notin {"freeze", "claim"} /\ pc' \notin {"freeze", "claim"} /\ Claiming
          /\ step'.admitted = step.admitted
      BY <2>3, BatchTypes DEF ChunkAppend, CommitAllocate, CommitEnd, FrozenAllocate, DecodeAppend, At, Goto,
                              Step, Claiming, Scheduling
    <3>. QED
      BY <2>0, <3>1, ClaimsStay DEF PlanClaimed
  <2>4. CASE Run \/ (\E t \in Token : Sample(t)) \/ Finish \/ SampleEnd
    <3>1. pc' \in {"sample", "stop", "advance"}
      BY <2>4 DEF Run, Sample, Finish, SampleEnd, At, Goto
    <3>. QED
      BY <3>1 DEF Claiming, Scheduling
  <2>. QED
    BY <1>7, <2>1, <2>2, <2>3, <2>4 DEF NotHooked
<1>. QED
  BY <1>1, <1>2, <1>3, <1>4, <1>5, <1>6, <1>7, OnSteps DEF Measured

(* The claims that were counted are the hits the scheduler recorded.         *)
LEMMA Agrees ==
    ASSUME SchedInv, ReachInv, ClaimsInv, On, ScheduleEnd
    PROVE  ClassificationAgrees
<1>1. pc = "decode" /\ Claiming /\ Scheduling
  BY DEF ScheduleEnd, At, Claiming, Scheduling
<1>2. \A i \in DOMAIN step.admitted : PlanClaimed(i) /\ Recorded(i)
  <2>1. \A i \in DOMAIN step.admitted : i \in Nat /\ i <= Len(step.admitted)
    BY BatchTypes
  <2>. QED
    BY <1>1, <2>1 DEF PlanClaimed, Recorded, Allocated
<1>3. ASSUME NEW s \in Seqs PROVE step.hits[s].initial + step.hits[s].same_step = claims[s]
  <2>1. CASE \E i \in DOMAIN step.admitted : step.admitted[i].seq = s
    BY <1>1, <1>2, <2>1 DEF ClaimsInv, ReachInv, HitsInv
  <2>2. CASE \A i \in DOMAIN step.admitted : step.admitted[i].seq # s
    <3>1. claims[s] = 0 /\ step.hits[s] = NoHits
      BY <1>1, <2>2 DEF ClaimsInv, ReachInv, HitsInv
    <3>. QED
      BY <3>1 DEF NoHits
  <2>. QED
    BY <2>1, <2>2
<1>. QED
  BY <1>3 DEF ClassificationAgrees

(* The counters of the collector are the sums over the rows, and what was     *)
(* claimed is what was classified, but for the step that is being planned.   *)
RowSums ==
    /\ totals.initial = SumFunction([s \in Seqs |-> rows[s].initial])
    /\ totals.same_step = SumFunction([s \in Seqs |-> rows[s].same_step])
    /\ totals.computed = SumFunction([s \in Seqs |-> rows[s].computed])
UnderWay == IF Claiming THEN SumFunction(claims) * BlockSize ELSE 0
TotalsInv ==
    On =>
        /\ RowSums
        /\ \A s \in Seqs \ observed : rows[s] = NoRow
        /\ totals.claimed = totals.initial + totals.same_step + UnderWay

LEMMA SumZero ==
    SumFunction([s \in Seqs |-> 0]) = 0
<1>. DEFINE f == [s \in Seqs |-> 0]
<1>1. SumFunction(f) = SumFunctionOnSet(f, Seqs)
  <2>1. f \in [Seqs -> Nat]
    OBVIOUS
  <2>. QED
    BY <2>1, SeqsSum
<1>2. f = [s \in Seqs |-> IF s = NoSeq THEN 0 ELSE 0]
  OBVIOUS
<1>3. IsFiniteSet(Seqs)
  BY BlockManagerAssumption
<1>4. SumFunctionOnSet([s \in Seqs |-> IF s = NoSeq THEN 0 ELSE 0], Seqs) = 0
  BY <1>3, SumOne
<1>. QED
  BY <1>1, <1>2, <1>4

LEMMA SumPlus ==
    ASSUME NEW f \in [Seqs -> Nat], NEW h \in [Seqs -> Nat]
    PROVE  /\ SumFunction([s \in Seqs |-> f[s] + h[s]]) = SumFunction(f) + SumFunction(h)
           /\ SumFunction(f) \in Nat /\ SumFunction(h) \in Nat
<1>. DEFINE g == [s \in Seqs |-> f[s] + h[s]]
<1>1. IsFiniteSet(Seqs)
  BY BlockManagerAssumption
<1>2. SumFunctionOnSet(g, Seqs) = SumFunctionOnSet(f, Seqs) + SumFunctionOnSet(h, Seqs)
  BY <1>1, SumAdd
<1>3. g \in [Seqs -> Nat]
  OBVIOUS
<1>. QED
  BY <1>2, <1>3, SeqsSum

LEMMA SumTimes ==
    ASSUME NEW f \in [Seqs -> Nat]
    PROVE  SumFunction([s \in Seqs |-> f[s] * BlockSize]) = SumFunction(f) * BlockSize
<1>. DEFINE g == [s \in Seqs |-> f[s] * BlockSize]
<1>1. IsFiniteSet(Seqs) /\ BlockSize \in Nat \ {0}
  BY BlockManagerAssumption
<1>2. SumFunctionOnSet(g, Seqs) = SumFunctionOnSet(f, Seqs) * BlockSize
  BY <1>1, SumScale
<1>3. g \in [Seqs -> Nat]
  BY <1>1, MulFacts
<1>. QED
  BY <1>2, <1>3, SeqsSum

(* A counter that grows by what its column grows by.                         *)
LEMMA ColumnGrows ==
    ASSUME NEW f \in [Seqs -> Nat], NEW h \in [Seqs -> Nat], NEW g,
           \A s \in Seqs : g[s] = f[s] + h[s]
    PROVE  SumFunction([s \in Seqs |-> g[s]]) = SumFunction(f) + SumFunction(h)
<1>1. [s \in Seqs |-> g[s]] = [s \in Seqs |-> f[s] + h[s]]
  OBVIOUS
<1>. QED
  BY <1>1, SumPlus

(* A batch charges nobody who is not observed.                              *)
LEMMA CloseUnobserved ==
    ASSUME SchedInv, ReachInv, ObservedInv, On, ScheduleEnd, NEW s \in Seqs, s \notin observed
    PROVE  step.hits[s] = NoHits /\ ComputedNow(s) = 0
<1>1. status[s] # "RUNNING"
  BY DEF ObservedInv
<1>2. s \notin Range(Scheduled)
  BY <1>1, ScheduledFacts
<1>3. \A i \in DOMAIN step.admitted : step.admitted[i].seq # s
  BY <1>2, ScheduledFacts
<1>. QED
  BY <1>2, <1>3, ScheduledFacts DEF ComputedNow, ReachInv, HitsInv

LEMMA CloseTotals ==
    ASSUME SchedInv, ReachInv, MetricsTypeOK, ObservedInv, TotalsInv, CloseSchedule, On'
    PROVE  TotalsInv'
<1>. DEFINE hi == [s \in Seqs |-> step.hits[s].initial]
            hs == [s \in Seqs |-> step.hits[s].same_step]
            now == [s \in Seqs |-> ComputedNow(s)]
            ri == [s \in Seqs |-> rows[s].initial]
            rs == [s \in Seqs |-> rows[s].same_step]
            rc == [s \in Seqs |-> rows[s].computed]
<1>1. /\ On /\ ClassificationAgrees /\ pc = "decode" /\ pc' = "run" /\ claims' = claims
      /\ ScheduleEnd /\ observed' = observed
  BY DEF CloseSchedule, On, ScheduleEnd, At, Goto
<1>2. Claiming /\ ~Claiming'
  BY <1>1 DEF Claiming, Scheduling
<1>3. /\ hi \in [Seqs -> Nat] /\ hs \in [Seqs -> Nat] /\ now \in [Seqs -> Nat]
      /\ ri \in [Seqs -> Nat] /\ rs \in [Seqs -> Nat] /\ rc \in [Seqs -> Nat]
      /\ claims \in [Seqs -> Nat]
  <2>1. \A s \in Seqs : /\ step.hits[s].initial \in Nat /\ step.hits[s].same_step \in Nat
                        /\ ComputedNow(s) \in Nat
    BY CloseFacts
  <2>2. \A s \in Seqs : /\ rows[s].initial \in Nat /\ rows[s].same_step \in Nat
                        /\ rows[s].computed \in Nat
    BY CountedType
  <2>. QED
    BY <2>1, <2>2 DEF MetricsTypeOK
<1>4. PICK i \in Nat, m \in Nat, n \in Nat :
        i = SumFunction(hi) /\ m = SumFunction(hs) /\ n = SumFunction(now)
  <2>1. SumFunction(hi) \in Nat /\ SumFunction(hs) \in Nat /\ SumFunction(now) \in Nat
    BY <1>3, SeqsSum
  <2>. QED
    BY <2>1
<1>5. PICK x \in Nat, y \in Nat : x = i * BlockSize /\ y = m * BlockSize
  BY <1>4, MulFacts, BlockManagerAssumption
<1>6. /\ totals'.initial = totals.initial + x
      /\ totals'.same_step = totals.same_step + y
      /\ totals'.computed = totals.computed + n
      /\ totals'.claimed = totals.claimed
  <2>1. totals' = [totals EXCEPT !.initial = @ + x, !.same_step = @ + y, !.computed = @ + n]
    BY <1>4, <1>5 DEF CloseSchedule
  <2>. QED
    BY <2>1 DEF MetricsTypeOK, Totals
<1>7. SumFunction(claims) * BlockSize = x + y
  <2>1. claims = [s \in Seqs |-> hi[s] + hs[s]]
    BY <1>1, <1>3 DEF ClassificationAgrees
  <2>2. SumFunction(claims) = i + m
    BY <1>3, <1>4, <2>1, SumPlus
  <2>. QED
    BY <1>4, <1>5, <2>2, MulFacts, BlockManagerAssumption
<1>8. totals.initial \in Nat /\ totals.same_step \in Nat /\ totals.claimed \in Nat
      /\ totals.claimed = totals.initial + totals.same_step + SumFunction(claims) * BlockSize
  BY <1>1, <1>2 DEF MetricsTypeOK, Totals, TotalsInv, UnderWay
<1>9. totals'.claimed = totals'.initial + totals'.same_step + UnderWay'
  <2>1. UnderWay' = 0
    BY <1>2 DEF UnderWay
  <2>. QED
    BY <1>6, <1>7, <1>8, <2>1
<1>10. \A s \in Seqs : s \notin observed => /\ hi[s] = 0 /\ hs[s] = 0 /\ now[s] = 0
                                           /\ rows'[s] = rows[s]
  BY <1>1, CloseUnobserved, CloseFacts DEF NoHits
<1>11. \A s \in Seqs \ observed' : rows'[s] = NoRow
  BY <1>1, <1>10 DEF TotalsInv
<1>12. ASSUME NEW s \in Seqs
       PROVE  /\ rows'[s].initial = ri[s] + hi[s] * BlockSize
              /\ rows'[s].same_step = rs[s] + hs[s] * BlockSize
              /\ rows'[s].computed = rc[s] + now[s]
  <2>1. CASE s \in observed
    BY <2>1, CloseFacts
  <2>2. CASE s \notin observed
    <3>1. /\ rows'[s].initial = ri[s] + hi[s] /\ rows'[s].same_step = rs[s] + hs[s]
          /\ rows'[s].computed = rc[s] + now[s]
      BY <1>3, <1>10, <2>2
    <3>2. hi[s] * BlockSize = hi[s] /\ hs[s] * BlockSize = hs[s]
      <4>1. 0 * BlockSize = 0
        BY BlockManagerAssumption
      <4>. QED
        BY <1>10, <2>2, <4>1
    <3>. QED
      BY <3>1, <3>2
  <2>. QED
    BY <2>1, <2>2
<1>. DEFINE bi == [s \in Seqs |-> hi[s] * BlockSize]
            bs == [s \in Seqs |-> hs[s] * BlockSize]
<1>13. /\ bi \in [Seqs -> Nat] /\ bs \in [Seqs -> Nat]
       /\ SumFunction(bi) = x /\ SumFunction(bs) = y
  <2>1. \A s \in Seqs : hi[s] \in Nat /\ hs[s] \in Nat
    BY <1>3
  <2>2. \A s \in Seqs : hi[s] * BlockSize \in Nat /\ hs[s] * BlockSize \in Nat
    BY <2>1, MulFacts, BlockManagerAssumption
  <2>3. bi \in [Seqs -> Nat] /\ bs \in [Seqs -> Nat]
    BY <2>2
  <2>4. SumFunction(bi) = SumFunction(hi) * BlockSize /\ SumFunction(bs) = SumFunction(hs) * BlockSize
    <3>. HIDE DEF hi, hs
    <3>. QED
      BY <1>3, SumTimes
  <2>. QED
    BY <1>4, <1>5, <2>3, <2>4
<1>14. RowSums'
  <2>. DEFINE gi == [s \in Seqs |-> rows'[s].initial]
              gs == [s \in Seqs |-> rows'[s].same_step]
              gc == [s \in Seqs |-> rows'[s].computed]
  <2>1. \A s \in Seqs : gi[s] = ri[s] + bi[s] /\ gs[s] = rs[s] + bs[s] /\ gc[s] = rc[s] + now[s]
    BY <1>12
  <2>2. totals.initial = SumFunction(ri) /\ totals.same_step = SumFunction(rs)
        /\ totals.computed = SumFunction(rc)
    BY <1>1 DEF TotalsInv, RowSums
  <2>3. gi = [s \in Seqs |-> gi[s]] /\ gs = [s \in Seqs |-> gs[s]] /\ gc = [s \in Seqs |-> gc[s]]
    OBVIOUS
  <2>. HIDE DEF gi, gs, gc, ri, rs, rc, bi, bs, now, hi, hs
  <2>4. /\ SumFunction([s \in Seqs |-> gi[s]]) = SumFunction(ri) + SumFunction(bi)
        /\ SumFunction([s \in Seqs |-> gs[s]]) = SumFunction(rs) + SumFunction(bs)
        /\ SumFunction([s \in Seqs |-> gc[s]]) = SumFunction(rc) + SumFunction(now)
    <3>1. SumFunction([s \in Seqs |-> gi[s]]) = SumFunction(ri) + SumFunction(bi)
      <4>1. ri \in [Seqs -> Nat] /\ bi \in [Seqs -> Nat] /\ \A s \in Seqs : gi[s] = ri[s] + bi[s]
        BY <1>3, <1>13, <2>1
      <4>. QED
        BY <4>1, ColumnGrows
    <3>2. SumFunction([s \in Seqs |-> gs[s]]) = SumFunction(rs) + SumFunction(bs)
      BY <1>3, <1>13, <2>1, ColumnGrows
    <3>3. SumFunction([s \in Seqs |-> gc[s]]) = SumFunction(rc) + SumFunction(now)
      BY <1>3, <2>1, ColumnGrows
    <3>. QED
      BY <3>1, <3>2, <3>3
  <2>5. /\ totals'.initial = SumFunction(gi) /\ totals'.same_step = SumFunction(gs)
        /\ totals'.computed = SumFunction(gc)
    BY <1>4, <1>6, <1>13, <2>2, <2>3, <2>4
  <2>. QED
    BY <2>5 DEF RowSums, gi, gs, gc
<1>. QED
  BY <1>9, <1>11, <1>14 DEF TotalsInv

LEMMA SumsStay ==
    ASSUME RowSums, totals'.initial = totals.initial, totals'.same_step = totals.same_step,
           totals'.computed = totals.computed, \A s \in Seqs : Charges(s)
    PROVE  RowSums'
<1>1. /\ [s \in Seqs |-> rows'[s].initial] = [s \in Seqs |-> rows[s].initial]
      /\ [s \in Seqs |-> rows'[s].same_step] = [s \in Seqs |-> rows[s].same_step]
      /\ [s \in Seqs |-> rows'[s].computed] = [s \in Seqs |-> rows[s].computed]
  BY DEF Charges
<1>. QED
  BY <1>1 DEF RowSums

(* What a claim adds.                                                       *)
LEMMA ClaimTotals ==
    ASSUME SchedInv, TypeOK', MetricsTypeOK, MetricsTypeOK', TotalsInv, CountClaim
    PROVE  /\ totals'.claimed = totals'.initial + totals'.same_step + SumFunction(claims') * BlockSize
           /\ totals'.initial = totals.initial /\ totals'.same_step = totals.same_step
           /\ totals'.computed = totals.computed
<1>. DEFINE s == call'.seq
            n == ClaimedBlocks
<1>1. /\ On /\ rows' = rows /\ observed' = observed
      /\ totals' = [totals EXCEPT !.claimed = @ + n * BlockSize]
      /\ claims' = IF call'.op = "claim" THEN [claims EXCEPT ![s] = @ + n] ELSE claims
  BY DEF CountClaim
<1>2. Claiming
  BY DEF CountClaim, CommitClaim, FrozenClaim, At, Claiming, Scheduling
<1>3. n \in Nat /\ (call'.op = "claim" => s \in Seqs) /\ (call'.op # "claim" => n = 0)
  <2>1. call' \in Calls
    BY DEF TypeOK
  <2>2. call'.op = "claim" => call'.seq \in Seqs /\ call'.plan \in Seq(BlockIds)
    BY <2>1 DEF Calls, NoCall
  <2>. QED
    BY <2>2 DEF ClaimedBlocks
<1>4. n * BlockSize \in Nat
  BY <1>3, MulFacts, BlockManagerAssumption
<1>5. /\ totals'.claimed = totals.claimed + n * BlockSize
      /\ totals'.initial = totals.initial /\ totals'.same_step = totals.same_step
      /\ totals'.computed = totals.computed
      /\ totals.initial \in Nat /\ totals.same_step \in Nat /\ totals.claimed \in Nat
  BY <1>1 DEF MetricsTypeOK, Totals
<1>6. claims \in [Seqs -> Nat] /\ claims' \in [Seqs -> Nat]
  BY DEF MetricsTypeOK
<1>. HIDE DEF s, n
<1>7. SumFunction(claims') = SumFunction(claims) + n
  <2>1. CASE call'.op = "claim"
    <3>. DEFINE h == [q \in Seqs |-> IF q = s THEN n ELSE 0]
    <3>1. h \in [Seqs -> Nat]
      BY <1>3
    <3>2. SumFunction(h) = n
      <4>1. SumFunctionOnSet(h, Seqs) = n
        <5>1. IsFiniteSet(Seqs)
          BY BlockManagerAssumption
        <5>. QED
          BY <1>3, <2>1, <5>1, SumOne
      <4>. QED
        BY <3>1, <4>1, SeqsSum
    <3>3. claims' = [q \in Seqs |-> claims'[q]]
      BY <1>6
    <3>4. \A q \in Seqs : claims'[q] = claims[q] + h[q]
      BY <1>1, <1>3, <1>6, <2>1
    <3>. HIDE DEF h
    <3>5. SumFunction([q \in Seqs |-> claims'[q]]) = SumFunction(claims) + SumFunction(h)
      BY <1>6, <3>1, <3>4, ColumnGrows
    <3>. QED
      BY <3>2, <3>3, <3>5
  <2>2. CASE call'.op # "claim"
    <3>1. claims' = claims /\ n = 0 /\ SumFunction(claims) \in Nat
      BY <1>1, <1>3, <1>6, <2>2, SeqsSum
    <3>. QED
      BY <3>1
  <2>. QED
    BY <2>1, <2>2
<1>8. /\ SumFunction(claims') * BlockSize = SumFunction(claims) * BlockSize + n * BlockSize
      /\ SumFunction(claims) * BlockSize \in Nat
  <2>1. SumFunction(claims) \in Nat
    BY <1>6, SeqsSum
  <2>. QED
    BY <1>3, <1>7, <2>1, MulFacts, BlockManagerAssumption
<1>9. totals.claimed = totals.initial + totals.same_step + SumFunction(claims) * BlockSize
  BY <1>1, <1>2 DEF TotalsInv, UnderWay
<1>. QED
  BY <1>4, <1>5, <1>8, <1>9

LEMMA NextTotals ==
    ASSUME SchedInv, ReachInv, CollectorInv, TotalsInv, TypeOK', MetricsTypeOK', [MetricsNext]_allVars
    PROVE  TotalsInv'
<1>. SUFFICES ASSUME On' PROVE TotalsInv'
  BY DEF TotalsInv
<1>a. MetricsTypeOK /\ StartInv /\ ObservedInv
  BY DEF CollectorInv
<1>1. CASE Install
  <2>1. totals' = NoTotals /\ rows' = [s \in Seqs |-> NoRow] /\ ~Claiming'
    BY <1>1, <1>a, InstallFacts DEF Claiming, Scheduling, vars
  <2>2. /\ [s \in Seqs |-> rows'[s].initial] = [s \in Seqs |-> 0]
        /\ [s \in Seqs |-> rows'[s].same_step] = [s \in Seqs |-> 0]
        /\ [s \in Seqs |-> rows'[s].computed] = [s \in Seqs |-> 0]
    BY <2>1 DEF NoRow
  <2>3. RowSums'
    BY <2>1, <2>2, SumZero DEF RowSums, NoTotals
  <2>. QED
    BY <2>1, <2>3 DEF TotalsInv, UnderWay, NoTotals
<1>2. CASE On /\ UNCHANGED allVars
  BY <1>2 DEF TotalsInv, RowSums, UnderWay, Claiming, Scheduling, allVars, metricVars, vars
<1>3. CASE CloseSchedule
  BY <1>3, <1>a, CloseTotals
<1>4. ASSUME Measured, ~CloseSchedule
      PROVE  TotalsInv'
  <2>1. /\ On /\ observed' = observed /\ \A s \in Seqs : Charges(s)
    BY <1>4, <1>a, MeasuredKinds DEF CountPreemption, Charges
  <2>2. \A s \in Seqs \ observed' : rows'[s] = NoRow
    <3>1. \A s \in Seqs \ observed : rows'[s] = rows[s]
      BY <1>4 DEF Measured, BeginStep, CountPreemption, CountClaim, CountEviction, FinishStep,
                  NotHooked, EngineRaises, Summarize, metricVars
    <3>. QED
      BY <2>1, <3>1 DEF TotalsInv
  <2>3. /\ totals'.initial = totals.initial /\ totals'.same_step = totals.same_step
        /\ totals'.computed = totals.computed
        /\ totals'.claimed = totals'.initial + totals'.same_step + UnderWay'
    <3>0. totals.claimed = totals.initial + totals.same_step + UnderWay
      BY <2>1 DEF TotalsInv
    <3>1. CASE BeginStep
      <4>1. totals' = totals /\ ~Claiming /\ claims' = [s \in Seqs |-> 0] /\ Claiming'
        BY <3>1 DEF BeginStep, StartStep, At, Goto, Claiming, Scheduling
      <4>2. UnderWay = 0 /\ UnderWay' = 0
        <5>1. 0 * BlockSize = 0
          BY BlockManagerAssumption
        <5>. QED
          BY <4>1, <5>1, SumZero DEF UnderWay
      <4>. QED
        BY <3>0, <4>1, <4>2
    <3>2. CASE CountClaim
      <4>1. Claiming'
        BY <3>2 DEF CountClaim, CommitClaim, FrozenClaim, At, Goto, Claiming, Scheduling
      <4>. QED
        BY <1>a, <3>2, <4>1, ClaimTotals DEF UnderWay
    <3>3. CASE CountPreemption \/ CountEviction \/ FinishStep \/ NotHooked
      <4>1. /\ totals'.initial = totals.initial /\ totals'.same_step = totals.same_step
            /\ totals'.computed = totals.computed /\ totals'.claimed = totals.claimed
            /\ claims' = claims
        <5>1. \/ \E n : totals' = [totals EXCEPT !.preemptions = n]
              \/ \E n : totals' = [totals EXCEPT !.evictions = n]
              \/ \E n : totals' = [totals EXCEPT !.steps = n]
              \/ totals' = totals
          BY <3>3 DEF CountPreemption, CountEviction, FinishStep, NotHooked, metricVars
        <5>2. claims' = claims
          BY <3>3 DEF CountPreemption, CountEviction, FinishStep, NotHooked, metricVars
        <5>. QED
          BY <1>a, <5>1, <5>2 DEF MetricsTypeOK, Totals
      <4>2. Claiming' <=> Claiming
        <5>1. CASE Planning
          BY <5>1, PlanningFacts DEF Claiming
        <5>2. CASE ~Planning
          BY <3>3, <5>2 DEF CountPreemption, CountEviction, FinishStep, NotHooked, Planning, PreemptTail,
                   BlockManagerStep, AdvanceBatch, Run, Sample, Finish, SampleEnd, At, Goto, Claiming, Scheduling
        <5>. QED
          BY <5>1, <5>2
      <4>. QED
        BY <3>0, <4>1, <4>2 DEF UnderWay
    <3>4. CASE EngineRaises \/ Summarize
      BY <3>4 DEF EngineRaises, Summarize, On
    <3>. QED
      BY <1>4, <3>1, <3>2, <3>3, <3>4 DEF Measured
  <2>4. RowSums'
    BY <2>1, <2>3, SumsStay DEF TotalsInv
  <2>. QED
    BY <2>2, <2>3, <2>4 DEF TotalsInv
<1>. QED
  BY <1>1, <1>2, <1>3, <1>4, OnSteps

LEMMA PromptTokensStay ==
    ASSUME [SchedNext]_vars
    PROVE  num_prompt_tokens' = num_prompt_tokens
BY DEF SchedNext, Engine, Schedule, Postprocess, Add, StartStep, PreemptTail, PlanStep, ChunkAppend,
       CommitClaim, CommitAllocate, CommitEnd, Freeze, FreezeEnd, FrozenClaim, FrozenAllocate, Admit,
       DecodeAppend, ScheduleEnd, DecodeAssertionRaises, NoProgressRaises, Run, Sample, Finish,
       SampleEnd, AdvanceBatch, BlockManagerStep, Stopped, schedVars, vars

(* After a preemption somebody has been charged a prompt too much.           *)
SurplusInv ==
    On /\ totals.preemptions > 0 =>
        \E s \in observed : Counted(s) >= num_prompt_tokens[s] + Come(s)

LEMMA NextSurplus ==
    ASSUME SchedInv, ReachInv, CollectorInv, SurplusInv, MetricsTypeOK', [MetricsNext]_allVars
    PROVE  SurplusInv'
<1>. SUFFICES ASSUME On', totals'.preemptions > 0
              PROVE  \E s \in observed' : Counted(s)' >= num_prompt_tokens'[s] + Come(s)'
  BY DEF SurplusInv
<1>a. MetricsTypeOK /\ StartInv /\ ObservedInv /\ UnsampledInv /\ ChargeInv
  BY DEF CollectorInv
<1>b. num_prompt_tokens' = num_prompt_tokens
  BY MetricsIsSched, PromptTokensStay
<1>1. CASE Install
  BY <1>1, <1>a, InstallFacts DEF NoTotals
<1>2. CASE On /\ UNCHANGED allVars
  <2>1. PICK s \in observed : Counted(s) >= num_prompt_tokens[s] + Come(s)
    BY <1>2 DEF SurplusInv, allVars, metricVars
  <2>2. s \in observed' /\ Come(s)' = Come(s) /\ Counted(s)' = Counted(s)
    BY <1>2 DEF Come, SoFar, ContextEnd, Counted, Scheduling, Processing, Admitted,
                allVars, metricVars, vars, schedVars, bmVars, seqVars
  <2>. QED
    BY <1>b, <2>1, <2>2
<1>3. CASE Measured /\ totals.preemptions > 0
  <2>1. On /\ observed' = observed
    BY <1>3, MeasuredEngine
  <2>2. PICK s \in observed : Counted(s) >= num_prompt_tokens[s] + Come(s)
    BY <1>3, <2>1 DEF SurplusInv
  <2>3. /\ Come(s) \in Nat /\ Come(s)' \in Nat
        /\ Counted(s)' + Come(s) >= Counted(s) + Come(s)'
    BY <1>3, <1>a, <2>1, Balance
  <2>4. Counted(s) \in Nat /\ Counted(s)' \in Nat /\ num_prompt_tokens[s] \in Nat
    <3>1. s \in Seqs /\ rows[s] \in Row /\ rows'[s] \in Row
      BY <1>a DEF MetricsTypeOK
    <3>2. num_prompt_tokens[s] \in Nat
      BY <3>1, CountTypes
    <3>. QED
      BY <3>1, <3>2 DEF Row, Counted
  <2>. QED
    BY <1>b, <2>1, <2>2, <2>3, <2>4
<1>4. CASE Measured /\ ~(totals.preemptions > 0)
  <2>1. On /\ observed' = observed /\ totals.preemptions = 0
    BY <1>4, <1>a, MeasuredEngine DEF MetricsTypeOK, Totals
  <2>2. CountPreemption
    <3>1. CASE CloseSchedule
      BY <1>a, <2>1, <3>1, CloseFacts
    <3>. QED
      BY <1>4, <1>a, <2>1, <3>1, MeasuredKinds
  <2>3. PreemptTail /\ rows' = rows
    BY <2>2 DEF CountPreemption
  <2>4. PICK s \in Seqs : status[s] = "RUNNING" /\ Come(s) = num_prompt_tokens[s] /\ Come(s)' = 0
    BY <2>3, PreemptCome
  <2>5. s \in observed
    BY <1>a, <2>1, <2>4 DEF ObservedInv
  <2>6. Counted(s)' = num_prompt_tokens[s] /\ num_prompt_tokens[s] \in Nat
    BY <1>a, <2>1, <2>3, <2>4, <2>5, CountTypes DEF ChargeInv, Counted
  <2>. QED
    BY <1>b, <2>1, <2>4, <2>5, <2>6
<1>. QED
  BY <1>1, <1>2, <1>3, <1>4, OnSteps

(* A finished request has generated something, and its row is stamped when    *)
(* its last step ends.                                                      *)
FinishedInv ==
    On => /\ \A s \in Seqs : status[s] = "FINISHED" /\ s \in observed => SeqLen(s) > num_prompt_tokens[s]
          /\ pc = "stop" => SeqLen(step.rows[step.at]) > num_prompt_tokens[step.rows[step.at]]
StampInv ==
    On => \A s \in observed : status[s] = "FINISHED" /\ ~Processing =>
              rows[s].first # 0 /\ rows[s].completed # 0

(* No step shortens a request.                                              *)
LEMMA NoShorter ==
    ASSUME SchedInv, [SchedNext]_vars, NEW s \in Seqs
    PROVE  SeqLen(s)' \in Nat /\ SeqLen(s)' >= SeqLen(s) /\ num_prompt_tokens'[s] = num_prompt_tokens[s]
<1>1. num_prompt_tokens' = num_prompt_tokens
  BY PromptTokensStay
<1>2. token_ids \in [Seqs -> Seq(Token)] /\ SeqLen(s) \in Nat
  BY CountTypes
<1>3. CASE token_ids' = token_ids
  BY <1>1, <1>2, <1>3 DEF SeqLen
<1>4. CASE \E t \in Token : Sample(t)
  <2>1. PICK t \in Token : Sample(t)
    BY <1>4
  <2>2. step.rows[step.at] \in Seqs /\ token_ids' = [token_ids EXCEPT ![step.rows[step.at]] = Append(@, t)]
    BY <2>1, SampleFacts
  <2>3. token_ids'[s] = token_ids[s] \/ token_ids'[s] = Append(token_ids[s], t)
    BY <1>2, <2>2
  <2>4. PICK q \in Seq(Token) : q = token_ids[s]
    BY <1>2
  <2>5. Len(Append(q, t)) = Len(q) + 1 /\ Len(q) \in Nat
    OBVIOUS
  <2>. QED
    BY <1>1, <2>3, <2>4, <2>5 DEF SeqLen
<1>5. \/ token_ids' = token_ids
      \/ \E t \in Token : Sample(t)
  <2>1. CASE StartStep \/ Schedule \/ BlockManagerStep \/ (\E q \in Seqs : Add(q)) \/ UNCHANGED vars
    BY <2>1, OtherSteps
  <2>2. CASE Run
    BY <2>2, RunRows DEF bmVars
  <2>3. CASE Finish
    BY <2>3, FinishFacts
  <2>4. CASE SampleEnd \/ AdvanceBatch
    BY <2>4, AdvanceFacts DEF SampleEnd, bmVars
  <2>. QED
    BY <2>1, <2>2, <2>3, <2>4 DEF SchedNext, Engine, Postprocess, Stopped
<1>. QED
  BY <1>3, <1>4, <1>5

LEMMA NextFinished ==
    ASSUME SchedInv, ReachInv, MetricsTypeOK, StartInv, FinishedInv, [MetricsNext]_allVars
    PROVE  FinishedInv'
<1>. SUFFICES ASSUME On' PROVE FinishedInv'
  BY DEF FinishedInv
<1>0. [SchedNext]_vars
  BY MetricsIsSched
<1>1. CASE Install
  BY <1>1, InstallFacts DEF FinishedInv, vars, schedVars
<1>2. CASE On /\ UNCHANGED allVars
  BY <1>2 DEF FinishedInv, SeqLen, allVars, metricVars, vars, schedVars, bmVars
<1>3. CASE Measured
  <2>1. On /\ observed' = observed
    BY <1>3, MeasuredEngine
  <2>2. CASE Finish
    <3>1. /\ pc' = "sample" /\ UNCHANGED <<token_ids, num_prompt_tokens>>
          /\ pc = "stop" /\ step.rows[step.at] \in Seqs
          /\ status' = [status EXCEPT ![step.rows[step.at]] = "FINISHED"]
      BY <2>2, FinishFacts
    <3>2. \A s \in Seqs : status'[s] = "FINISHED" => status[s] = "FINISHED" \/ s = step.rows[step.at]
      BY <3>1, BatchTypes
    <3>. QED
      BY <2>1, <3>1, <3>2 DEF FinishedInv, SeqLen
  <2>3. CASE \E t \in Token : Sample(t)
    <3>1. PICK t \in Token : Sample(t)
      BY <2>3
    <3>. DEFINE r == step.rows[step.at]
    <3>2. /\ UNCHANGED <<status, num_prompt_tokens>> /\ step'.rows = step.rows /\ r \in Seqs
          /\ token_ids' = [token_ids EXCEPT ![r] = Append(@, t)]
          /\ (pc' = "stop" => step' = step)
      BY <3>1, SampleFacts DEF schedVars
    <3>3. Len(token_ids'[r]) > num_prompt_tokens[r]
      <4>1. token_ids \in [Seqs -> Seq(Token)] /\ SeqLen(r) \in Nat /\ num_prompt_tokens[r] \in Nat
            /\ num_prompt_tokens[r] <= SeqLen(r)
        BY <3>2, CountTypes
      <4>2. PICK q \in Seq(Token) : q = token_ids[r]
        BY <3>2, <4>1
      <4>3. Len(Append(q, t)) = Len(q) + 1 /\ Len(q) \in Nat
        OBVIOUS
      <4>4. token_ids'[r] = Append(q, t)
        BY <3>2, <4>1, <4>2
      <4>. QED
        BY <4>1, <4>2, <4>3, <4>4 DEF SeqLen
    <3>4. \A s \in Seqs : SeqLen(s)' \in Nat /\ SeqLen(s)' >= SeqLen(s) /\ SeqLen(s) \in Nat
                          /\ num_prompt_tokens[s] \in Nat
      BY <1>0, NoShorter, CountTypes
    <3>. HIDE DEF r
    <3>5. \A s \in Seqs : SeqLen(s) > num_prompt_tokens[s] => SeqLen(s)' > num_prompt_tokens[s]
      BY <3>4
    <3>6. \A s \in Seqs : status'[s] = "FINISHED" /\ s \in observed' =>
                SeqLen(s)' > num_prompt_tokens'[s]
      BY <2>1, <3>2, <3>5 DEF FinishedInv
    <3>7. pc' = "stop" =>
            Len(token_ids'[step'.rows[step'.at]]) > num_prompt_tokens'[step'.rows[step'.at]]
      BY <3>2, <3>3 DEF r
    <3>. QED
      BY <3>6, <3>7 DEF FinishedInv, SeqLen
  <2>4. CASE ~Finish /\ ~(\E t \in Token : Sample(t))
    <3>1. Engine \/ UNCHANGED vars
      BY <1>3, MeasuredEngine
    <3>2. \A s \in Seqs : status'[s] = "FINISHED" => status[s] = "FINISHED"
      <4>1. CASE Planning
        BY <4>1, PlanningFacts
      <4>2. CASE ~Planning
        <5>1. status' = status \/ PreemptTail
          BY <2>4, <3>1, <4>2, AdvanceFacts
             DEF Engine, Schedule, Postprocess, Planning, StartStep, ScheduleEnd, DecodeAssertionRaises,
                 NoProgressRaises, Run, SampleEnd, BlockManagerStep, schedVars, vars
        <5>2. CASE PreemptTail
          <6>1. PICK q \in Seqs : status' = [status EXCEPT ![q] = "WAITING"]
            BY <5>2, PreemptCome
          <6>. QED
            BY <6>1, BatchTypes
        <5>. QED
          BY <5>1, <5>2
      <4>. QED
        BY <4>1, <4>2
    <3>3. pc' # "stop" \/ (pc = "stop" /\ step' = step /\ token_ids' = token_ids)
      <4>1. CASE Planning
        BY <4>1, PlanningFacts DEF Processing
      <4>2. CASE ~Planning
        BY <2>4, <3>1, <4>2, AdvanceFacts, CallQuiet
             DEF Engine, Schedule, Postprocess, Planning, StartStep, ScheduleEnd, DecodeAssertionRaises,
                 NoProgressRaises, PreemptTail, Run, SampleEnd, BlockManagerStep, At, Goto, vars, bmVars
      <4>. QED
        BY <4>1, <4>2
    <3>4. \A s \in Seqs : SeqLen(s)' \in Nat /\ SeqLen(s)' >= SeqLen(s) /\ SeqLen(s) \in Nat
                          /\ num_prompt_tokens[s] \in Nat /\ num_prompt_tokens'[s] = num_prompt_tokens[s]
      BY <1>0, NoShorter, CountTypes
    <3>5. \A s \in Seqs : SeqLen(s) > num_prompt_tokens[s] => SeqLen(s)' > num_prompt_tokens'[s]
      BY <3>4
    <3>6. num_prompt_tokens' = num_prompt_tokens
      BY <1>0, PromptTokensStay
    <3>. QED
      BY <2>1, <3>2, <3>3, <3>5, <3>6 DEF FinishedInv, SeqLen
  <2>. QED
    BY <2>2, <2>3, <2>4
<1>. QED
  BY <1>1, <1>2, <1>3, OnSteps

LEMMA NextStamp ==
    ASSUME SchedInv, ReachInv, MetricsTypeOK, MetricsTypeOK', StartInv, FinishedInv, StampInv,
           [MetricsNext]_allVars
    PROVE  StampInv'
<1>. SUFFICES ASSUME On', NEW s \in observed', status'[s] = "FINISHED", ~Processing'
              PROVE  rows'[s].first # 0 /\ rows'[s].completed # 0
  BY DEF StampInv
<1>1. CASE Install
  BY <1>1, InstallFacts DEF vars, schedVars, MetricsTypeOK
<1>2. CASE On /\ UNCHANGED allVars
  BY <1>2 DEF StampInv, Processing, allVars, metricVars, vars, schedVars
<1>3. CASE Measured
  <2>1. On /\ observed' = observed /\ s \in Seqs
    BY <1>3, MeasuredEngine DEF MetricsTypeOK
  <2>2. CASE FinishStep
    <3>1. AdvanceBatch /\ rows'[s] = Stamped(s)
      BY <2>1, <2>2 DEF FinishStep
    <3>2. status[s] = "FINISHED"
      BY <3>1, AdvanceFacts
    <3>3. SeqLen(s) > num_prompt_tokens[s]
      BY <2>1, <3>2 DEF FinishedInv
    <3>4. rows[s] \in Row /\ totals.steps \in Nat
      BY <2>1 DEF MetricsTypeOK, Totals
    <3>. DEFINE now == totals.steps + 1
                x == IF rows[s].first = 0 THEN now ELSE rows[s].first
                y == IF rows[s].completed = 0 THEN now ELSE rows[s].completed
    <3>5. rows'[s] = [rows[s] EXCEPT !.first = x, !.completed = y]
      BY <3>1, <3>2, <3>3 DEF Stamped
    <3>6. x # 0 /\ y # 0
      BY <3>4 DEF Row
    <3>. HIDE DEF x, y
    <3>7. rows'[s].first = x /\ rows'[s].completed = y
      BY <3>4, <3>5 DEF Row
    <3>. QED
      BY <3>6, <3>7
  <2>3. CASE ~FinishStep
    <3>1. rows'[s].first = rows[s].first /\ rows'[s].completed = rows[s].completed
      <4>1. CASE CloseSchedule
        BY <2>1, <4>1, CloseFacts
      <4>2. CASE ~CloseSchedule
        BY <1>3, <2>3, <4>2 DEF Measured, BeginStep, CountPreemption, CountClaim, CountEviction,
                                NotHooked, EngineRaises, Summarize, metricVars
      <4>. QED
        BY <4>1, <4>2
    <3>2. status[s] = "FINISHED" /\ ~Processing
      <4>1. CASE Planning
        BY <2>1, <4>1, PlanningFacts
      <4>2. CASE PreemptTail
        <5>1. PICK q \in Seqs : status' = [status EXCEPT ![q] = "WAITING"]
          BY <4>2, PreemptCome
        <5>. QED
          BY <2>1, <4>2, <5>1, BatchTypes DEF PreemptTail, At, Processing
      <4>3. CASE StartStep \/ BlockManagerStep \/ UNCHANGED vars
        <5>1. status' = status /\ (pc' = pc \/ pc = "idle")
          BY <4>3, CallQuiet DEF StartStep, At, schedVars, vars
        <5>. QED
          BY <5>1 DEF Processing
      <4>4. CASE ScheduleEnd \/ Run \/ (\E t \in Token : Sample(t)) \/ Finish \/ SampleEnd
        BY <4>4 DEF ScheduleEnd, Run, Sample, Finish, SampleEnd, At, Goto, Processing
      <4>5. CASE EngineRaises \/ Summarize
        BY <4>5 DEF EngineRaises, Summarize, On
      <4>. QED
        BY <1>3, <2>3, <4>1, <4>2, <4>3, <4>4, <4>5
           DEF Measured, BeginStep, CountPreemption, CountClaim, CountEviction, CloseSchedule, NotHooked, Planning
    <3>3. rows[s].first # 0 /\ rows[s].completed # 0
      BY <2>1, <3>2 DEF StampInv
    <3>. QED
      BY <3>1, <3>3
  <2>. QED
    BY <2>2, <2>3
<1>. QED
  BY <1>1, <1>2, <1>3, OnSteps

(* As long as nothing was preempted, a request that runs has one token to go   *)
(* before every batch; in the batch it is a row, and the rows that were       *)
(* sampled are one token ahead.                                            *)
ReadyInv ==
    Undisturbed =>
        /\ ~Sampling => \A s \in Range(running) : DecodeReady(s)
        /\ Sampling =>
            /\ Range(running) \subseteq Range(step.rows)
            /\ \A i \in DOMAIN step.rows : status[step.rows[i]] = "RUNNING" =>
                  SeqLen(step.rows[i]) = ContextEnd(step.rows[i]) + (IF i \in RowsLeft THEN 0 ELSE 1)

LEMMA ReadyRun ==
    ASSUME SchedInv, ReadyInv, Undisturbed, Run
    PROVE  ReadyInv'
<1>1. /\ pc = "run" /\ pc' = "sample" /\ UNCHANGED bmVars
      /\ UNCHANGED <<status, num_prompt_tokens, waiting, running, chunked_req>>
      /\ step'.rows \in Seq(Seqs) /\ step'.at = 1
      /\ Range(step'.rows) = {s \in Range(Scheduled) : ContextEnd(s) = SeqLen(s)}
  BY RunRows
<1>2. ~Sampling /\ Sampling' /\ InBatch /\ DecodeFrom = Len(step.decode) + 1
  BY <1>1 DEF Sampling, InBatch, Processing, DecodeFrom, Scheduling
<1>3. UNCHANGED <<token_ids, num_cached_tokens, num_new_tokens>>
  BY <1>1 DEF bmVars, seqVars
<1>4. ASSUME NEW s \in Range(running') PROVE s \in Range(step'.rows)
  <2>1. s \in Range(running) /\ s \in Range(step.decode)
    BY <1>1, <1>2, <1>4 DEF SchedInv, DecodeInv
  <2>2. step.decode \in Seq(Seqs) /\ step.prefill \in Seq(Seqs)
    BY BatchTypes
  <2>3. s \in Range(Scheduled) /\ s \in Seqs
    <3>1. Range(Scheduled) = Range(step.prefill) \cup Range(step.decode)
      BY <2>2, ConcatFacts DEF Scheduled
    <3>2. s \in Seqs
      BY <2>1, <2>2 DEF Range
    <3>. QED
      BY <2>1, <3>1, <3>2
  <2>4. PICK i \in DOMAIN step.decode : step.decode[i] = s
    BY <2>1 DEF Range
  <2>5. i < DecodeFrom
    BY <1>2, BatchTypes
  <2>6. num_new_tokens[s] = 1
    BY <1>1, <2>4, <2>5 DEF SchedInv, TokensInv
  <2>7. SeqLen(s) - num_cached_tokens[s] = 1
    BY <1>2, <2>1 DEF ReadyInv, DecodeReady
  <2>8. ContextEnd(s) = SeqLen(s)
    <3>1. num_cached_tokens[s] \in Nat /\ SeqLen(s) \in Nat
      BY <2>3, CountTypes
    <3>. QED
      BY <2>6, <2>7, <3>1 DEF ContextEnd
  <2>. QED
    BY <1>1, <2>3, <2>8
<1>5. ASSUME NEW i \in DOMAIN step'.rows
      PROVE  /\ i \in RowsLeft'
             /\ SeqLen(step.rows[i])' = ContextEnd(step.rows[i])' + 0
  <2>1. i \in RowsLeft'
    <3>1. i \in Nat /\ i >= 1
      BY <1>1, <1>5
    <3>. QED
      BY <1>1, <1>5, <3>1 DEF RowsLeft
  <2>2. PICK s \in Seqs : s = step'.rows[i] /\ s \in Range(step'.rows)
    BY <1>1, <1>5 DEF Range
  <2>3. ContextEnd(s) = SeqLen(s) /\ SeqLen(s) \in Nat
    BY <1>1, <2>2, CountTypes
  <2>. QED
    BY <1>3, <2>1, <2>2, <2>3 DEF ContextEnd, SeqLen
<1>. QED
  BY <1>2, <1>4, <1>5 DEF ReadyInv

LEMMA ReadySample ==
    ASSUME SchedInv, ReadyInv, Undisturbed, NEW t \in Token, Sample(t)
    PROVE  ReadyInv'
<1>. DEFINE r == step.rows[step.at]
<1>1. /\ pc = "sample" /\ UNCHANGED <<schedVars, seqVars, step.rows>>
      /\ step.at \in DOMAIN step.rows /\ r \in Seqs /\ status[r] = "RUNNING"
      /\ token_ids' = [token_ids EXCEPT ![r] = Append(@, t)]
      /\ \/ pc' = "stop" /\ step' = step
         \/ pc' = "sample" /\ step'.at = step.at + 1
  BY SampleFacts
<1>2. UNCHANGED <<status, running, num_cached_tokens, num_new_tokens>> /\ Sampling /\ Sampling'
  BY <1>1 DEF schedVars, seqVars, Sampling
<1>3. /\ step.rows \in Seq(Seqs) /\ DOMAIN step.rows = 1 .. Len(step.rows) /\ step.at \in Nat
      /\ Len(step.rows) \in Nat
  BY BatchTypes
<1>4. /\ IsInjective(step.rows) /\ step.at \in RowsLeft
      /\ \A i \in DOMAIN step.rows : i # step.at => (i \in RowsLeft <=> i \in RowsLeft')
      /\ step.at \notin RowsLeft'
  <2>1. IsInjective(step.rows)
    BY <1>1 DEF SchedInv, RowsInv
  <2>2. \A i \in DOMAIN step.rows : i \in Nat
    BY <1>3
  <2>. QED
    BY <1>1, <1>3, <2>1, <2>2 DEF RowsLeft
<1>5. /\ token_ids \in [Seqs -> Seq(Token)]
      /\ \A s \in Seqs : SeqLen(s) \in Nat /\ ContextEnd(s) \in Nat
  BY CountTypes
<1>6. Len(token_ids'[r]) = Len(token_ids[r]) + 1 /\ \A s \in Seqs : s # r => token_ids'[s] = token_ids[s]
  <2>1. PICK q \in Seq(Token) : q = token_ids[r]
    BY <1>1, <1>5
  <2>2. Len(Append(q, t)) = Len(q) + 1
    OBVIOUS
  <2>. QED
    BY <1>1, <1>5, <2>1, <2>2
<1>. HIDE DEF r
<1>7. ASSUME NEW i \in DOMAIN step.rows, status[step.rows[i]] = "RUNNING"
      PROVE  Len(token_ids'[step.rows[i]]) = ContextEnd(step.rows[i]) + (IF i \in RowsLeft' THEN 0 ELSE 1)
  <2>1. step.rows[i] \in Seqs
    BY <1>3, <1>7
  <2>2. SeqLen(step.rows[i]) = ContextEnd(step.rows[i]) + (IF i \in RowsLeft THEN 0 ELSE 1)
    BY <1>2, <1>7 DEF ReadyInv
  <2>3. CASE i = step.at
    BY <1>4, <1>5, <1>6, <2>1, <2>2, <2>3 DEF SeqLen, r
  <2>4. CASE i # step.at
    <3>1. step.rows[i] # r
      BY <1>1, <1>4, <2>4 DEF r, IsInjective
    <3>. QED
      BY <1>4, <1>6, <2>1, <2>2, <2>4, <3>1 DEF SeqLen
  <2>. QED
    BY <2>3, <2>4
<1>8. \A i \in DOMAIN step.rows : ContextEnd(step.rows[i])' = num_cached_tokens[step.rows[i]] + num_new_tokens[step.rows[i]]
  BY <1>1, <1>2 DEF ContextEnd
<1>. QED
  BY <1>1, <1>2, <1>7, <1>8 DEF ReadyInv, SeqLen, ContextEnd

LEMMA ReadyFinish ==
    ASSUME SchedInv, ReadyInv, Undisturbed, Finish
    PROVE  ReadyInv'
<1>. DEFINE r == step.rows[step.at]
<1>1. /\ pc = "stop" /\ pc' = "sample" /\ UNCHANGED <<seqVars, token_ids, step.rows>>
      /\ step.at \in DOMAIN step.rows /\ step'.at = step.at + 1 /\ r \in Seqs
      /\ status' = [status EXCEPT ![r] = "FINISHED"]
      /\ Range(running') = Range(running) \ {r}
  BY FinishFacts
<1>2. UNCHANGED <<num_cached_tokens, num_new_tokens>> /\ Sampling /\ Sampling'
  BY <1>1 DEF seqVars, Sampling
<1>3. /\ DOMAIN step.rows = 1 .. Len(step.rows) /\ step.at \in Nat /\ Len(step.rows) \in Nat
      /\ IsInjective(step.rows) /\ step.rows \in Seq(Seqs) /\ status \in [Seqs -> Statuses]
  BY <1>2, BatchTypes DEF SchedInv, RowsInv, Sampling
<1>4. RowsLeft' = RowsLeft
  <2>1. \A i \in DOMAIN step.rows : i \in Nat /\ (i > step.at <=> i >= step.at + 1)
    BY <1>3
  <2>. QED
    BY <1>1, <2>1 DEF RowsLeft
<1>5. Range(running') \subseteq Range(step'.rows)
  <2>1. Range(running) \subseteq Range(step.rows)
    BY <1>2 DEF ReadyInv
  <2>. QED
    BY <1>1, <2>1
<1>6. \A i \in DOMAIN step.rows : status'[step.rows[i]] = "RUNNING" => status[step.rows[i]] = "RUNNING"
  <2>1. \A i \in DOMAIN step.rows : step.rows[i] \in Seqs
    BY <1>3
  <2>. QED
    BY <1>1, <1>3, <2>1
<1>. QED
  BY <1>1, <1>2, <1>4, <1>5, <1>6 DEF ReadyInv, SeqLen, ContextEnd

LEMMA ReadyAdvance ==
    ASSUME SchedInv, UnsampledInv, ReadyInv, Undisturbed, AdvanceBatch
    PROVE  ReadyInv'
<1>1. /\ pc = "advance" /\ pc' = "idle" /\ UNCHANGED <<status, num_prompt_tokens, token_ids>>
      /\ \A s \in Seqs : status[s] = "RUNNING" => num_cached_tokens'[s] = ContextEnd(s)
      /\ \A s \in Range(Scheduled) :
             status[s] = "FINISHED" \/ (status[s] = "RUNNING" /\ ContextEnd(s) < SeqLen(s))
      /\ Range(Scheduled) = Range(step.prefill) \cup Range(step.decode)
      /\ Range(Scheduled) \subseteq Seqs
      /\ Range(running') = Range(running) \cup
            {s \in Range(step.prefill) :
               Unfinished(s) /\ ContextEnd(s) >= num_prompt_tokens[s] /\ s \notin Range(running)}
  BY AdvanceFacts
<1>2. Sampling /\ ~Sampling' /\ step.at > Len(step.rows)
  BY <1>1 DEF Sampling, SchedInv, RowsInv
<1>3. RowsLeft = {}
  <2>1. \A i \in DOMAIN step.rows : i \in Nat /\ i <= Len(step.rows) /\ Len(step.rows) \in Nat
        /\ step.at \in Nat
    <3>1. step.rows \in Seq(Seqs) /\ step.at \in Nat /\ Len(step.rows) \in Nat
      BY BatchTypes
    <3>. QED
      BY <3>1
  <2>. QED
    BY <1>1, <1>2, <2>1 DEF RowsLeft
<1>4. ASSUME NEW s \in Range(running') PROVE DecodeReady(s)'
  <2>1. s \in Seqs /\ status[s] = "RUNNING"
    <3>1. CASE s \in Range(running)
      <4>1. running \in Seq(Seqs)
        BY BatchTypes
      <4>. QED
        BY <3>1, <4>1 DEF SchedInv, QueueInv, Range
    <3>2. CASE s \notin Range(running)
      BY <1>1, <1>4, <3>2 DEF Unfinished
    <3>. QED
      BY <3>1, <3>2
  <2>2. ContextEnd(s) \in Nat /\ SeqLen(s) \in Nat /\ num_prompt_tokens[s] \in Nat
    BY <2>1, CountTypes
  <2>3. s \in Range(step.rows)
    <3>1. CASE s \in Range(running)
      BY <1>2, <3>1 DEF ReadyInv
    <3>2. CASE s \notin Range(running)
      <4>1. ContextEnd(s) >= num_prompt_tokens[s] /\ ContextEnd(s) < SeqLen(s)
        BY <1>1, <1>4, <2>1, <3>2
      <4>2. ~Unsampled(s)
        BY <2>1, <2>2, <4>1 DEF UnsampledInv
      <4>. QED
        BY <2>1, <3>2, <4>2 DEF Unsampled
    <3>. QED
      BY <3>1, <3>2
  <2>4. PICK i \in DOMAIN step.rows : step.rows[i] = s
    BY <2>3 DEF Range
  <2>5. SeqLen(s) = ContextEnd(s) + 1
    BY <1>2, <1>3, <2>1, <2>4 DEF ReadyInv
  <2>6. num_cached_tokens'[s] = ContextEnd(s) /\ SeqLen(s)' = SeqLen(s)
    BY <1>1, <2>1 DEF SeqLen
  <2>. QED
    BY <2>2, <2>5, <2>6 DEF DecodeReady
<1>. QED
  BY <1>2, <1>4 DEF ReadyInv

LEMMA NextReady ==
    ASSUME SchedInv, ReachInv, CollectorInv, ReadyInv, [MetricsNext]_allVars
    PROVE  ReadyInv'
<1>. SUFFICES ASSUME Undisturbed' PROVE ReadyInv'
  BY DEF ReadyInv
<1>a. On' /\ totals'.preemptions = 0 /\ MetricsTypeOK /\ StartInv /\ UnsampledInv
  BY DEF Undisturbed, CollectorInv
<1>1. CASE Install
  <2>1. running' = <<>> /\ pc' = "idle"
    BY <1>1 DEF Install, NothingStarted, At, vars, schedVars
  <2>. QED
    BY <2>1 DEF ReadyInv, Sampling, Range
<1>2. CASE On /\ UNCHANGED allVars
  BY <1>2 DEF ReadyInv, Undisturbed, Sampling, DecodeReady, RowsLeft, SeqLen, ContextEnd, allVars, metricVars,
              vars, schedVars, bmVars, seqVars
<1>3. CASE Measured
  <2>1. Undisturbed /\ (StartStep \/ Planning \/ Run \/ Postprocess \/ BlockManagerStep \/ ScheduleEnd)
    <3>1. On
      BY <1>3, MeasuredEngine
    <3>2. CASE CountPreemption
      <4>1. totals'.preemptions = totals.preemptions + 1 /\ totals.preemptions \in Nat
        BY <1>a, <3>2 DEF CountPreemption, MetricsTypeOK, Totals
      <4>. QED
        BY <1>a, <4>1
    <3>3. CASE CloseSchedule
      BY <1>a, <3>1, <3>3, CloseFacts DEF Undisturbed
    <3>. QED
      BY <1>3, <1>a, <3>1, <3>2, <3>3, MeasuredKinds DEF Undisturbed
  <2>2. CASE Run
    BY <2>1, <2>2, ReadyRun
  <2>3. CASE \E t \in Token : Sample(t)
    BY <2>1, <2>3, ReadySample
  <2>4. CASE Finish
    BY <2>1, <2>4, ReadyFinish
  <2>5. CASE AdvanceBatch
    BY <1>a, <2>1, <2>5, ReadyAdvance
  <2>6. CASE SampleEnd
    <3>1. /\ pc = "sample" /\ pc' = "advance" /\ UNCHANGED <<bmVars, schedVars, step>>
      BY <2>6 DEF SampleEnd, At, Goto
    <3>2. Sampling /\ Sampling' /\ RowsLeft' = RowsLeft
      BY <3>1 DEF Sampling, RowsLeft
    <3>. QED
      BY <2>1, <3>1, <3>2 DEF ReadyInv, SeqLen, ContextEnd, bmVars, seqVars, schedVars
  <2>7. CASE StartStep \/ Planning \/ ScheduleEnd \/ BlockManagerStep
    <3>1. /\ Range(running') \subseteq Range(running) /\ token_ids' = token_ids
          /\ Sampling' = Sampling
          /\ \A s \in Seqs : status[s] = "RUNNING" => num_cached_tokens'[s] = num_cached_tokens[s]
      BY <2>7, OtherSteps DEF Planning, Schedule
    <3>2. \A s \in Range(running) : s \in Seqs /\ status[s] = "RUNNING"
      <4>1. running \in Seq(Seqs)
        BY BatchTypes
      <4>. QED
        BY <4>1 DEF SchedInv, QueueInv, Range
    <3>3. CASE ~Sampling
      BY <2>1, <3>1, <3>2, <3>3 DEF ReadyInv, DecodeReady, SeqLen
    <3>4. CASE Sampling
      <4>1. BlockManagerStep
        BY <2>7, <3>4, PlanningFacts DEF StartStep, ScheduleEnd, At, Sampling, Processing
      <4>2. /\ UNCHANGED <<schedVars, pc, step, token_ids>>
            /\ \A s \in Seqs : status[s] = "RUNNING" =>
                 num_cached_tokens'[s] = num_cached_tokens[s] /\ num_new_tokens'[s] = num_new_tokens[s]
        BY <4>1, CallQuiet
      <4>3. status' = status /\ running' = running /\ RowsLeft' = RowsLeft
        BY <4>2 DEF schedVars, RowsLeft
      <4>4. \A i \in DOMAIN step.rows : step.rows[i] \in Seqs
        <5>1. step.rows \in Seq(Seqs)
          BY BatchTypes
        <5>. QED
          BY <5>1
      <4>. QED
        BY <2>1, <3>1, <3>4, <4>2, <4>3, <4>4 DEF ReadyInv, SeqLen, ContextEnd
    <3>. QED
      BY <3>3, <3>4
  <2>. QED
    BY <2>1, <2>2, <2>3, <2>4, <2>5, <2>6, <2>7 DEF Postprocess
<1>. QED
  BY <1>1, <1>2, <1>3, <1>a, OnSteps

-----------------------------------------------------------------------------
(* A step with nothing scheduled cannot happen                              *)

(* Prompts are those of the workload.                                       *)
FitsInv == \A s \in Seqs : \E p \in Prompts : num_prompt_tokens[s] = Len(p)

LEMMA InitFits ==
    ASSUME SchedInit
    PROVE  FitsInv
<1>1. /\ token_ids \in [Seqs -> Prompts]
      /\ num_prompt_tokens = [s \in Seqs |-> Len(token_ids[s])]
  BY DEF SchedInit, Init
<1>. QED
  BY <1>1 DEF FitsInv

LEMMA NextFits ==
    ASSUME FitsInv, [SchedNext]_vars
    PROVE  FitsInv'
BY PromptTokensStay DEF FitsInv

(* A request with only its prompt has at most NumBlocks blocks, and its       *)
(* uncached tokens fit a batch that may not be split.                       *)
LEMMA PromptFits ==
    ASSUME FitsInv, NEW s \in Seqs, SeqLen(s) = num_prompt_tokens[s], NEW n \in Nat, n <= SeqLen(s)
    PROVE  /\ CeilDiv(n, BlockSize) \in Nat /\ CeilDiv(n, BlockSize) <= NumBlocks
           /\ EnableChunked \/ n <= MaxNumBatchedTokens
<1>1. PICK p \in Prompts : num_prompt_tokens[s] = Len(p)
  BY DEF FitsInv
<1>2. Len(p) \in Nat /\ NumBlocks \in Nat /\ BlockSize \in Nat \ {0} /\ MaxNumBatchedTokens \in Nat
  BY BlockManagerAssumption, SchedulerAssumption
<1>3. PICK y \in Nat : y = NumBlocks * BlockSize
  BY <1>2, MulFacts
<1>4. n <= y /\ (EnableChunked \/ n <= MaxNumBatchedTokens)
  BY <1>1, <1>2, <1>3, WorkloadFits
<1>5. CeilDiv(n, BlockSize) \in Nat /\ (NumBlocks < CeilDiv(n, BlockSize) => y < n)
  BY <1>2, <1>3, CeilDivFacts
<1>. QED
  BY <1>2, <1>4, <1>5

(* When only one request holds blocks, the others are free.                  *)
LEMMA FreeCount ==
    ASSUME TypeOK, BlocksAccounted, NEW T \in Seq(BlockIds), IsInjective(T),
           \A b \in BlockIds : b \in Range(T) <=> Holders(b) # {}
    PROVE  Len(free_block_ids) + Len(T) = NumBlocks
<1> DEFINE F == Range(free_block_ids)
           H == Range(T)
<1>1. /\ IsFiniteSet(F) /\ Cardinality(F) = Len(free_block_ids)
      /\ IsFiniteSet(H) /\ Cardinality(H) = Len(T)
  BY InjectiveLength DEF TypeOK, BlocksAccounted
<1>2. F \cap H = {} /\ F \cup H = BlockIds
  <2>1. F \subseteq BlockIds /\ H \subseteq BlockIds
    BY DEF TypeOK, Range
  <2>2. \A b \in BlockIds : b \in F <=> Holders(b) = {}
    BY DEF BlocksAccounted, IsFree
  <2>. HIDE DEF F, H
  <2>3. \A b \in BlockIds : b \in H <=> Holders(b) # {}
    BY DEF H
  <2>. QED
    BY <2>1, <2>2, <2>3
<1>3. Cardinality(BlockIds) = NumBlocks
  <2>1. NumBlocks \in Nat
    BY BlockManagerAssumption
  <2>2. Cardinality(0 .. NumBlocks - 1) = IF 0 > NumBlocks - 1 THEN 0 ELSE (NumBlocks - 1) - 0 + 1
    BY <2>1, FS_Interval
  <2>. QED
    BY <2>1, <2>2 DEF BlockIds
<1>4. Cardinality(F \cup H) = Cardinality(F) + Cardinality(H) - Cardinality(F \cap H)
  BY <1>1, FS_Union
<1>5. Cardinality(F \cap H) = 0
  BY <1>2, FS_EmptySet
<1>6. PICK f \in Nat, t \in Nat : f = Len(free_block_ids) /\ t = Len(T)
  BY DEF TypeOK
<1>. HIDE DEF F, H
<1>7. Cardinality(BlockIds) = f + t - 0
  BY <1>1, <1>2, <1>4, <1>5, <1>6
<1>. QED
  BY <1>3, <1>6, <1>7

(* Outside a call, a request that neither runs nor is chunked holds nothing,  *)
(* when nobody is admitted.                                                 *)
LEMMA OthersFresh ==
    ASSUME SchedInv, call = NoCall, running = <<>>, step.prefill = <<>>, step.admitted = <<>>,
           NEW s \in Seqs, s # chunked_req
    PROVE  Fresh(s)
<1>1. QueueInv /\ HoldingInv /\ SchedTypeOK
  BY DEF SchedInv
<1>2. status[s] # "RUNNING"
  <2>1. Range(running) = {} /\ Range(step.prefill) = {}
    BY DEF Range
  <2>. QED
    BY <1>1, <2>1 DEF QueueInv
<1>3. status[s] \in Statuses
  BY <1>1 DEF SchedTypeOK
<1>4. ~Releasing(s) /\ DOMAIN step.admitted = {}
  BY DEF Releasing, NoCall
<1>. QED
  BY <1>1, <1>2, <1>3, <1>4 DEF HoldingInv, Statuses

(* A chunked request that alone holds blocks finds the blocks of its next     *)
(* chunk.                                                                  *)
LEMMA ChunkFits ==
    ASSUME SchedInv, UnsampledInv, Undisturbed, FitsInv, pc = "preempt", call = NoCall, running = <<>>,
           chunked_req # NoSeq, NEW n \in Nat, num_cached_tokens[chunked_req] + n <= SeqLen(chunked_req)
    PROVE  NumBlocksToAppend(chunked_req, n) <= Len(free_block_ids)
<1> DEFINE c == chunked_req
<1>a. /\ QueueInv /\ HoldingInv /\ TypeOK /\ BlocksAccounted /\ c \in Seqs /\ step = EmptyStep
  BY DEF SchedInv, SchedTypeOK, PhaseInv, EvictionInv, CallsInv, CacheInv, PoolInv
<1>1. step.prefill = <<>> /\ step.admitted = <<>>
  BY <1>a DEF EmptyStep
<1>2. status[c] = "RUNNING" /\ c \notin Range(running)
  BY <1>a DEF QueueInv
<1>. HIDE DEF c
<1>3. SeqLen(c) = num_prompt_tokens[c]
  BY <1>2, <1>a DEF UnsampledInv, Unsampled, Sampling
<1>4. PICK T \in Seq(BlockIds) : T = block_table[c] /\ IsInjective(T)
  BY <1>a DEF TypeOK, BlocksAccounted
<1>5. \A b \in BlockIds : b \in Range(T) <=> Holders(b) # {}
  <2>1. \A s \in Seqs : s # c => block_table[s] = <<>>
    BY <1>1, OthersFresh DEF c, Fresh
  <2>2. \A s \in Seqs, b \in BlockIds : s # c => b \notin Range(block_table[s])
    BY <2>1 DEF Range
  <2>. QED
    BY <1>4, <1>a, <2>2 DEF Holders
<1>6. PICK f \in Nat, t \in Nat : f = Len(free_block_ids) /\ t = Len(T) /\ f + t = NumBlocks
  <2>1. Len(free_block_ids) \in Nat /\ Len(T) \in Nat
    BY <1>a DEF TypeOK
  <2>. QED
    BY <1>4, <1>5, <1>a, <2>1, FreeCount
<1>7. PICK k \in Nat : k = CeilDiv(num_cached_tokens[c] + n, BlockSize) /\ k <= NumBlocks
  <2>1. num_cached_tokens[c] + n \in Nat /\ num_cached_tokens[c] + n <= SeqLen(c)
    BY <1>a DEF TypeOK, c
  <2>. QED
    BY <1>3, <1>a, <2>1, PromptFits
<1>8. NumBlocksToAppend(c, n) = IF k - t > 0 THEN k - t ELSE 0
  BY <1>4, <1>6, <1>7 DEF NumBlocksToAppend
<1>9. NumBlocksToAppend(c, n) <= f
  BY <1>6, <1>7, <1>8
<1>. QED
  BY <1>6, <1>9 DEF c

(* A ranking of requests that wait is not empty.                             *)
LEMMA RankSome ==
    ASSUME waiting \in Seq(Seqs), waiting # <<>>, NEW initial
    PROVE  RankWaiting(initial) # <<>>
<1>1. DOMAIN RankWaiting(initial) = DOMAIN waiting
  BY DEF RankWaiting
<1>2. 1 \in DOMAIN waiting
  OBVIOUS
<1>. QED
  BY <1>1, <1>2

(* A plan without decode rows and without a chunk ranks what waits, with the  *)
(* whole budget and every block to give.                                    *)
LEMMA PlanNothing ==
    ASSUME SchedInv, UnsampledInv, Undisturbed, FitsInv, PlanStep, ~IsFinished,
           step'.decode = <<>>, step'.chunk = NoSeq
    PROVE  /\ chunked_req = NoSeq /\ step'.ranked # <<>>
           /\ step'.token_budget = MaxNumBatchedTokens
           /\ step'.active = 0 /\ step'.reserved = 0
           /\ step'.free_budget = Len(free_block_ids)
<1>a. /\ QueueInv /\ TokensInv /\ TypeOK
      /\ waiting \in Seq(Seqs) /\ running \in Seq(Seqs) /\ chunked_req \in Seqs \cup {NoSeq}
  BY BatchTypes DEF SchedInv, EvictionInv, CallsInv, CacheInv, PoolInv
<1>1. pc = "preempt" /\ call = NoCall
  BY DEF PlanStep, At
<1>2. PICK T \in Nat, F \in Nat, n \in Nat :
          /\ T + Len(running) = MaxNumBatchedTokens /\ F + DecodeBlocks = Len(free_block_ids)
          /\ n # 0 => chunked_req # NoSeq
          /\ step'.decode = running /\ step'.reserved = DecodeBlocks
          /\ step'.token_budget = T - n /\ step'.chunk_tokens = n
          /\ step'.free_budget = F - (IF n = 0 THEN 0 ELSE NumBlocksToAppend(chunked_req, n))
          /\ step'.chunk = (IF n = 0 THEN NoSeq ELSE chunked_req)
          /\ step'.active = Len(running) + Chunked
  BY PlanShape
<1>3. running = <<>> /\ n = 0 /\ Len(running) = 0
  BY <1>2
<1>4. DecodeBlocks = 0
  <2>1. Range(running) = {}
    BY <1>3 DEF Range
  <2>2. [s \in Seqs |-> IF s \in Range(running) THEN NumBlocksToAppend(s, 1) ELSE 0] = [s \in Seqs |-> 0]
    BY <2>1
  <2>. QED
    BY <2>2, TotalZero DEF DecodeBlocks, BlocksDue
<1>5. T = MaxNumBatchedTokens /\ F = Len(free_block_ids) /\ T - n = T /\ T \in Nat \ {0}
  BY <1>2, <1>3, <1>4, SchedulerAssumption
<1> DEFINE tokens == MaxNumBatchedTokens - Len(running)
           free == Len(free_block_ids) - DecodeBlocks
           share == ChunkTokens(tokens, free)
           pauses == chunked_req # NoSeq /\
                (share = 0 \/ share < SeqLen(chunked_req) - num_cached_tokens[chunked_req])
           ranks == ~pauses /\ waiting # <<>> /\ tokens - share > 0
           initial == [s \in Seqs |->
                IF ranks /\ s \in Range(waiting) THEN MatchPrefix(s) ELSE <<>>]
           ranked == IF ranks THEN RankWaiting(initial) ELSE <<>>
<1>6. step'.chunk_tokens = share /\ step'.ranked = ranked
  BY DEF PlanStep, EmptyStep
<1>7. tokens = T /\ free = F
  BY <1>3, <1>4, <1>5
<1>8. share = 0
  BY <1>2, <1>3, <1>6
<1>9. chunked_req = NoSeq
  <2>. SUFFICES ASSUME chunked_req # NoSeq PROVE FALSE
    OBVIOUS
  <2>1. PICK l \in Nat, c \in Nat : l = SeqLen(chunked_req) /\ c = num_cached_tokens[chunked_req] /\ c < l
    BY <1>a, BlockManagerAssumption DEF QueueInv, TokensInv, TypeOK
  <2>2. PICK m \in Nat : m = MinOf(l - c, T) /\ m # 0 /\ c + m <= l
    <3>1. MinOf(l - c, T) \in Nat /\ MinOf(l - c, T) # 0 /\ c + MinOf(l - c, T) <= l
      BY <1>5, <2>1 DEF MinOf
    <3>. QED
      BY <3>1
  <2>3. share = IF NumBlocksToAppend(chunked_req, m) > F THEN 0 ELSE m
    BY <1>7, <2>1, <2>2 DEF ChunkTokens
  <2>4. NumBlocksToAppend(chunked_req, m) \in Nat
    <3>1. NumBlocksToAppend(chunked_req, m) \in 0 .. MaxLen
      BY <1>a, <2>1, <2>2, AppendType
    <3>. QED
      BY <3>1, BlockManagerAssumption
  <2>5. NumBlocksToAppend(chunked_req, m) <= F
    BY <1>1, <1>3, <1>5, <2>1, <2>2, ChunkFits
  <2>. HIDE DEF share
  <2>. QED
    BY <1>8, <2>2, <2>3, <2>4, <2>5
<1>10. ranks
  <2>1. waiting # <<>>
    BY <1>3, <1>9 DEF IsFinished
  <2>. HIDE DEF share, tokens
  <2>. QED
    BY <1>5, <1>7, <1>8, <1>9, <2>1
<1>11. step'.ranked # <<>>
  <2>1. waiting # <<>>
    BY <1>10
  <2>. HIDE DEF ranks, initial
  <2>2. RankWaiting(initial) # <<>>
    BY <1>a, <2>1, RankSome
  <2>. QED
    BY <1>6, <1>10, <2>2
<1>. QED
  BY <1>2, <1>3, <1>4, <1>5, <1>9, <1>11 DEF Chunked

(* Nothing is in the batch, nobody holds a block, and nothing is taken from    *)
(* the budgets.                                                            *)
NothingTaken ==
    /\ call = NoCall /\ running = <<>> /\ chunked_req = NoSeq
    /\ step.prefill = <<>> /\ step.admitted = <<>>
    /\ step.token_budget = MaxNumBatchedTokens /\ step.active = 0

(* Then the head of the ranking passes the checks of an admission.            *)
LEMMA HeadPasses ==
    ASSUME SchedInv, UnsampledInv, Undisturbed, FitsInv, NothingTaken,
           pc \in {"commit", "freeze"}, step.ranked # <<>>,
           NEW plan \in Seq(BlockIds), PlanIsCurrent(Head(step.ranked), plan)
    PROVE  LET s == Head(step.ranked) IN
           /\ step.active + Len(step.admitted) < MaxNumSeqs
           /\ EnableChunked \/ Uncached(s, plan) <= step.token_budget
           /\ NewTokens(s, plan) > 0
           /\ CeilDiv(NewTokens(s, plan), BlockSize) \in Nat
           /\ Len(plan) + CeilDiv(NewTokens(s, plan), BlockSize) <= Len(free_block_ids)
<1> DEFINE s == Head(step.ranked)
<1>a. TypeOK /\ BlocksAccounted
  BY DEF SchedInv, EvictionInv, CallsInv, CacheInv, PoolInv
<1>b. BlockSize \in Nat \ {0} /\ NumBlocks \in Nat /\ MaxNumSeqs \in Nat \ {0} /\ MaxNumBatchedTokens \in Nat \ {0}
  BY BlockManagerAssumption, SchedulerAssumption
<1>1. s \in Seqs /\ status[s] = "WAITING" /\ Fresh(s)
  BY HeadFacts DEF NothingTaken
<1>. HIDE DEF s
<1>2. PICK l \in Nat, P \in Nat : l = SeqLen(s) /\ P = Len(plan)
  BY <1>1, <1>a DEF TypeOK
<1>3. l = num_prompt_tokens[s]
  BY <1>1, <1>2 DEF UnsampledInv, Unsampled
<1>4. PICK x \in Nat : x = P * BlockSize /\ x < l
  <2>1. P * BlockSize \in Nat
    BY <1>b, <1>2, MulFacts
  <2>2. CASE P = 0
    <3>1. l >= 1
      BY <1>1, <1>2, <1>a DEF TypeOK
    <3>2. P * BlockSize = 0
      BY <1>b, <2>2
    <3>. QED
      BY <3>1, <3>2
  <2>3. CASE P # 0
    <3>1. P \in 1 .. Len(plan) /\ Len(block_table[s]) = 0
      BY <1>1, <1>2, <2>3 DEF Fresh
    <3>2. Len(block_table[s]) + P < NumSeqBlocks(s)
      BY <1>2, <3>1 DEF PlanIsCurrent, s
    <3>3. P < CeilDiv(l, BlockSize)
      BY <1>2, <3>1, <3>2 DEF NumSeqBlocks
    <3>. QED
      BY <1>b, <1>2, <2>1, <3>3, CeilDivFacts
  <2>. QED
    BY <2>2, <2>3
<1>5. PICK u \in Nat \ {0} : u = Uncached(s, plan) /\ x + u = l
  <2>1. Uncached(s, plan) = l - 0 - x
    BY <1>1, <1>2, <1>4 DEF Uncached, Fresh
  <2>. QED
    BY <1>4, <2>1
<1>6. PICK n \in Nat \ {0} : n = NewTokens(s, plan) /\ n <= u
  <2>1. NewTokens(s, plan) = MinOf(u, MaxNumBatchedTokens)
    BY <1>5 DEF NewTokens, NothingTaken
  <2>2. MinOf(u, MaxNumBatchedTokens) \in Nat \ {0} /\ MinOf(u, MaxNumBatchedTokens) <= u
    BY <1>b DEF MinOf
  <2>. QED
    BY <2>1, <2>2
<1>7. EnableChunked \/ u <= MaxNumBatchedTokens
  <2>1. u \in Nat /\ u <= SeqLen(s)
    BY <1>2, <1>4, <1>5
  <2>2. SeqLen(s) = num_prompt_tokens[s]
    BY <1>2, <1>3
  <2>. QED
    BY <1>1, <2>1, <2>2, PromptFits
<1>8. PICK k \in Nat : k = CeilDiv(n, BlockSize) /\ P + k <= NumBlocks
  <2>1. /\ CeilDiv(n, BlockSize) \in Nat /\ CeilDiv(x + n, BlockSize) \in Nat
        /\ CeilDiv(n, BlockSize) + P <= CeilDiv(x + n, BlockSize)
    BY <1>b, <1>2, <1>4, <1>6, WholeBlocks
  <2>2. x + n \in Nat /\ x + n <= SeqLen(s)
    BY <1>2, <1>4, <1>5, <1>6
  <2>3. CeilDiv(x + n, BlockSize) <= NumBlocks
    BY <1>1, <1>2, <1>3, <2>2, PromptFits
  <2>. QED
    BY <1>b, <2>1, <2>3
<1>9. Len(free_block_ids) = NumBlocks
  <2>1. \A q \in Seqs : block_table[q] = <<>>
    <3>1. \A q \in Seqs : q # chunked_req
      BY SchedulerAssumption DEF NothingTaken
    <3>. QED
      BY <3>1, OthersFresh DEF Fresh, NothingTaken
  <2>2. \A b \in BlockIds : Holders(b) = {}
    BY <2>1 DEF Holders, Range
  <2>3. <<>> \in Seq(BlockIds) /\ IsInjective(<<>>) /\ Range(<<>>) = {} /\ Len(<<>>) = 0
    BY DEF IsInjective, Range
  <2>4. Len(free_block_ids) + Len(<<>>) = NumBlocks
    BY <1>a, <2>2, <2>3, FreeCount
  <2>5. Len(free_block_ids) \in Nat
    BY <1>a DEF TypeOK
  <2>. QED
    BY <2>3, <2>4, <2>5
<1>10. step.active + Len(step.admitted) < MaxNumSeqs
  BY <1>b DEF NothingTaken
<1>11. step.token_budget = MaxNumBatchedTokens
  BY DEF NothingTaken
<1>. QED
  BY <1>2, <1>5, <1>6, <1>7, <1>8, <1>9, <1>10, <1>11 DEF s

(* Either loop of admission takes it.                                       *)
LEMMA HeadIsAdmitted ==
    ASSUME SchedInv, UnsampledInv, Undisturbed, FitsInv, NothingTaken, step.ranked # <<>>
    PROVE  /\ pc = "commit" => CommitFits(Head(step.ranked))
           /\ pc = "freeze" /\ step.free_budget = Len(free_block_ids) => FreezeFits(Head(step.ranked))
<1> DEFINE s == Head(step.ranked)
<1>a. TypeOK /\ CommittedInv
  BY DEF SchedInv, EvictionInv, CallsInv, CacheInv, PoolInv
<1>b. Len(free_block_ids) \in Nat
  BY <1>a DEF TypeOK
<1>1. ASSUME NEW plan \in Seq(BlockIds), PlanIsCurrent(s, plan)
      PROVE  /\ IsInjective(plan) /\ IsFiniteSet(Range(plan))
             /\ Cardinality(Range(plan)) = Len(plan) /\ Len(plan) \in Nat
  <2>1. \A i, j \in 1 .. Len(plan) : i # j => plan[i] # plan[j]
    BY <1>1 DEF PlanIsCurrent
  <2>2. IsInjective(plan)
    BY <1>1, <2>1 DEF IsInjective
  <2>. QED
    BY <1>1, <2>2, InjectiveLength
<1>2. ASSUME pc = "commit" PROVE CommitFits(s)
  <2>1. s \in Seqs /\ Fresh(s)
    BY <1>2, HeadFacts DEF NothingTaken
  <2>2. PICK plan \in Seq(BlockIds) : plan = MatchPrefix(s) /\ PlanIsCurrent(s, plan)
    BY <1>a, <2>1, MatchIsCurrent
  <2>3. PICK k \in Nat : k = CeilDiv(NewTokens(s, plan), BlockSize)
    BY <1>2, <2>2, HeadPasses
  <2>4. /\ step.active + Len(step.admitted) < MaxNumSeqs
        /\ EnableChunked \/ Uncached(s, plan) <= step.token_budget
        /\ NewTokens(s, plan) > 0
        /\ Len(plan) + k <= Len(free_block_ids)
    BY <1>2, <2>2, <2>3, HeadPasses
  <2>5. PICK F \in Nat : F = Cardinality({b \in Range(plan) : IsFree(b)}) /\ F <= Len(plan)
    <3>1. Cardinality({b \in Range(plan) : IsFree(b)}) \in Nat
      BY <1>1, <1>a, <2>2, FreeInPlan
    <3>2. Cardinality({b \in Range(plan) : IsFree(b)}) <= Cardinality(Range(plan))
      BY <1>1, <2>2, FS_Subset
    <3>. QED
      BY <1>1, <2>2, <3>1, <3>2
  <2>6. NumBlocksForAdmission(plan, NewTokens(s, plan)) = F + k
    <3>1. IsInjective(plan)
      BY <1>1, <2>2
    <3>2. F = Cardinality({i \in 1 .. Len(plan) : IsFree(plan[i])})
      BY <1>a, <2>5, <3>1, FreeInPlan
    <3>. QED
      BY <2>3, <3>2 DEF NumBlocksForAdmission
  <2>7. step.reserved = 0
    <3>1. step.reserved = DecodeBlocks
      BY <1>2 DEF SchedInv, ReserveInv, Scheduling
    <3>2. Range(running) = {}
      BY DEF NothingTaken, Range
    <3>3. [q \in Seqs |-> IF q \in Range(running) THEN NumBlocksToAppend(q, 1) ELSE 0] = [q \in Seqs |-> 0]
      BY <3>2
    <3>. QED
      BY <3>1, <3>3, TotalZero DEF DecodeBlocks, BlocksDue
  <2>8. F + k <= Len(free_block_ids) - 0 /\ Len(free_block_ids) - 0 = AvailableBlocks
    <3>1. Len(plan) \in Nat
      BY <2>2
    <3>. QED
      BY <1>b, <2>4, <2>5, <2>7, <3>1 DEF AvailableBlocks
  <2>. HIDE DEF s
  <2>. QED
    BY <2>2, <2>4, <2>6, <2>8 DEF CommitFits, Admissible
<1>3. ASSUME pc = "freeze", step.free_budget = Len(free_block_ids) PROVE FreezeFits(s)
  <2>1. s \in Seqs /\ s = step.ranked[1] /\ 1 \in DOMAIN step.ranked
    <3>1. step.ranked \in Seq(Seqs)
      BY BatchTypes
    <3>. QED
      BY <1>3, <3>1, HeadFacts DEF NothingTaken
  <2>2. PICK plan \in Seq(BlockIds) : plan = step.initial[s] /\ PlanIsCurrent(s, plan)
    <3>1. step.initial \in [Seqs -> Seq(BlockIds)]
      BY DEF SchedInv, SchedTypeOK, Step
    <3>2. PlanIsCurrent(s, step.initial[s])
      BY <1>3, <2>1 DEF SchedInv, PlansInv
    <3>3. step.initial[s] \in Seq(BlockIds)
      BY <2>1, <3>1
    <3>. QED
      BY <3>2, <3>3
  <2>3. PICK k \in Nat : k = CeilDiv(NewTokens(s, plan), BlockSize)
    BY <1>3, <2>2, HeadPasses
  <2>4. /\ step.active + Len(step.admitted) < MaxNumSeqs
        /\ EnableChunked \/ Uncached(s, plan) <= step.token_budget
        /\ NewTokens(s, plan) > 0
        /\ Len(plan) + k <= Len(free_block_ids)
    BY <1>3, <2>2, <2>3, HeadPasses
  <2>5. PICK F \in Nat :
            F = Cardinality({b \in Range(plan) : IsFree(b) /\ b \notin Protected}) /\ F <= Len(plan)
    <3>1. /\ IsFiniteSet({b \in Range(plan) : IsFree(b) /\ b \notin Protected})
          /\ Cardinality({b \in Range(plan) : IsFree(b) /\ b \notin Protected}) <= Cardinality(Range(plan))
      BY <1>1, <2>2, FS_Subset
    <3>2. Cardinality({b \in Range(plan) : IsFree(b) /\ b \notin Protected}) \in Nat
      BY <3>1, FS_CardinalityType
    <3>. QED
      BY <1>1, <2>2, <3>1, <3>2
  <2>. HIDE DEF s
  <2>6. FreezeTaken(s) = F + k
    BY <2>2, <2>3, <2>5 DEF FreezeTaken
  <2>7. F + k <= step.free_budget
    <3>1. Len(plan) \in Nat
      BY <2>2
    <3>. QED
      BY <1>3, <1>b, <2>4, <2>5, <3>1
  <2>. QED
    BY <2>2, <2>4, <2>6, <2>7 DEF FreezeFits, Admissible
<1>. QED
  BY <1>2, <1>3

(* As long as nothing was preempted: schedule() is called with work to do, and *)
(* while it has scheduled nothing it has everything to give to a request of *)
(* its ranking.                                                            *)
NothingYet == step.decode = <<>> /\ step.chunk = NoSeq /\ step.admitted = <<>>
ProgressInv ==
    Undisturbed =>
        /\ pc = "preempt" => ~IsFinished
        /\ Scheduling /\ NothingYet =>
            /\ pc \in {"chunk", "commit", "freeze"} /\ (pc = "chunk" => SameStep)
            /\ chunked_req = NoSeq /\ step.ranked # <<>>
            /\ step.token_budget = MaxNumBatchedTokens /\ step.active = 0
            /\ step.reserved = 0 /\ step.free_budget = Len(free_block_ids)

LEMMA YetNothingTaken ==
    ASSUME SchedInv, ProgressInv, Undisturbed, Scheduling, NothingYet
    PROVE  /\ NothingTaken /\ step.ranked # <<>>
           /\ pc \in {"chunk", "commit", "freeze"} /\ (pc = "chunk" => SameStep)
           /\ step.free_budget = Len(free_block_ids)
<1>a. PhaseInv /\ DecodeInv /\ PrefillInv /\ InBatch
  BY DEF SchedInv, InBatch
<1>1. /\ pc \in {"chunk", "commit", "freeze"} /\ (pc = "chunk" => SameStep)
      /\ chunked_req = NoSeq /\ step.ranked # <<>>
      /\ step.token_budget = MaxNumBatchedTokens /\ step.active = 0
      /\ step.free_budget = Len(free_block_ids)
  BY DEF ProgressInv
<1>2. running = <<>> /\ step.admitted = <<>>
  BY <1>a DEF DecodeInv, NothingYet
<1>3. step.prefill = <<>>
  <2>1. step.prefill \in Seq(Seqs)
    BY BatchTypes
  <2>2. Len(step.prefill) = ChunkRows + Allocated
    BY <1>a DEF PrefillInv
  <2>3. ChunkRows = 0 /\ Allocated = 0
    BY <1>1, <1>2 DEF ChunkRows, Allocated, NothingYet
  <2>. QED
    BY <2>1, <2>2, <2>3
<1>4. call = NoCall
  <2>1. call \in Calls
    BY DEF SchedInv, SchedTypeOK, TypeOK
  <2>2. call.op \notin {"claim", "fill", "release"}
    BY <1>1, <1>3, <1>a DEF PhaseInv
  <2>. QED
    BY <2>1, <2>2 DEF Calls
<1>. QED
  BY <1>1, <1>2, <1>3, <1>4 DEF NothingTaken

LEMMA NextProgress ==
    ASSUME SchedInv, CollectorInv, FitsInv, ProgressInv, [MetricsNext]_allVars
    PROVE  ProgressInv'
<1>. SUFFICES ASSUME Undisturbed' PROVE ProgressInv'
  BY DEF ProgressInv
<1>a. On' /\ totals'.preemptions = 0 /\ MetricsTypeOK /\ UnsampledInv
  BY DEF Undisturbed, CollectorInv
<1>1. CASE Install
  <2>1. pc' = "idle"
    BY <1>1 DEF Install, NothingStarted, At, vars
  <2>. QED
    BY <2>1 DEF ProgressInv, Scheduling
<1>2. CASE On /\ UNCHANGED allVars
  BY <1>2 DEF ProgressInv, Undisturbed, Scheduling, NothingYet, IsFinished, allVars, metricVars,
              vars, schedVars, bmVars, poolVars
<1>3. CASE Measured
  <2>1. Undisturbed /\ (StartStep \/ Planning \/ Run \/ Postprocess \/ BlockManagerStep \/ ScheduleEnd)
    <3>1. On
      BY <1>3, MeasuredEngine
    <3>2. CASE CountPreemption
      <4>1. totals'.preemptions = totals.preemptions + 1 /\ totals.preemptions \in Nat
        BY <1>a, <3>2 DEF CountPreemption, MetricsTypeOK, Totals
      <4>. QED
        BY <1>a, <4>1
    <3>3. CASE CloseSchedule
      BY <1>a, <3>1, <3>3, CloseFacts DEF Undisturbed
    <3>. QED
      BY <1>3, <1>a, <3>1, <3>2, <3>3, MeasuredKinds DEF Undisturbed
  <2>2. CASE StartStep
    <3>1. pc' = "preempt" /\ ~IsFinished /\ UNCHANGED <<waiting, running, chunked_req>>
      BY <2>2 DEF StartStep, Goto, schedVars
    <3>. QED
      BY <3>1 DEF ProgressInv, Scheduling, IsFinished
  <2>3. CASE Run \/ Postprocess \/ ScheduleEnd
    <3>1. pc' \in {"run", "sample", "stop", "advance", "idle"}
      BY <2>3 DEF Run, Postprocess, Sample, Finish, SampleEnd, AdvanceBatch, ScheduleEnd, At, Goto
    <3>. QED
      BY <3>1 DEF ProgressInv, Scheduling
  <2>4. CASE BlockManagerStep
    <3>1. UNCHANGED <<schedVars, pc, step>> /\ call # NoCall
      <4>1. UNCHANGED <<schedVars, pc, step>> /\ CallStep
        BY <2>4 DEF BlockManagerStep
      <4>2. call.op = "claim" \/ call.op = "fill" \/ call.op = "release"
        BY <4>1 DEF CallStep, ClaimBlock, FillBlock, ReleaseBlock
      <4>3. NoCall.op = "none"
        BY DEF NoCall
      <4>. QED
        BY <4>1, <4>2, <4>3
    <3>2. ~(Scheduling /\ NothingYet)
      BY <2>1, <3>1, YetNothingTaken DEF NothingTaken
    <3>. QED
      BY <2>1, <3>1, <3>2 DEF ProgressInv, Scheduling, NothingYet, IsFinished, schedVars
  <2>5. CASE PlanStep
    <3>1. pc = "preempt" /\ UNCHANGED <<free_block_ids, chunked_req>>
          /\ pc' = IF SameStep THEN "chunk" ELSE "freeze"
      BY <2>5 DEF PlanStep, At, Goto, bmVars, poolVars, schedVars
    <3>2. ~IsFinished
      BY <2>1, <3>1 DEF ProgressInv
    <3>3. ASSUME NothingYet'
          PROVE  /\ chunked_req = NoSeq /\ step'.ranked # <<>>
                 /\ step'.token_budget = MaxNumBatchedTokens
                 /\ step'.active = 0 /\ step'.reserved = 0
                 /\ step'.free_budget = Len(free_block_ids)
      BY <1>a, <2>1, <2>5, <3>2, <3>3, PlanNothing DEF NothingYet
    <3>. QED
      BY <3>1, <3>3 DEF ProgressInv
  <2>6. CASE ChunkAppend
    <3>. SUFFICES ASSUME NothingYet' PROVE ProgressInv'
      <4>1. pc' # "preempt"
        BY <2>6 DEF ChunkAppend, Goto
      <4>. QED
        BY <4>1 DEF ProgressInv
    <3>1. pc = "chunk" /\ Scheduling /\ UNCHANGED schedVars
          /\ pc' = IF SameStep THEN "commit" ELSE "allocate"
      BY <2>6 DEF ChunkAppend, At, Goto, Scheduling
    <3>2. CASE step.chunk = NoSeq
      <4>1. UNCHANGED <<bmVars, step>>
        BY <2>6, <3>2 DEF ChunkAppend
      <4>2. NothingYet
        BY <4>1 DEF NothingYet
      <4>. QED
        BY <2>1, <3>1, <4>1, <4>2 DEF ProgressInv, schedVars, bmVars, poolVars
    <3>3. CASE step.chunk # NoSeq
      <4>1. step' = [step EXCEPT !.prefill = <<step.chunk>>] /\ step \in Step
        BY <2>6, <3>3 DEF ChunkAppend, SchedInv, SchedTypeOK
      <4>2. step'.chunk = step.chunk
        BY <4>1 DEF Step
      <4>. QED
        BY <3>3, <4>2 DEF NothingYet
    <3>. QED
      BY <3>2, <3>3
  <2>7. CASE CommitEnd \/ FreezeEnd
    <3>. SUFFICES ASSUME NothingYet' PROVE FALSE
      <4>1. pc' # "preempt"
        BY <2>7 DEF CommitEnd, FreezeEnd, Goto
      <4>. QED
        BY <4>1 DEF ProgressInv
    <3>1. Scheduling /\ step' = step
      BY <2>7 DEF CommitEnd, FreezeEnd, At, Scheduling
    <3>2. NothingYet
      BY <3>1 DEF NothingYet
    <3>3. NothingTaken /\ step.ranked # <<>> /\ step.free_budget = Len(free_block_ids)
      BY <2>1, <3>1, <3>2, YetNothingTaken
    <3>4. /\ pc = "commit" => CommitFits(Head(step.ranked))
          /\ pc = "freeze" => FreezeFits(Head(step.ranked))
      BY <1>a, <2>1, <3>3, HeadIsAdmitted
    <3>. QED
      BY <2>7, <3>3, <3>4 DEF CommitEnd, FreezeEnd, At
  <2>8. CASE CommitClaim \/ Freeze
    <3>1. PICK x : step'.admitted = Append(step.admitted, x)
      <4>1. step \in Step
        BY DEF SchedInv, SchedTypeOK
      <4>. QED
        BY <2>8, <4>1 DEF CommitClaim, Freeze, Step
    <3>2. step'.admitted # <<>>
      <4>1. Len(step.admitted) \in Nat
        BY BatchTypes
      <4>. QED
        BY <3>1, <4>1
    <3>3. pc' # "preempt"
      BY <2>8 DEF CommitClaim, Freeze, At, Goto
    <3>. QED
      BY <3>2, <3>3 DEF ProgressInv, NothingYet
  <2>9. CASE CommitAllocate \/ FrozenClaim \/ FrozenAllocate \/ DecodeAppend
    <3>. SUFFICES ASSUME NothingYet' PROVE FALSE
      <4>1. pc' # "preempt"
        BY <2>9 DEF CommitAllocate, FrozenClaim, FrozenAllocate, DecodeAppend, At, Goto
      <4>. QED
        BY <4>1 DEF ProgressInv
    <3>1. Scheduling /\ pc \in {"admit", "claim", "allocate", "decode"}
      BY <2>9 DEF CommitAllocate, FrozenClaim, FrozenAllocate, DecodeAppend, At, Scheduling
    <3>2. UNCHANGED <<step.decode, step.chunk, step.admitted>>
      <4>1. step \in Step
        BY DEF SchedInv, SchedTypeOK
      <4>. QED
        BY <2>9, <4>1 DEF CommitAllocate, FrozenClaim, FrozenAllocate, DecodeAppend, Step
    <3>3. NothingYet
      BY <3>2 DEF NothingYet
    <3>. QED
      BY <2>1, <3>1, <3>3, YetNothingTaken
  <2>. QED
    BY <2>1, <2>2, <2>3, <2>4, <2>5, <2>6, <2>7, <2>8, <2>9 DEF Planning
<1>. QED
  BY <1>1, <1>2, <1>3, <1>a, OnSteps

-----------------------------------------------------------------------------
(* The verdict                                                             *)

LEMMA SumCounted ==
    ASSUME MetricsTypeOK, RowSums
    PROVE  /\ [s \in Seqs |-> Counted(s)] \in [Seqs -> Nat]
           /\ totals.initial + totals.same_step + totals.computed
                = SumFunction([s \in Seqs |-> Counted(s)])
<1> DEFINE f == [s \in Seqs |-> rows[s].initial]
           g == [s \in Seqs |-> rows[s].same_step]
           h == [s \in Seqs |-> rows[s].computed]
           fg == [s \in Seqs |-> f[s] + g[s]]
<1>1. \A s \in Seqs : rows[s].initial \in Nat /\ rows[s].same_step \in Nat /\ rows[s].computed \in Nat
  BY CountedType
<1>2. f \in [Seqs -> Nat] /\ g \in [Seqs -> Nat] /\ h \in [Seqs -> Nat] /\ fg \in [Seqs -> Nat]
  BY <1>1
<1>3. [s \in Seqs |-> fg[s] + h[s]] = [s \in Seqs |-> Counted(s)]
  BY DEF Counted
<1>4. [s \in Seqs |-> Counted(s)] \in [Seqs -> Nat]
  BY CountedType
<1>. HIDE DEF f, g, h
<1>5. SumFunction(fg) = SumFunction(f) + SumFunction(g)
  BY <1>2, SumPlus
<1>. HIDE DEF fg
<1>6. SumFunction([s \in Seqs |-> fg[s] + h[s]]) = SumFunction(fg) + SumFunction(h)
  BY <1>2, SumPlus
<1>7. /\ totals.initial = SumFunction(f) /\ totals.same_step = SumFunction(g)
      /\ totals.computed = SumFunction(h)
  BY DEF RowSums, f, g, h
<1>. QED
  BY <1>3, <1>4, <1>5, <1>6, <1>7

(* When the engine has nothing left, every observed request is finished.     *)
LEMMA AllFinished ==
    ASSUME SchedInv, CollectorInv, On, At("idle"), IsFinished, NEW s \in observed
    PROVE  s \in Seqs /\ status[s] = "FINISHED" /\ Come(s) = num_prompt_tokens[s] /\ ~Processing
<1>1. s \in Seqs /\ status[s] # "new" /\ status[s] \in Statuses
  BY DEF CollectorInv, MetricsTypeOK, ObservedInv, SchedInv, SchedTypeOK
<1>2. Range(waiting) = {} /\ Range(running) = {} /\ chunked_req = NoSeq
  BY DEF IsFinished, Range
<1>3. step.prefill = <<>>
  BY DEF SchedInv, PhaseInv, EmptyStep, At
<1>4. Range(step.prefill) = {} /\ s # NoSeq
  BY <1>1, <1>3, SchedulerAssumption DEF Range
<1>5. status[s] # "WAITING" /\ status[s] # "RUNNING"
  BY <1>1, <1>2, <1>4 DEF SchedInv, QueueInv
<1>. QED
  BY <1>1, <1>5 DEF Statuses, Come, At, Processing

(* The summary accepts the measurement exactly when nothing was preempted.   *)
LEMMA VerdictFollows ==
    ASSUME SchedInv, CollectorInv, TotalsInv, SurplusInv, StampInv, On, At("idle"), IsFinished
    PROVE  Conserved <=> totals.preemptions = 0
<1>a. MetricsTypeOK /\ ChargeInv /\ RowSums /\ totals.preemptions \in Nat
      /\ \A s \in Seqs \ observed : rows[s] = NoRow
  BY DEF CollectorInv, TotalsInv, MetricsTypeOK, Totals
<1> DEFINE p == [s \in Seqs |-> IF s \in observed THEN num_prompt_tokens[s] ELSE 0]
           c == [s \in Seqs |-> Counted(s)]
           e == [s \in Seqs |-> c[s] - p[s]]
<1>1. \A s \in observed : rows[s].first # 0 /\ rows[s].completed # 0
  BY AllFinished DEF StampInv
<1>2. totals.initial + totals.same_step = totals.claimed
  <2>1. UnderWay = 0
    BY DEF UnderWay, Claiming, Scheduling, At
  <2>2. totals.initial \in Nat /\ totals.same_step \in Nat
    BY <1>a DEF MetricsTypeOK, Totals
  <2>. QED
    BY <2>1, <2>2 DEF TotalsInv
<1>3. c \in [Seqs -> Nat] /\ totals.initial + totals.same_step + totals.computed = SumFunction(c)
  BY <1>a, SumCounted
<1>4. p \in [Seqs -> Nat] /\ PromptTokens = SumFunction(p)
  BY CountTypes DEF PromptTokens
<1>5. \A s \in Seqs : /\ c[s] >= p[s]
                      /\ totals.preemptions = 0 => c[s] = p[s]
  <2>1. ASSUME NEW s \in Seqs, s \in observed
        PROVE  c[s] >= p[s] /\ (totals.preemptions = 0 => c[s] = p[s])
    <3>1. Come(s) = num_prompt_tokens[s]
      BY <2>1, AllFinished
    <3>. QED
      BY <1>a, <2>1, <3>1 DEF ChargeInv
  <2>2. ASSUME NEW s \in Seqs, s \notin observed
        PROVE  c[s] >= p[s] /\ (totals.preemptions = 0 => c[s] = p[s])
    <3>1. Counted(s) = 0
      BY <1>a, <2>2 DEF Counted, NoRow
    <3>. QED
      BY <2>2, <3>1
  <2>. QED
    BY <2>1, <2>2
<1>6. ASSUME totals.preemptions = 0 PROVE SumFunction(c) = SumFunction(p)
  <2>1. \A s \in Seqs : c[s] = p[s]
    BY <1>5, <1>6
  <2>2. c = p
    <3>. HIDE DEF c, p
    <3>. QED
      BY <1>3, <1>4, <2>1
  <2>. QED
    BY <2>2
<1>7. ASSUME totals.preemptions # 0 PROVE SumFunction(c) # SumFunction(p)
  <2>1. PICK q \in observed : Counted(q) >= num_prompt_tokens[q] + Come(q)
    BY <1>7, <1>a DEF SurplusInv
  <2>2. q \in Seqs /\ Come(q) = num_prompt_tokens[q] /\ num_prompt_tokens[q] \in Nat \ {0}
    BY <2>1, AllFinished, CountTypes
  <2>3. c[q] = Counted(q) /\ p[q] = num_prompt_tokens[q]
    BY <2>1, <2>2
  <2>4. c[q] > p[q]
    <3>1. c[q] \in Nat
      BY <1>3, <2>2
    <3>. HIDE DEF c, p
    <3>. QED
      BY <2>1, <2>2, <2>3, <3>1
  <2>. HIDE DEF c, p
  <2>5. e \in [Seqs -> Nat] /\ e[q] > 0 /\ \A s \in Seqs : c[s] = p[s] + e[s]
    BY <1>3, <1>4, <1>5, <2>2, <2>4
  <2>. HIDE DEF e
  <2>6. c = [s \in Seqs |-> p[s] + e[s]]
    BY <1>3, <2>5
  <2>7. SumFunction(c) = SumFunction(p) + SumFunction(e) /\ SumFunction(p) \in Nat
    BY <1>4, <2>5, <2>6, SumPlus
  <2>8. e[q] <= SumFunction(e) /\ SumFunction(e) \in Nat
    <3>1. SumFunction(e) = SumFunctionOnSet(e, Seqs)
      BY <2>5, SeqsSum
    <3>2. IsFiniteSet(Seqs)
      BY BlockManagerAssumption
    <3>. QED
      BY <2>2, <2>5, <3>1, <3>2, SumType
  <2>. QED
    BY <2>2, <2>5, <2>7, <2>8
<1>. HIDE DEF c, p
<1>. QED
  BY <1>1, <1>2, <1>3, <1>4, <1>6, <1>7 DEF Conserved

(* What the engine raises during a measurement it raises after a preemption. *)
LEMMA NoRaise ==
    ASSUME SchedInv, ReadyInv, ProgressInv, Undisturbed
    PROVE  ~DecodeAssertionRaises /\ ~NoProgressRaises
<1>a. DecodeInv /\ PrefillInv
  BY DEF SchedInv
<1>1. ASSUME DecodeAssertionRaises PROVE FALSE
  <2>1. /\ pc = "decode" /\ step.at <= Len(step.decode) /\ ~DecodeReady(step.decode[step.at])
        /\ Scheduling /\ ~Sampling
    BY <1>1 DEF DecodeAssertionRaises, At, Scheduling, Sampling
  <2>2. step.decode = running /\ step.decode \in Seq(Seqs)
    BY <1>a, <2>1, BatchTypes DEF DecodeInv
  <2>3. step.at \in DOMAIN running
    <3>1. step.at \in 1 .. Len(step.decode) + 1
      BY <2>1 DEF SchedInv, AtInv
    <3>. QED
      BY <2>1, <2>2, <3>1
  <2>4. running[step.at] \in Range(running)
    BY <2>3 DEF Range
  <2>. QED
    BY <2>1, <2>2, <2>4 DEF ReadyInv
<1>2. ASSUME NoProgressRaises PROVE FALSE
  <2>1. pc = "decode" /\ Scheduling /\ InBatch /\ step.prefill \o step.decode = <<>>
    BY <1>2 DEF NoProgressRaises, At, Scheduling, InBatch, Scheduled
  <2>2. step.prefill \in Seq(Seqs) /\ step.decode \in Seq(Seqs) /\ Len(step.admitted) \in Nat
    BY BatchTypes
  <2>3. Len(step.prefill) = 0 /\ Len(step.decode) = 0
    <3>1. Len(step.prefill \o step.decode) = Len(step.prefill) + Len(step.decode)
      BY <2>2
    <3>. QED
      BY <2>1, <2>2, <3>1
  <2>4. ChunkRows + Allocated = 0
    BY <1>a, <2>1, <2>3 DEF PrefillInv
  <2>5. Allocated = Len(step.admitted) /\ ChunkRows = IF step.chunk = NoSeq THEN 0 ELSE 1
    BY <2>1 DEF Allocated, ChunkRows, ChunkWaits
  <2>6. step.chunk = NoSeq /\ Len(step.admitted) = 0
    <3>1. PICK n \in Nat : n = Len(step.admitted)
      BY <2>2
    <3>2. step.chunk = NoSeq \/ 1 + n = 0
      BY <2>4, <2>5, <3>1
    <3>3. step.chunk = NoSeq
      BY <3>2
    <3>4. 0 + n = 0
      BY <2>4, <2>5, <3>1, <3>3
    <3>. QED
      BY <3>1, <3>3, <3>4
  <2>7. step.decode = <<>> /\ step.admitted = <<>>
    <3>1. step.admitted \in Seq([seq : Seqs, plan : Seq(BlockIds), new : Nat])
      BY BatchTypes DEF SchedInv, SchedTypeOK, Step
    <3>. QED
      BY <2>2, <2>3, <2>6, <3>1
  <2>. QED
    BY <2>1, <2>6, <2>7, YetNothingTaken DEF NothingYet
<1>. QED
  BY <1>1, <1>2

VerdictInv ==
    /\ measuring = "raised" => totals.preemptions > 0
    /\ measuring = "done" => totals.preemptions = 0

LEMMA NextVerdict ==
    ASSUME SchedInv, ReachInv, CollectorInv, RecordInv, ClaimsInv, TotalsInv, SurplusInv, StampInv,
           ReadyInv, ProgressInv, VerdictInv, [MetricsNext]_allVars
    PROVE  VerdictInv'
<1>a. measuring \in {"off", "on", "done", "raised"} /\ totals.preemptions \in Nat
  BY DEF CollectorInv, MetricsTypeOK, Totals
<1>1. CASE Arrive \/ Unmeasured \/ Install
  <2>1. measuring' \in {"off", "on"}
    BY <1>1 DEF Arrive, Unmeasured, Install, metricVars
  <2>. QED
    BY <2>1 DEF VerdictInv
<1>2. CASE MetricsEnded \/ UNCHANGED allVars
  BY <1>2 DEF VerdictInv, MetricsEnded, allVars, metricVars
<1>3. CASE CountPreemption \/ CountClaim \/ CountEviction \/ FinishStep \/ NotHooked
  <2>1. measuring' = "on"
    BY <1>3 DEF CountPreemption, CountClaim, CountEviction, FinishStep, NotHooked, metricVars, On
  <2>. QED
    BY <2>1 DEF VerdictInv
<1>4. CASE BeginStep
  <2>1. On /\ ~Processing
    BY <1>4 DEF BeginStep, StartStep, At, Processing
  <2>2. record # "pending"
    BY <2>1 DEF RecordInv
  <2>3. measuring' = "on"
    BY <1>4, <2>2 DEF BeginStep
  <2>. QED
    BY <2>3 DEF VerdictInv
<1>5. CASE CloseSchedule
  <2>1. On /\ ScheduleEnd /\ measuring' = IF ClassificationAgrees THEN "on" ELSE "raised"
    BY <1>5 DEF CloseSchedule
  <2>2. measuring' = "on"
    BY <2>1, Agrees
  <2>. QED
    BY <2>2 DEF VerdictInv
<1>6. CASE EngineRaises
  <2>1. On /\ totals' = totals /\ measuring' = "raised" /\ (DecodeAssertionRaises \/ NoProgressRaises)
    BY <1>6 DEF EngineRaises
  <2>2. ~Undisturbed
    BY <2>1, NoRaise
  <2>. QED
    BY <1>a, <2>1, <2>2 DEF VerdictInv, Undisturbed
<1>7. CASE Summarize
  <2>1. /\ On /\ At("idle") /\ IsFinished /\ totals' = totals
        /\ measuring' = IF Conserved THEN "done" ELSE "raised"
    BY <1>7 DEF Summarize
  <2>2. Conserved <=> totals.preemptions = 0
    BY <2>1, VerdictFollows
  <2>. QED
    BY <1>a, <2>1, <2>2 DEF VerdictInv
<1>. QED
  BY <1>1, <1>2, <1>3, <1>4, <1>5, <1>6, <1>7 DEF MetricsNext, Measured

(* What the summary adds up.                                                *)
LedgerInv ==
    /\ RecordInv /\ ClaimsInv /\ TotalsInv /\ SurplusInv
    /\ FinishedInv /\ StampInv /\ ReadyInv /\ FitsInv /\ ProgressInv /\ VerdictInv

LEMMA InitLedger ==
    ASSUME MetricsInit
    PROVE  LedgerInv
<1>1. measuring = "off" /\ ~On /\ SchedInit
  BY DEF MetricsInit, On
<1>2. RecordInv /\ ClaimsInv /\ TotalsInv /\ SurplusInv /\ FinishedInv /\ StampInv
  BY <1>1 DEF RecordInv, ClaimsInv, TotalsInv, SurplusInv, FinishedInv, StampInv
<1>3. ReadyInv /\ ProgressInv /\ VerdictInv
  BY <1>1 DEF ReadyInv, ProgressInv, VerdictInv, Undisturbed
<1>. QED
  BY <1>1, <1>2, <1>3, InitFits DEF LedgerInv

LEMMA NextLedger ==
    ASSUME SchedInv, ReachInv, CollectorInv, LedgerInv, [MetricsNext]_allVars
    PROVE  LedgerInv'
<1>a. /\ MetricsTypeOK /\ StartInv
      /\ RecordInv /\ ClaimsInv /\ TotalsInv /\ SurplusInv
      /\ FinishedInv /\ StampInv /\ ReadyInv /\ FitsInv /\ ProgressInv /\ VerdictInv
  BY DEF CollectorInv, LedgerInv
<1>b. TypeOK' /\ MetricsTypeOK' /\ [SchedNext]_vars
  <2>1. SchedInv' /\ CollectorInv'
    BY NextCollector
  <2>. QED
    BY <2>1, MetricsIsSched DEF SchedInv, SchedTypeOK, CollectorInv
<1>1. RecordInv' /\ ClaimsInv'
  BY <1>a, NextRecord, NextClaims
<1>2. TotalsInv' /\ SurplusInv'
  BY <1>a, <1>b, NextTotals, NextSurplus
<1>3. FinishedInv' /\ StampInv'
  BY <1>a, <1>b, NextFinished, NextStamp
<1>4. ReadyInv' /\ FitsInv' /\ ProgressInv'
  BY <1>a, <1>b, NextReady, NextFits, NextProgress
<1>5. VerdictInv'
  BY <1>a, NextVerdict
<1>. QED
  BY <1>1, <1>2, <1>3, <1>4, <1>5 DEF LedgerInv

LEMMA LedgerInvariant == MetricsSpec => [](SchedInv /\ ReachInv /\ CollectorInv /\ LedgerInv)
<1>1. MetricsInit => SchedInv /\ ReachInv /\ CollectorInv /\ LedgerInv
  BY InitSched, InitReach, InitCollector, InitLedger DEF MetricsInit
<1>2. SchedInv /\ ReachInv /\ CollectorInv /\ LedgerInv /\ [MetricsNext]_allVars
          => (SchedInv /\ ReachInv /\ CollectorInv /\ LedgerInv)'
  BY NextCollector, NextLedger
<1>. QED
  BY <1>1, <1>2, PTL DEF MetricsSpec

(* A measurement is refused, by a hook, by an exception of schedule() or by   *)
(* the summary, only after a preemption, and one with a preemption is never *)
(* accepted: the classified hits are the claimed blocks, hits and computed  *)
(* tokens are the prompts, and schedule() always has something to schedule  *)
(* (SchedulerMetrics, _metric_summary).                                     *)
THEOREM PromptTokensAreConserved == MetricsSpec => []PromptTokensConserved
<1>1. SchedInv /\ CollectorInv /\ LedgerInv => PromptTokensConserved
  BY ChargesFollow DEF LedgerInv, VerdictInv, PromptTokensConserved
<1>. QED
  BY <1>1, LedgerInvariant, PTL

=============================================================================
