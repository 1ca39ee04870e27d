---------------------------- MODULE PageCacheProofs ----------------------------
(***************************************************************************)
(* Proofs about PageCache, for every set of requests, pages and tokens and *)
(* every length bound.                                                     *)
(***************************************************************************)
EXTENDS PageCache, TLAPS

-----------------------------------------------------------------------------
(* Sequences                                                               *)

(* A prefix of a word is a word over the same vocabulary.                   *)
LEMMA PrefixType ==
    ASSUME NEW S, NEW w \in Seq(S), NEW n \in 0 .. Len(w)
    PROVE  /\ SubSeq(w, 1, n) \in Seq(S)
           /\ Len(SubSeq(w, 1, n)) = n
    OBVIOUS

(* A word starts with each of its prefixes.                                 *)
LEMMA StartsWithPrefix ==
    ASSUME NEW S, NEW w \in Seq(S), NEW n \in 0 .. Len(w)
    PROVE  StartsWith(w, SubSeq(w, 1, n))
    BY DEF StartsWith

(* Appending to a word keeps its prefixes.                                  *)
LEMMA StartsWithAppend ==
    ASSUME NEW S, NEW w \in Seq(S), NEW e \in S, NEW c \in Seq(S),
           StartsWith(w, c)
    PROVE  StartsWith(Append(w, e), c)
<1>1. Len(c) <= Len(w) /\ Len(Append(w, e)) = Len(w) + 1
    BY DEF StartsWith
<1>2. SubSeq(Append(w, e), 1, Len(c)) = SubSeq(w, 1, Len(c))
    BY <1>1
<1> QED
    BY <1>1, <1>2 DEF StartsWith

-----------------------------------------------------------------------------
(* Type correctness                                                        *)

LEMMA InitTypeOK == Init => TypeOK
<1> SUFFICES ASSUME Init PROVE TypeOK
    OBVIOUS
<1>1. text \in [Seqs -> Seq(Token)] /\ \A s \in Seqs : Len(text[s]) \in 1 .. MaxLen
    BY PageCacheAssumption DEF Init
<1>2. /\ holders \in [Pages -> SUBSET Seqs]
      /\ content \in [Pages -> Seq(Token)]
      /\ \A p \in Pages : Len(content[p]) \in 0 .. MaxLen
    BY PageCacheAssumption DEF Init
<1> QED
    BY <1>1, <1>2 DEF TypeOK

LEMMA NextTypeOK == TypeOK /\ [Next]_vars => TypeOK'
<1> SUFFICES ASSUME TypeOK, [Next]_vars PROVE TypeOK'
    OBVIOUS
<1> USE PageCacheAssumption DEF TypeOK
<1>1. ASSUME NEW s \in Seqs, NEW t \in Token, Grow(s, t) PROVE TypeOK'
    <2>1. text' = [text EXCEPT ![s] = Append(text[s], t)] /\ Len(text[s]) < MaxLen
        BY <1>1 DEF Grow
    <2>2. text'[s] = Append(text[s], t) /\ \A x \in Seqs \ {s} : text'[x] = text[x]
        BY <2>1
    <2>3. Append(text[s], t) \in Seq(Token) /\ Len(Append(text[s], t)) = Len(text[s]) + 1
        OBVIOUS
    <2>4. text' \in [Seqs -> Seq(Token)]
        BY <2>1, <2>3
    <2>5. \A x \in Seqs : Len(text'[x]) \in 1 .. MaxLen
        BY <2>1, <2>2, <2>3
    <2> QED
        BY <1>1, <2>4, <2>5 DEF Grow
<1>2. ASSUME NEW s \in Seqs, NEW p \in Pages, NEW n \in 1 .. MaxLen, Write(s, p, n)
      PROVE  TypeOK'
    <2>1. n \in 1 .. Len(text[s])
        BY <1>2 DEF Write
    <2>2. SubSeq(text[s], 1, n) \in Seq(Token) /\ Len(SubSeq(text[s], 1, n)) = n
        BY <2>1, PrefixType
    <2>3. content' \in [Pages -> Seq(Token)]
        BY <1>2, <2>2 DEF Write
    <2>4. \A x \in Pages : Len(content'[x]) \in 0 .. MaxLen
        BY <1>2, <2>2 DEF Write
    <2>5. holders' \in [Pages -> SUBSET Seqs] /\ UNCHANGED text
        BY <1>2 DEF Write
    <2> QED
        BY <2>3, <2>4, <2>5
<1>3. ASSUME NEW s \in Seqs, NEW p \in Pages, Share(s, p) PROVE TypeOK'
    BY <1>3 DEF Share
<1>4. ASSUME NEW s \in Seqs, NEW p \in Pages, Drop(s, p) PROVE TypeOK'
    BY <1>4 DEF Drop
<1>5. CASE UNCHANGED vars
    BY <1>5 DEF vars
<1> QED
    BY <1>1, <1>2, <1>3, <1>4, <1>5 DEF Next

(* Every variable keeps its domain and no text or page outgrows MaxLen      *)
(* (Sequence.append_token is reached only below max_model_len).             *)
THEOREM TypeCorrect == Spec => []TypeOK
BY InitTypeOK, NextTypeOK, PTL DEF Spec

-----------------------------------------------------------------------------
(* The promise of prefix caching                                           *)

LEMMA NextHeldPagesMatch ==
    TypeOK /\ HeldPagesMatch /\ [Next]_vars => HeldPagesMatch'
<1> SUFFICES ASSUME TypeOK, HeldPagesMatch, [Next]_vars,
                    NEW q \in Pages, NEW r \in holders'[q]
             PROVE  content'[q] # <<>> /\ StartsWith(text'[r], content'[q])
    BY DEF HeldPagesMatch, StartsWith
<1> USE DEF TypeOK
<1>1. ASSUME NEW s \in Seqs, NEW t \in Token, Grow(s, t)
      PROVE  content'[q] # <<>> /\ StartsWith(text'[r], content'[q])
    <2>1. r \in holders[q] /\ r \in Seqs /\ content'[q] = content[q]
        BY <1>1 DEF Grow
    <2>2. content[q] # <<>> /\ StartsWith(text[r], content[q])
        BY <2>1 DEF HeldPagesMatch
    <2>3. CASE r = s
        <3>1. text'[r] = Append(text[r], t)
            BY <1>1, <2>1, <2>3 DEF Grow
        <3> QED
            BY <2>1, <2>2, <3>1, StartsWithAppend
    <2>4. CASE r # s
        BY <1>1, <2>1, <2>2, <2>4 DEF Grow
    <2> QED
        BY <2>3, <2>4
<1>2. ASSUME NEW s \in Seqs, NEW p \in Pages, NEW n \in 1 .. MaxLen, Write(s, p, n)
      PROVE  content'[q] # <<>> /\ StartsWith(text'[r], content'[q])
    <2>1. n \in 1 .. Len(text[s]) /\ text' = text
        BY <1>2 DEF Write
    <2>2. CASE q = p
        <3>1. r = s /\ content'[q] = SubSeq(text[s], 1, n)
            BY <1>2, <2>2 DEF Write
        <3>2. Len(content'[q]) = n
            BY <2>1, <3>1, PrefixType
        <3>3. StartsWith(text[s], SubSeq(text[s], 1, n))
            BY <2>1, StartsWithPrefix
        <3>4. content'[q] # <<>>
            BY <2>1, <3>2
        <3>5. StartsWith(text'[r], content'[q])
            BY <2>1, <3>1, <3>3 DEF StartsWith
        <3> QED
            BY <3>4, <3>5
    <2>3. CASE q # p
        BY <1>2, <2>1, <2>3 DEF Write, HeldPagesMatch
    <2> QED
        BY <2>2, <2>3
<1>3. ASSUME NEW s \in Seqs, NEW p \in Pages, Share(s, p)
      PROVE  content'[q] # <<>> /\ StartsWith(text'[r], content'[q])
    BY <1>3 DEF Share, HeldPagesMatch
<1>4. ASSUME NEW s \in Seqs, NEW p \in Pages, Drop(s, p)
      PROVE  content'[q] # <<>> /\ StartsWith(text'[r], content'[q])
    BY <1>4 DEF Drop, HeldPagesMatch
<1>5. CASE UNCHANGED vars
    BY <1>5 DEF vars, HeldPagesMatch
<1> QED
    BY <1>1, <1>2, <1>3, <1>4, <1>5 DEF Next

(* Whoever holds a page finds in it the K/V of a prefix of its own text:    *)
(* what match_prefix, claim_prefix and allocate_new together promise.       *)
THEOREM CacheSound == Spec => []HeldPagesMatch
<1>1. Init => HeldPagesMatch
    BY DEF Init, HeldPagesMatch
<1> QED
    BY <1>1, InitTypeOK, NextTypeOK, NextHeldPagesMatch, PTL DEF Spec

=============================================================================
