---------------------------- MODULE BlockManager ----------------------------
(***************************************************************************)
(* The paged KV cache with prefix reuse of nanovllm/engine/block_manager   *)
(* (BlockManager, Block) and the part of nanovllm/engine/sequence.py it    *)
(* works on (token_ids, block_table, num_cached_tokens, num_new_tokens,    *)
(* block_hashes).                                                          *)
(*                                                                         *)
(* BlockManager is called from one thread.  A call that changes state is a *)
(* loop over blocks; here the call is started by an action named after the *)
(* method and each iteration of its loop is one step.  The variable `call' *)
(* is the call in progress: nothing else may start until it has returned,  *)
(* so a behaviour is a sequence of whole calls, and the invariants say     *)
(* what holds between two iterations as well.                              *)
(*                                                                         *)
(* Blocks of a sequence are counted from 1 here (block_table[0] in the     *)
(* code is block_table[s][1]).                                             *)
(***************************************************************************)
EXTENDS Integers, Sequences, FiniteSets, Functions

CONSTANTS
    Seqs,           \* the requests
    Token,          \* the vocabulary
    Prompts,        \* the prompts a request may come with
    NumBlocks,      \* num_kvcache_blocks
    BlockSize,      \* kvcache_block_size
    MaxLen,         \* no sequence grows beyond it (max_model_len)
    Hash(_)         \* block_hashes[k-1] is Hash(the first k full blocks)

PrefixWords == UNION {[1 .. n -> Token] : n \in 1 .. MaxLen}

ASSUME BlockManagerAssumption ==
    /\ IsFiniteSet(Seqs)
    /\ NumBlocks \in Nat
    /\ BlockSize \in Nat \ {0}
    /\ MaxLen \in Nat
    /\ \A p \in Prompts : p \in Seq(Token) /\ Len(p) \in 1 .. MaxLen

(* Nothing else is assumed of the hash: two prefixes may share one.         *)
ASSUME HashAssumption == \A p \in PrefixWords : Hash(p) \in Nat

VARIABLES
    blocks,             \* blocks[b]: the fields of Block b
    free_block_ids,     \* the deque: taken from the left, returned to the right
    used_block_ids,
    hash_to_block_id,   \* a partial function from hashes to blocks
    token_ids,          \* token_ids[s], and below the other fields of a Sequence
    block_table,
    num_cached_tokens,
    num_new_tokens,
    chain,              \* history: the prefix whose K/V block b is to store
    call                \* the call in progress

poolVars == <<blocks, free_block_ids, used_block_ids, hash_to_block_id>>
seqVars == <<block_table, num_cached_tokens, num_new_tokens>>
bmVars == <<poolVars, token_ids, seqVars, chain, call>>

BlockIds == 0 .. (NumBlocks - 1)
None == -1
NoHash == -1
NoLineage == <<-1, -1>>
LineageIds == BlockIds \X Nat

Block == [ref_count : Nat, generation : Nat,
          hash : Nat \cup {NoHash}, token_ids : Seq(Token),
          lineage : LineageIds \cup {NoLineage},
          parent : LineageIds \cup {NoLineage}]

NewBlock == [ref_count |-> 0, generation |-> 0, hash |-> NoHash,
             token_ids |-> <<>>, lineage |-> NoLineage, parent |-> NoLineage]

NoCall == [op |-> "none"]
Calls == {NoCall}
         \cup [op : {"claim"}, seq : Seqs, plan : Seq(BlockIds) \ {<<>>}]
         \cup [op : {"fill"}, seq : Seqs, index : 1 .. MaxLen]
         \cup [op : {"release"}, seq : Seqs]

-----------------------------------------------------------------------------
(* Sequence                                                                *)

MinOf(m, n) == IF m < n THEN m ELSE n
CeilDiv(n, d) == (n + d - 1) \div d

SeqLen(s) == Len(token_ids[s])
NumSeqBlocks(s) == CeilDiv(SeqLen(s), BlockSize)
ContextEnd(s) == num_cached_tokens[s] + num_new_tokens[s]

Prefix(s, n) == SubSeq(token_ids[s], 1, n)
SeqBlock(s, k) == SubSeq(token_ids[s], (k - 1) * BlockSize + 1, k * BlockSize)
BlockHash(s, k) == Hash(Prefix(s, k * BlockSize))

-----------------------------------------------------------------------------
(* Lookup                                                                  *)

Published(b) == blocks[b].hash # NoHash
IsFree(b) == b \in Range(free_block_ids)
IsUsed(b) == b \in used_block_ids

(* Exactly one of free and used, with the reference count that goes with it. *)
Resident(b) ==
    /\ IsFree(b) # IsUsed(b)
    /\ IsFree(b) => blocks[b].ref_count = 0
    /\ IsUsed(b) => blocks[b].ref_count > 0

OwnerIn(map, h) == IF h \in DOMAIN map THEN map[h] ELSE None
Owner(h) == OwnerIn(hash_to_block_id, h)

(* The lineage a block at position k of s must name as its parent, when    *)
(* prev is the block at position k - 1.                                    *)
LineageOf(prev) == IF prev = None THEN NoLineage ELSE blocks[prev].lineage
TableAt(s, k) == IF k = 0 THEN None ELSE block_table[s][k]

\* Faulty variant: equal tokens and hash are taken for an equal prefix.
StoresAnyParent(b, s, k, prev) ==
    blocks[b].hash = BlockHash(s, k) /\ blocks[b].token_ids = SeqBlock(s, k)

(* Block b stores block k of s, reached through the block prev.            *)
Stores(b, s, k, prev) ==
    /\ blocks[b].hash = BlockHash(s, k)
    /\ blocks[b].token_ids = SeqBlock(s, k)
    /\ blocks[b].parent = LineageOf(prev)

(* _validate_claimed_prefix: the assertions on the blocks s already holds.  *)
ClaimedPrefixValid(s) ==
    /\ num_cached_tokens[s] = Len(block_table[s]) * BlockSize
    /\ \A k \in 1 .. Len(block_table[s]) :
        LET b == block_table[s][k] IN
        /\ k * BlockSize <= SeqLen(s)
        /\ IsUsed(b) /\ ~IsFree(b) /\ blocks[b].ref_count > 0
        /\ blocks[b].lineage # NoLineage
        /\ Stores(b, s, k, TableAt(s, k - 1))

(* match_prefix: the longest run of resident blocks that continue s.  The   *)
(* last block of s is never matched, so a token is left to compute.         *)
Candidate(s, k) ==
    IF k <= Len(block_table[s]) THEN TableAt(s, k) ELSE Owner(BlockHash(s, k))

Matches(s, k) ==
    LET b == Candidate(s, k) IN
    /\ b # None
    /\ Stores(b, s, k, Candidate(s, k - 1))
    /\ b \notin Range(block_table[s])
    /\ \A j \in Len(block_table[s]) + 1 .. k - 1 : Candidate(s, j) # b
    /\ Resident(b)

MatchEnds(s) ==
    {k \in Len(block_table[s]) .. NumSeqBlocks(s) :
        \A j \in Len(block_table[s]) + 1 .. k : j < NumSeqBlocks(s) /\ Matches(s, j)}
MatchPrefix(s) ==
    LET start == Len(block_table[s])
        stop == CHOOSE k \in MatchEnds(s) : \A j \in MatchEnds(s) : j <= k
    IN  [i \in 1 .. stop - start |-> Candidate(s, start + i)]

(* The assertions of claim_prefix on a plan made earlier.                   *)
PlanIsCurrent(s, plan) ==
    LET start == Len(block_table[s])
        Planned(i) == IF i = 0 THEN TableAt(s, start) ELSE plan[i]
    IN  /\ ClaimedPrefixValid(s)
        /\ \A i, j \in 1 .. Len(plan) : i # j => plan[i] # plan[j]
        /\ \A i \in 1 .. Len(plan) :
            /\ start + i < NumSeqBlocks(s)
            /\ Owner(BlockHash(s, start + i)) = plan[i]
            /\ Stores(plan[i], s, start + i, Planned(i - 1))
            /\ Resident(plan[i])

\* Faulty variant: the target is rounded down.
NumBlocksToAppendFloor(s, n) ==
    LET missing == (num_cached_tokens[s] + n) \div BlockSize - Len(block_table[s])
    IN  IF missing > 0 THEN missing ELSE 0

(* num_blocks_to_append; can_append compares it with the free queue.        *)
NumBlocksToAppend(s, n) ==
    LET missing == CeilDiv(num_cached_tokens[s] + n, BlockSize) - Len(block_table[s])
    IN  IF missing > 0 THEN missing ELSE 0

(* num_blocks_required_for_admission.                                       *)
NumBlocksForAdmission(plan, n) ==
    Cardinality({i \in 1 .. Len(plan) : IsFree(plan[i])}) + CeilDiv(n, BlockSize)

-----------------------------------------------------------------------------
(* Calls that change state                                                 *)

Init ==
    /\ blocks = [b \in BlockIds |-> NewBlock]
    /\ free_block_ids = [i \in 1 .. NumBlocks |-> i - 1]
    /\ used_block_ids = {}
    /\ hash_to_block_id = [h \in {} |-> None]
    /\ token_ids \in [Seqs -> Prompts]
    /\ block_table = [s \in Seqs |-> <<>>]
    /\ num_cached_tokens = [s \in Seqs |-> 0]
    /\ num_new_tokens = [s \in Seqs |-> 0]
    /\ chain = [b \in BlockIds |-> <<>>]
    /\ call = NoCall

(* deque.remove(x)                                                         *)
Removed(q, x) ==
    LET at == CHOOSE i \in 1 .. Len(q) : q[i] = x
    IN  SubSeq(q, 1, at - 1) \o SubSeq(q, at + 1, Len(q))
RemoveFree(b) == Removed(free_block_ids, b)

\* Faulty variants: popleft for a block that is anywhere in the queue; the
\* block stays in the queue.
TakeFreeFirst(b) ==
    /\ free_block_ids' = Tail(free_block_ids)
    /\ used_block_ids' = used_block_ids \cup {b}
TakeFreeKept(b) ==
    /\ used_block_ids' = used_block_ids \cup {b}
    /\ UNCHANGED free_block_ids

TakeFree(b) ==
    /\ free_block_ids' = RemoveFree(b)
    /\ used_block_ids' = used_block_ids \cup {b}

(* claim_prefix: every block of the plan is validated first ...             *)
ClaimPrefix(s, plan) ==
    /\ call = NoCall
    /\ plan # <<>>
    /\ PlanIsCurrent(s, plan)
    /\ call' = [op |-> "claim", seq |-> s, plan |-> plan]
    /\ UNCHANGED <<poolVars, token_ids, seqVars, chain>>

(* ... then each is claimed: a free one leaves the free queue with its      *)
(* content and lineage, a used one is shared.                              *)
ClaimBlock ==
    /\ call.op = "claim"
    /\ LET s == call.seq
           b == Head(call.plan)
       IN  /\ IF IsFree(b)
                THEN /\ blocks' = [blocks EXCEPT ![b].ref_count = 1]
                     /\ TakeFree(b)
                ELSE /\ blocks' = [blocks EXCEPT ![b].ref_count = @ + 1]
                     /\ UNCHANGED <<free_block_ids, used_block_ids>>
           /\ block_table' = [block_table EXCEPT ![s] = Append(@, b)]
           /\ num_cached_tokens' = [num_cached_tokens EXCEPT ![s] = @ + BlockSize]
    /\ call' = IF Len(call.plan) = 1
                 THEN NoCall
                 ELSE [call EXCEPT !.plan = Tail(@)]
    /\ UNCHANGED <<hash_to_block_id, token_ids, num_new_tokens, chain>>

(* allocate_new: s, whose table is exactly its cached prefix, gets blocks   *)
(* for its next n tokens.                                                  *)
AllocateNew(s, n) ==
    /\ call = NoCall
    /\ ClaimedPrefixValid(s)
    /\ num_cached_tokens[s] + n <= SeqLen(s)
    /\ CeilDiv(n, BlockSize) <= Len(free_block_ids)
    /\ num_new_tokens' = [num_new_tokens EXCEPT ![s] = n]
    /\ call' = [op |-> "fill", seq |-> s, index |-> Len(block_table[s]) + 1]
    /\ UNCHANGED <<poolVars, token_ids, block_table, num_cached_tokens, chain>>

(* may_append: s continues with n tokens, in the partial block at the end   *)
(* of its table if there is one.                                           *)
MayAppend(s, n) ==
    /\ call = NoCall
    /\ num_new_tokens' = [num_new_tokens EXCEPT ![s] = n]
    /\ call' = [op |-> "fill", seq |-> s,
                index |-> (num_cached_tokens[s] \div BlockSize) + 1]
    /\ UNCHANGED <<poolVars, token_ids, block_table, num_cached_tokens, chain>>

\* Faulty variant: reset keeps the generation.
ResetBlockSameGeneration(b) ==
    [ref_count |-> 1, generation |-> blocks[b].generation, hash |-> NoHash,
     token_ids |-> <<>>, lineage |-> <<b, blocks[b].generation>>,
     parent |-> NoLineage]

(* _allocate_block: pop the mapping the block owns, then Block.reset.       *)
ResetBlock(b) ==
    [ref_count |-> 1, generation |-> blocks[b].generation + 1, hash |-> NoHash,
     token_ids |-> <<>>, lineage |-> <<b, blocks[b].generation + 1>>,
     parent |-> NoLineage]
MapWithout(b) ==
    IF Owner(blocks[b].hash) = b
    THEN Restrict(hash_to_block_id, DOMAIN hash_to_block_id \ {blocks[b].hash})
    ELSE hash_to_block_id

(* _publish_full_block: block b, whose fields are blk, becomes block k of s  *)
(* in the index; a resident owner of the hash that stores the same chain    *)
(* passes its lineage on.  (The owner cannot be b itself: b is not indexed.) *)

PublishedLineage(b, blk, s, k, map) ==
    LET owner == OwnerIn(map, BlockHash(s, k))
    IN  IF /\ owner # None
           /\ Resident(owner)
           /\ Stores(owner, s, k, TableAt(s, k - 1))
        THEN blocks[owner].lineage
        ELSE <<b, blk.generation>>
PublishFullBlock(b, blk, s, k, map) ==
    [blk EXCEPT !.hash = BlockHash(s, k),
                !.token_ids = SeqBlock(s, k),
                !.lineage = PublishedLineage(b, blk, s, k, map),
                !.parent = LineageOf(TableAt(s, k - 1))]
MapWith(map, h, b) == [x \in DOMAIN map \cup {h} |-> IF x = h THEN b ELSE map[x]]

(* The assertions of the loops of allocate_new and may_append.              *)
FillOk(s, k) ==
    /\ k > 1 => Published(block_table[s][k - 1])
    /\ IF k <= Len(block_table[s])
        THEN ~Published(block_table[s][k])
        ELSE k = Len(block_table[s]) + 1 /\ free_block_ids # <<>>

(* The loop goes on after block k; the tokens committed so far fill it.     *)
MoreBlocks(s, k) == k * BlockSize < ContextEnd(s)
Fills(s, k) == k * BlockSize <= ContextEnd(s)

(* One iteration of either loop: block k of s is the partial block s has,   *)
(* or the first free one; when the committed tokens fill it, it is          *)
(* published at once.                                                      *)
FillBlock ==
    /\ call.op = "fill"
    /\ FillOk(call.seq, call.index)
    /\ LET s == call.seq
           k == call.index
           present == k <= Len(block_table[s])
           b == IF present THEN block_table[s][k] ELSE Head(free_block_ids)
           blk == IF present THEN blocks[b] ELSE ResetBlock(b)
           map == IF present THEN hash_to_block_id ELSE MapWithout(b)
       IN  /\ IF present
                THEN UNCHANGED <<free_block_ids, used_block_ids, block_table>>
                ELSE /\ TakeFree(b)
                     /\ block_table' = [block_table EXCEPT ![s] = Append(@, b)]
           /\ blocks' = [blocks EXCEPT ![b] =
                  IF Fills(s, k) THEN PublishFullBlock(b, blk, s, k, map) ELSE blk]
           /\ hash_to_block_id' =
                  IF Fills(s, k) THEN MapWith(map, BlockHash(s, k), b) ELSE map
           /\ chain' = [chain EXCEPT ![b] =
                  Prefix(s, MinOf(k * BlockSize, ContextEnd(s)))]
           /\ call' = IF MoreBlocks(s, k)
                        THEN [call EXCEPT !.index = k + 1]
                        ELSE NoCall
    /\ UNCHANGED <<token_ids, num_cached_tokens, num_new_tokens>>

(* deallocate: the blocks of s are released from the last to the first, so  *)
(* the end of a cached prefix is evicted before its beginning.  (The code   *)
(* clears the table after the loop; here each block leaves it as visited.)  *)
Deallocate(s) ==
    /\ call = NoCall
    /\ block_table[s] # <<>>
    /\ call' = [op |-> "release", seq |-> s]
    /\ UNCHANGED <<poolVars, token_ids, seqVars, chain>>

\* Faulty variants: a shared block is freed by its first release; the count is
\* compared before it is lowered; a freed block is put where the next is taken.
AnyHolder(b) == TRUE
NoHolder(b) == blocks[b].ref_count = 0
ReturnLeft(b) == <<b>> \o free_block_ids

LastHolder(b) == blocks[b].ref_count = 1
ReturnFree(b) == Append(free_block_ids, b)

ReleaseBlock ==
    /\ call.op = "release"
    /\ LET s == call.seq
           n == Len(block_table[s])
           b == block_table[s][n]
           last == n = 1
       IN  /\ blocks' = [blocks EXCEPT ![b].ref_count = @ - 1]
           /\ IF LastHolder(b)
                THEN /\ used_block_ids' = used_block_ids \ {b}
                     /\ free_block_ids' = ReturnFree(b)
                ELSE UNCHANGED <<used_block_ids, free_block_ids>>
           /\ block_table' = [block_table EXCEPT ![s] = SubSeq(@, 1, n - 1)]
           /\ num_cached_tokens' =
                  IF last THEN [num_cached_tokens EXCEPT ![s] = 0] ELSE num_cached_tokens
           /\ num_new_tokens' =
                  IF last THEN [num_new_tokens EXCEPT ![s] = 0] ELSE num_new_tokens
           /\ call' = IF last THEN NoCall ELSE call
    /\ UNCHANGED <<hash_to_block_id, token_ids, chain>>

CallStep == ClaimBlock \/ FillBlock \/ ReleaseBlock

(* Sequence.append_token                                                   *)
AppendToken(s, t) ==
    /\ call = NoCall
    /\ SeqLen(s) < MaxLen
    /\ token_ids' = [token_ids EXCEPT ![s] = Append(@, t)]
    /\ UNCHANGED <<poolVars, seqVars, chain, call>>

(* The forward pass has stored the new tokens of the batch S                *)
(* (Scheduler.postprocess).                                                *)
Advance(S) ==
    /\ call = NoCall
    /\ num_cached_tokens' = [s \in Seqs |->
            IF s \in S THEN ContextEnd(s) ELSE num_cached_tokens[s]]
    /\ num_new_tokens' = [s \in Seqs |-> IF s \in S THEN 0 ELSE num_new_tokens[s]]
    /\ UNCHANGED <<poolVars, token_ids, block_table, chain, call>>

-----------------------------------------------------------------------------
(* A caller that makes every legal call in every order.  Between a claim    *)
(* and allocate_new other sequences may be served, as the frozen plan of    *)
(* Scheduler.schedule does.                                                *)

CallClaim(s) ==
    /\ num_new_tokens[s] = 0
    /\ num_cached_tokens[s] = Len(block_table[s]) * BlockSize
    /\ \E n \in 1 .. Len(MatchPrefix(s)) : ClaimPrefix(s, SubSeq(MatchPrefix(s), 1, n))

CallFill(s) ==
    /\ num_new_tokens[s] = 0
    /\ \E n \in 1 .. SeqLen(s) - num_cached_tokens[s] :
        /\ NumBlocksToAppend(s, n) <= Len(free_block_ids)
        /\ AllocateNew(s, n) \/ MayAppend(s, n)

Call(s) == CallClaim(s) \/ CallFill(s) \/ Deallocate(s)

Next ==
    \/ CallStep
    \/ \E s \in Seqs : Call(s)
    \/ \E S \in SUBSET Seqs : Advance(S)
    \/ \E s \in Seqs, t \in Token : AppendToken(s, t)

Spec == Init /\ [][Next]_bmVars

-----------------------------------------------------------------------------
(* Properties                                                              *)

Holders(b) == {s \in Seqs : b \in Range(block_table[s])}

(* Every variable ranges over its domain.                                   *)
TypeOK ==
    /\ blocks \in [BlockIds -> Block]
    /\ free_block_ids \in Seq(BlockIds)
    /\ used_block_ids \in SUBSET BlockIds
    /\ DOMAIN hash_to_block_id \subseteq Nat
    /\ Range(hash_to_block_id) \subseteq BlockIds
    /\ token_ids \in [Seqs -> Seq(Token)]
    /\ \A s \in Seqs : SeqLen(s) \in 1 .. MaxLen
    /\ block_table \in [Seqs -> Seq(BlockIds)]
    /\ num_cached_tokens \in [Seqs -> Nat]
    /\ num_new_tokens \in [Seqs -> Nat]
    /\ chain \in [BlockIds -> Seq(Token)]
    /\ call \in Calls

(* No block is lost and none is lent twice by mistake: a block is in the    *)
(* free queue, once, exactly when no block table names it; a table names a  *)
(* block once; the reference count is the number of tables that name it.    *)
BlocksAccounted ==
    /\ used_block_ids = BlockIds \ Range(free_block_ids)
    /\ IsInjective(free_block_ids)
    /\ \A s \in Seqs : IsInjective(block_table[s])
    /\ \A b \in BlockIds :
        /\ blocks[b].ref_count = Cardinality(Holders(b))
        /\ IsFree(b) <=> Holders(b) = {}

(* The prefix that block k of s stores: the committed tokens of s up to the *)
(* end of the block, or only the computed ones while the call that commits  *)
(* more has not reached the block yet.                                     *)
Reached(s, k) ==
    IF call.op = "fill" /\ call.seq = s /\ call.index <= k
    THEN num_cached_tokens[s]
    ELSE ContextEnd(s)
StoredTokens(s, k) == MinOf(k * BlockSize, Reached(s, k))

(* Whatever the hash function collides on, and however often blocks were    *)
(* evicted and reused since: block k of a table stores the K/V of exactly   *)
(* the first k blocks of that sequence, and is indexed iff it is full.      *)
PrefixSound ==
    \A s \in Seqs : \A k \in 1 .. Len(block_table[s]) :
        LET b == block_table[s][k] IN
        /\ chain[b] = Prefix(s, StoredTokens(s, k))
        /\ Published(b) <=> k * BlockSize <= Reached(s, k)

(* A lineage identity names one prefix for ever: equal identities mean      *)
(* equal prefixes, and a child's parent identity names the child's prefix   *)
(* without its last block (Block.update).                                  *)
LineageSound ==
    \A b, c \in {x \in BlockIds : Published(x)} :
        /\ blocks[b].lineage = blocks[c].lineage => chain[b] = chain[c]
        /\ blocks[c].parent = blocks[b].lineage =>
                Len(chain[c]) = Len(chain[b]) + BlockSize
                    /\ SubSeq(chain[c], 1, Len(chain[b])) = chain[b]

(* Nothing refers to a block that was reused for something else: eviction   *)
(* is leaf first (deallocate releases in reverse), so that the lineage a    *)
(* cached block names as its parent is resident, and the index answers with *)
(* a block that still has the hash.                                         *)
ReferencesResident ==
    /\ \A c \in BlockIds :
        Published(c) /\ blocks[c].parent # NoLineage =>
            \E b \in BlockIds : Published(b) /\ blocks[b].lineage = blocks[c].parent
    /\ \A h \in DOMAIN hash_to_block_id : blocks[hash_to_block_id[h]].hash = h

(* No assertion of the code fires: the blocks a sequence has claimed stay   *)
(* valid for as long as it waits for allocate_new, the rest of a plan is    *)
(* still resident at each iteration of the claim, and a fill always finds a *)
(* free block or its own unpublished one.                                  *)
AssertionsHold ==
    /\ call = NoCall => \A s \in Seqs :
            num_new_tokens[s] = 0 /\ num_cached_tokens[s] = Len(block_table[s]) * BlockSize
                => ClaimedPrefixValid(s)
    /\ call.op = "claim" => PlanIsCurrent(call.seq, call.plan)
    /\ call.op = "fill" => FillOk(call.seq, call.index)

(* Sharing is safe without copying: while anybody holds a full block, what  *)
(* it stores does not change, and a block two requests hold is full.        *)
SharedBlocksFrozen ==
    [][\A b \in BlockIds :
        /\ Published(b) /\ Holders(b) # {} => chain'[b] = chain[b]
        /\ Cardinality(Holders(b)') > 1 => Published(b)']_bmVars

(* "Full cached blocks remain hash-addressable after their reference count  *)
(* reaches zero" (docs/architecture.md): a free block that was published    *)
(* and not reset can be found through the index, in itself or in a block    *)
(* that stores the same prefix.                                            *)
FreeBlocksAddressable ==
    \A b \in BlockIds :
        Published(b) /\ IsFree(b) =>
            Owner(blocks[b].hash) # None /\ chain[Owner(blocks[b].hash)] = chain[b]

(* The paged cache keeps the promise of PageCache.                          *)
PC == INSTANCE PageCache WITH
        Pages <- BlockIds,
        text <- token_ids,
        holders <- [b \in BlockIds |-> Holders(b)],
        content <- chain
Implements == PC!Spec

=============================================================================
