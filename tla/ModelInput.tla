----------------------------- MODULE ModelInput -----------------------------
(***************************************************************************)
(* How a scheduled batch becomes the input of a forward pass: the packed    *)
(* tensors of ModelRunner.prepare_model_input, the metadata and the route   *)
(* the attention backend derives from them, and what the kernels read when  *)
(* they are driven by that metadata.                                       *)
(*                                                                         *)
(* A batch is a sequence of rows; a row has the fields of a Sequence the    *)
(* runner looks at.  Offsets, positions, pages and slots count from 0 as in *)
(* the code, sequences of them from 1 as in TLA+.  Metadata is the trusted  *)
(* metadata of the engine; launch bounds (max_q_len), dtypes and devices    *)
(* are left out.                                                           *)
(***************************************************************************)
EXTENDS Integers, Sequences, FiniteSets, SequencesExt

CONSTANT BlockSize          \* kvcache_block_size

ASSUME BlockSizeAssumption == BlockSize \in Nat \ {0}

CeilDiv(n, d) == (n + d - 1) \div d

(* [0, c1, c1 + c2, ...]                                                   *)
Offsets(counts) ==
    LET total[i \in 1 .. Len(counts) + 1] ==
            IF i = 1 THEN 0 ELSE total[i - 1] + counts[i - 1]
    IN  total

-----------------------------------------------------------------------------
(* prepare_model_input                                                     *)

ContextEnd(row) == row.num_cached_tokens + row.num_new_tokens

(* The slots of page i of a row (i counts from 1) that hold new tokens: from *)
(* start up to, but not including, end.                                    *)
PageStart(row, i) ==
    LET first == (row.num_cached_tokens \div BlockSize) + 1
    IN  IF i = first
        THEN (row.block_table[i] * BlockSize) + (row.num_cached_tokens % BlockSize)
        ELSE row.block_table[i] * BlockSize

\* Faulty variant: the last page is written from its beginning to its end.
WholePage(row, i) == (row.block_table[i] + 1) * BlockSize

PageEnd(row, i) ==
    IF i = Len(row.block_table) /\ ContextEnd(row) % BlockSize # 0
    THEN (row.block_table[i] * BlockSize) + (ContextEnd(row) % BlockSize)
    ELSE (row.block_table[i] + 1) * BlockSize

(* Without a table (memory warmup) every new token has the slot -1, which   *)
(* the store kernel skips.                                                 *)
SlotMapping(row) ==
    IF row.block_table = <<>>
    THEN [j \in 1 .. row.num_new_tokens |-> -1]
    ELSE LET cached == row.num_cached_tokens \div BlockSize
             Page(i) == [x \in 1 .. PageEnd(row, i) - PageStart(row, i) |->
                            PageStart(row, i) + x - 1]
         IN  FlattenSeq([i \in 1 .. Len(row.block_table) - cached |-> Page(cached + i)])

InputIds(row) == SubSeq(row.token_ids, row.num_cached_tokens + 1, ContextEnd(row))
Positions(row) == [j \in 1 .. row.num_new_tokens |-> row.num_cached_tokens + j - 1]

IsPaged(rows) == \E i \in DOMAIN rows : rows[i].block_table # <<>>

(* CommonAttentionMetadata: the first num_prefill rows are prefills.  The   *)
(* padding of block_tables is never read and left out.                     *)
Metadata(rows, num_prefill) ==
    LET query_lens == [i \in DOMAIN rows |-> rows[i].num_new_tokens]
        starts == Offsets(query_lens)
        counts == [i \in DOMAIN rows |-> Len(rows[i].block_table)]
    IN  [num_prefill_seqs |-> num_prefill,
         num_decode_seqs |-> Len(rows) - num_prefill,
         num_prefill_tokens |-> starts[num_prefill + 1],
         num_decode_tokens |-> starts[Len(rows) + 1] - starts[num_prefill + 1],
         query_start_loc |-> starts,
         seq_lens |-> [i \in DOMAIN rows |-> ContextEnd(rows[i])],
         slot_mapping |-> FlattenSeq([i \in DOMAIN rows |-> SlotMapping(rows[i])]),
         block_tables |-> [i \in DOMAIN rows |-> rows[i].block_table],
         paged |-> IsPaged(rows),
         num_kv_blocks |-> Offsets(counts)[Len(rows) + 1],
         num_prefill_kv_blocks |-> Offsets(counts)[num_prefill + 1]]

(* The rows whose last known token is computed: only they sample.  Warmup   *)
(* rows have no table, and None stands for all rows.                       *)
Ends(row) == Len(row.token_ids) = ContextEnd(row)
LogitsRows(rows) ==
    LET ending[n \in 0 .. Len(rows)] ==
            IF n = 0 THEN <<>>
            ELSE IF Ends(rows[n]) THEN Append(ending[n - 1], n) ELSE ending[n - 1]
    IN  IF IsPaged(rows) THEN ending[Len(rows)] ELSE [i \in DOMAIN rows |-> i]

-----------------------------------------------------------------------------
(* Backend metadata and plan                                               *)

(* What _validate_common_metadata asks of trusted metadata; a violation     *)
(* raises in build_plan.                                                   *)
Valid(common) ==
    LET n == common.num_prefill_seqs + common.num_decode_seqs IN
    /\ n > 0
    /\ common.num_decode_tokens = common.num_decode_seqs
    /\ Len(common.query_start_loc) = n + 1 /\ Len(common.seq_lens) = n
    /\ Len(common.slot_mapping) = common.num_prefill_tokens + common.num_decode_tokens
    /\ common.paged => Len(common.block_tables) = n

BatchType(common) ==
    CASE common.num_prefill_seqs = 0 -> "pure_decode"
      [] common.num_decode_seqs = 0 /\ common.num_prefill_seqs # 0 -> "pure_prefill"
      [] OTHER -> "mixed"

(* FlashInfer describes the pages of row i as page_indices[kv_indptr[i]] up  *)
(* to kv_indptr[i+1], the last of them filled up to last_page_len[i].       *)
LastPageLen(common) ==
    [i \in DOMAIN common.seq_lens |-> ((common.seq_lens[i] - 1) % BlockSize) + 1]
KvIndptr(common) ==
    Offsets([i \in DOMAIN common.block_tables |-> Len(common.block_tables[i])])
PageIndices(common) == FlattenSeq(common.block_tables)

(* The checks build_metadata makes on the way.                             *)
PageCountsMatch(common) ==
    common.paged =>
        /\ \A i \in DOMAIN common.block_tables : common.block_tables[i] # <<>>
        /\ common.num_kv_blocks = Len(PageIndices(common))
        /\ common.num_prefill_kv_blocks = KvIndptr(common)[common.num_prefill_seqs + 1]

(* build_plan: warmup, or the route of the batch type.  A mixed batch is one *)
(* kernel if there is one for both phases, else a prefill and a decode.     *)
Route(common, unified_mixed) ==
    CASE ~common.paged -> "warmup"
      [] common.paged /\ BatchType(common) = "pure_prefill" -> "prefill"
      [] common.paged /\ BatchType(common) = "pure_decode" -> "decode"
      [] OTHER -> IF unified_mixed THEN "mixed_unified" ELSE "mixed_split"

(* What a planned kernel knows: where each row's queries are, its pages, and *)
(* how many keys it has.  In FlashInfer form the number of keys comes from  *)
(* the last page, in that of Dao and of BatchAttention from seq_lens.       *)
Kernel(q_indptr, kv_indptr, indices, kv_lens) ==
    [q_indptr |-> q_indptr, kv_indptr |-> kv_indptr, indices |-> indices,
     kv_lens |-> kv_lens]

KeysOf(kv_indptr, last_page_len) ==
    [i \in DOMAIN last_page_len |->
        (kv_indptr[i + 1] - kv_indptr[i] - 1) * BlockSize + last_page_len[i]]

(* The offsets of rows from + 1 onwards, counted from the first of them.    *)
RowsAfter(indptr, from) ==
    [i \in 1 .. Len(indptr) - from |-> indptr[from + i] - indptr[from + 1]]

WholeBatch(common) ==
    Kernel(common.query_start_loc, KvIndptr(common), PageIndices(common),
           KeysOf(KvIndptr(common), LastPageLen(common)))

(* A decode wrapper has one query per row and no query offsets.             *)
DecodeKernel(kv_indptr, indices, last_page_len) ==
    Kernel([i \in 1 .. Len(kv_indptr) |-> i - 1], kv_indptr, indices,
           KeysOf(kv_indptr, last_page_len))

UnifiedKernel(common) ==
    Kernel(common.query_start_loc, KvIndptr(common), PageIndices(common),
           common.seq_lens)

PrefillPart(common) ==
    LET n == common.num_prefill_seqs
        indptr == SubSeq(KvIndptr(common), 1, n + 1)
    IN  Kernel(SubSeq(common.query_start_loc, 1, n + 1), indptr,
               SubSeq(PageIndices(common), 1, common.num_prefill_kv_blocks),
               KeysOf(indptr, SubSeq(LastPageLen(common), 1, n)))

DecodePart(common) ==
    LET n == common.num_prefill_seqs
        pages == PageIndices(common)
    IN  DecodeKernel(RowsAfter(KvIndptr(common), n),
                     SubSeq(pages, common.num_prefill_kv_blocks + 1, Len(pages)),
                     SubSeq(LastPageLen(common), n + 1, Len(common.seq_lens)))

(* What build_plan leaves in the wrappers it plans.                         *)
Planned(common, route) ==
    CASE route = "warmup" -> <<>>
      [] route = "prefill" -> [prefill |-> WholeBatch(common)]
      [] route = "decode" ->
            [decode |-> DecodeKernel(KvIndptr(common), PageIndices(common),
                                     LastPageLen(common))]
      [] route = "mixed_unified" -> [mixed |-> UnifiedKernel(common)]
      [] route = "mixed_split" ->
            [prefill |-> PrefillPart(common), decode |-> DecodePart(common)]

(* The wrappers a route runs, in the order of the rows.                     *)
WrappersOf(route) ==
    CASE route = "warmup" -> <<>>
      [] route = "prefill" -> <<"prefill">>
      [] route = "decode" -> <<"decode">>
      [] route = "mixed_unified" -> <<"mixed">>
      [] route = "mixed_split" -> <<"prefill", "decode">>

-----------------------------------------------------------------------------
(* Kernels                                                                 *)

(* The store kernel: token j of the batch goes to slot_mapping[j].  K/V is   *)
(* named by the token and its position.                                    *)
KeyOf(id, position) == <<id, position>>
Store(cache, ids, positions, slot_mapping) ==
    LET Writers(slot) == {j \in DOMAIN slot_mapping : slot_mapping[j] = slot}
    IN  [slot \in DOMAIN cache |->
            IF Writers(slot) = {} THEN cache[slot]
            ELSE LET j == CHOOSE j \in Writers(slot) : TRUE
                 IN  KeyOf(ids[j], positions[j])]

(* Key x of row i, counted from 1, through the pages of the row.            *)
KeyAt(cache, kernel, i, x) ==
    LET page == kernel.indices[kernel.kv_indptr[i] + ((x - 1) \div BlockSize) + 1]
    IN  cache[(page * BlockSize) + ((x - 1) % BlockSize)]

(* Paged causal attention: the last query of a row sees all keys of the row, *)
(* each query before it one fewer.  An output is the list of keys it saw.   *)
Attend(kernel, cache) ==
    FlattenSeq([i \in DOMAIN kernel.kv_lens |->
        LET queries == kernel.q_indptr[i + 1] - kernel.q_indptr[i]
        IN  [j \in 1 .. queries |->
                [x \in 1 .. kernel.kv_lens[i] - queries + j |->
                    KeyAt(cache, kernel, i, x)]]])

(* Warmup has no cache: query and key boundaries are the same.              *)
AttendCacheless(common, ids, positions) ==
    FlattenSeq([i \in DOMAIN common.seq_lens |->
        LET first == common.query_start_loc[i]
        IN  [j \in 1 .. common.query_start_loc[i + 1] - first |->
                [x \in 1 .. j |-> KeyOf(ids[first + x], positions[first + x])]]])

(* What a hidden state was computed from: the token, its position and the   *)
(* keys its query saw (one layer stands for all of them: they share the     *)
(* plan and the slot mapping).                                             *)
Hidden(ids, positions, seen) ==
    [t \in DOMAIN ids |-> [id |-> ids[t], position |-> positions[t], seen |-> seen[t]]]

\* Faulty variant: as if the rows that sample were the first ones.
LastIndicesOfFirstRows(common, logits_rows) ==
    [i \in DOMAIN logits_rows |-> common.query_start_loc[i + 1]]

(* ParallelLMHead: the last query of each row that samples.                 *)
LastIndices(common, logits_rows) ==
    [i \in DOMAIN logits_rows |-> common.query_start_loc[logits_rows[i] + 1]]

-----------------------------------------------------------------------------
(* Reference: what the token at a position is to be computed from, with no   *)
(* pages, batches or offsets.                                              *)

Reference(token_ids, n) ==
    [id |-> token_ids[n], position |-> n - 1,
     seen |-> [x \in 1 .. n |-> KeyOf(token_ids[x], x - 1)]]

ReferenceBatch(rows) ==
    FlattenSeq([i \in DOMAIN rows |->
        [j \in 1 .. rows[i].num_new_tokens |->
            Reference(rows[i].token_ids, rows[i].num_cached_tokens + j)]])
=============================================================================
