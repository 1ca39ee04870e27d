------------------------------ MODULE Scheduler ------------------------------
(***************************************************************************)
(* nanovllm/engine/scheduler.py on top of the paged KV cache, driven by    *)
(* the loop of LLMEngine.step: schedule(), the forward pass of ModelRunner *)
(* (which stores K/V and samples a token for the rows that reach the end   *)
(* of their sequence), postprocess().                                      *)
(*                                                                         *)
(* The engine is one thread.  `pc' is the point it has reached; the local  *)
(* variables of schedule() are the fields of `step'.  An iteration of one  *)
(* of its loops is a step; while a call of BlockManager is in progress     *)
(* (call # NoCall) only that call proceeds.                                *)
(***************************************************************************)
EXTENDS BlockManager, SequencesExt

CONSTANTS
    NoSeq,                  \* None, for chunked_req
    MaxNumSeqs,             \* max_num_seqs
    MaxNumBatchedTokens,    \* max_num_batched_tokens
    MaxTokens,              \* SamplingParams.max_tokens of every request
    Eos,                    \* eos; not in Token: ignore_eos
    EnableChunked,          \* chunked_prefill
    EnableLpm,              \* enable_lpm
    SameStep                \* enable_same_step_prefix_reuse

ASSUME SchedulerAssumption ==
    /\ NoSeq \notin Seqs
    /\ MaxNumSeqs \in Nat \ {0}
    /\ MaxNumBatchedTokens \in Nat \ {0}
    /\ MaxTokens \in Nat \ {0}
    /\ {EnableChunked, EnableLpm, SameStep} \subseteq BOOLEAN
    /\ \A p \in Prompts : Len(p) <= MaxLen - 1      \* asserted by add

VARIABLES
    status,             \* SequenceStatus, or "new" before add
    num_prompt_tokens,
    waiting,            \* deque
    running,            \* deque
    chunked_req,
    pc,
    step,               \* the local variables of schedule() and postprocess()
    kv                  \* kv[b]: the prefix whose K/V the page b really stores

schedVars == <<status, num_prompt_tokens, waiting, running, chunked_req, kv>>
vars == <<bmVars, schedVars, pc, step>>

Statuses == {"new", "WAITING", "RUNNING", "FINISHED"}

(* ranked: the part of the ranking not visited yet; initial: the frozen     *)
(* snapshot of matches, born: the lineages at that time (history); admitted: requests *)
(* taken from waiting, in order, with their plans; hits: the two hit        *)
(* counters; prefill, rows: lists of the batch; at: an index into a list.   *)
Step == [decode : Seq(Seqs), token_budget : Nat, free_budget : Nat, reserved : Nat,
         chunk : Seqs \cup {NoSeq}, chunk_tokens : Nat,
         ranked : Seq(Seqs), initial : [Seqs -> Seq(BlockIds)],
         born : [BlockIds -> LineageIds \cup {NoLineage}], active : Nat,
         admitted : Seq([seq : Seqs, plan : Seq(BlockIds), new : Nat]),
         hits : [Seqs -> [initial : Nat, same_step : Nat]],
         prefill : Seq(Seqs), rows : Seq(Seqs), at : Nat]

NoHits == [initial |-> 0, same_step |-> 0]
EmptyStep ==
    [decode |-> <<>>, token_budget |-> 0, free_budget |-> 0, reserved |-> 0,
     chunk |-> NoSeq, chunk_tokens |-> 0,
     ranked |-> <<>>, initial |-> [s \in Seqs |-> <<>>],
     born |-> [b \in BlockIds |-> NoLineage], active |-> 0,
     admitted |-> <<>>, hits |-> [s \in Seqs |-> NoHits],
     prefill |-> <<>>, rows |-> <<>>, at |-> 1]

Phases == {"idle", "preempt", "chunk", "commit", "admit", "freeze", "claim",
           "allocate", "decode", "run", "sample", "stop", "advance", "raised"}

SchedInit ==
    /\ Init
    /\ status = [s \in Seqs |-> "new"]
    /\ num_prompt_tokens = [s \in Seqs |-> Len(token_ids[s])]
    /\ waiting = <<>>
    /\ running = <<>>
    /\ chunked_req = NoSeq
    /\ pc = "idle"
    /\ step = EmptyStep
    /\ kv = [b \in BlockIds |-> <<>>]

(* The members of q in S, in their order; n is the part of q visited so far.  *)
Filter(q, S) ==
    LET f[n \in 0 .. Len(q)] ==
            IF n = 0 THEN <<>>
            ELSE IF q[n] \in S THEN Append(f[n - 1], q[n]) ELSE f[n - 1]
    IN  f[Len(q)]

(* The engine thread is at l, outside any call of BlockManager.             *)
At(l) == pc = l /\ call = NoCall
Goto(l) == pc' = l

IsFinished == waiting = <<>> /\ chunked_req = NoSeq /\ running = <<>>

-----------------------------------------------------------------------------
(* Between two steps                                                       *)

(* LLMEngine.add_request, Scheduler.add                                    *)
Add(s) ==
    /\ At("idle")
    /\ status[s] = "new"
    /\ status' = [status EXCEPT ![s] = "WAITING"]
    /\ waiting' = Append(waiting, s)
    /\ UNCHANGED <<bmVars, num_prompt_tokens, running, chunked_req, kv, pc, step>>

(* generate calls step() while there is work                               *)
StartStep ==
    /\ At("idle")
    /\ ~IsFinished
    /\ Goto("preempt")
    /\ UNCHANGED <<bmVars, schedVars, step>>

-----------------------------------------------------------------------------
(* schedule()                                                              *)

(* A sum over the requests, of values up to MaxLen: w[2] counts what is due   *)
(* to w[1].                                                                *)
Total(f) == Cardinality({w \in Seqs \X (1 .. MaxLen) : w[2] <= f[w[1]]})
BlocksDue(S) == Total([s \in Seqs |-> IF s \in S THEN NumBlocksToAppend(s, 1) ELSE 0])
DecodeBlocks == BlocksDue(Range(running))
DecodeFits ==
    \/ running = <<>>
    \/ /\ Len(running) <= MaxNumBatchedTokens
       /\ DecodeBlocks <= Len(free_block_ids)

(* _preempt_decode_tail, preempt: the tail of running gives its blocks back *)
(* and returns to the head of waiting, with the tokens it has generated.    *)
PreemptTail ==
    /\ At("preempt")
    /\ ~DecodeFits
    /\ LET s == Last(running) IN
        /\ running' = Front(running)
        /\ status' = [status EXCEPT ![s] = "WAITING"]
        /\ waiting' = <<s>> \o waiting
        /\ Deallocate(s)
    /\ UNCHANGED <<num_prompt_tokens, chunked_req, kv, pc, step>>

(* The tokens chunked_req gets from the budget that decode leaves, or 0     *)
(* when it pauses.                                                         *)

\* Faulty variant: the chunk does not look at the free blocks.
ChunkTokensAnyBlocks(budget, free) ==
    IF chunked_req = NoSeq THEN 0
    ELSE MinOf(SeqLen(chunked_req) - num_cached_tokens[chunked_req], budget)

ChunkTokens(budget, free) ==
    IF chunked_req = NoSeq THEN 0
    ELSE LET n == MinOf(SeqLen(chunked_req) - num_cached_tokens[chunked_req], budget)
         IN  IF NumBlocksToAppend(chunked_req, n) > free THEN 0 ELSE n

(* _rank_waiting: a stable sort by descending match length under LPM.       *)
Before(i, j, initial) ==
    LET m == Len(initial[waiting[i]])
        n == Len(initial[waiting[j]])
    IN  IF EnableLpm /\ m # n THEN m > n ELSE i < j
RankWaiting(initial) ==
    LET Rank(j) == Cardinality({i \in DOMAIN waiting : i # j /\ Before(i, j, initial)}) + 1
    IN  [r \in DOMAIN waiting |-> waiting[CHOOSE j \in DOMAIN waiting : Rank(j) = r]]

(* The budgets, the share of chunked_req and the ranking of waiting         *)
(* (_match_waiting): nothing is mutated yet.                               *)
PlanStep ==
    /\ At("preempt")
    /\ DecodeFits
    /\ LET tokens == MaxNumBatchedTokens - Len(running)
           free == Len(free_block_ids) - DecodeBlocks
           n == ChunkTokens(tokens, free)
           pauses == chunked_req # NoSeq /\
                (n = 0 \/ n < SeqLen(chunked_req) - num_cached_tokens[chunked_req])
           ranks == ~pauses /\ waiting # <<>> /\ tokens - n > 0
           initial == [s \in Seqs |->
                IF ranks /\ s \in Range(waiting) THEN MatchPrefix(s) ELSE <<>>]
       IN  step' = [EmptyStep EXCEPT
                !.decode = running,
                !.reserved = DecodeBlocks,
                !.token_budget = tokens - n,
                !.free_budget =
                    free - (IF n = 0 THEN 0 ELSE NumBlocksToAppend(chunked_req, n)),
                !.chunk = IF n = 0 THEN NoSeq ELSE chunked_req,
                !.chunk_tokens = n,
                !.initial = initial,
                !.born = IF ranks THEN [b \in BlockIds |-> blocks[b].lineage] ELSE @,
                !.ranked = IF ranks THEN RankWaiting(initial) ELSE <<>>,
                !.active = Len(running) + (IF chunked_req = NoSeq THEN 0 ELSE 1)]
    /\ Goto(IF SameStep THEN "chunk" ELSE "freeze")
    /\ UNCHANGED <<bmVars, schedVars>>

(* The chunk goes first with same-step reuse, after all claims without.     *)
ChunkAppend ==
    /\ At("chunk")
    /\ IF step.chunk = NoSeq
         THEN UNCHANGED <<bmVars, step>>
         ELSE /\ MayAppend(step.chunk, step.chunk_tokens)
              /\ step' = [step EXCEPT !.prefill = <<step.chunk>>]
    /\ Goto(IF SameStep THEN "commit" ELSE "allocate")
    /\ UNCHANGED schedVars

(* The checks on the next ranked request, for the blocks `plan' it would    *)
(* claim and the number of blocks it would take.                           *)
Uncached(s, plan) == SeqLen(s) - num_cached_tokens[s] - Len(plan) * BlockSize

\* Faulty variant: a request gets all its tokens, whatever the budget.
AllTokens(s, plan) == Uncached(s, plan)
NewTokens(s, plan) == MinOf(Uncached(s, plan), step.token_budget)

\* Faulty variant: the blocks are not compared.
AdmissibleAnyBlocks(s, plan, taken, available) ==
    /\ step.active + Len(step.admitted) < MaxNumSeqs
    /\ EnableChunked \/ Uncached(s, plan) <= step.token_budget
    /\ NewTokens(s, plan) > 0

Admissible(s, plan, taken, available) ==
    /\ step.active + Len(step.admitted) < MaxNumSeqs
    /\ EnableChunked \/ Uncached(s, plan) <= step.token_budget
    /\ NewTokens(s, plan) > 0
    /\ taken <= available

(* A request that gets only part of its tokens ends the loop.               *)
RankedAfter(s, plan) ==
    IF NewTokens(s, plan) < Uncached(s, plan) THEN <<>> ELSE Tail(step.ranked)

AdmitRecord(s, plan) == [seq |-> s, plan |-> plan, new |-> NewTokens(s, plan)]

(* _record_prefix_hits                                                     *)
HitsOf(initial, latest) ==
    [initial |-> MinOf(initial, latest),
     same_step |-> IF latest > initial THEN latest - initial ELSE 0]

\* Faulty variant: the blocks reserved for decode are offered to waiting.
AvailableUnreserved == Len(free_block_ids)
AvailableBlocks == Len(free_block_ids) - step.reserved

(* _commit_waiting_same_step: a fresh match, the checks, the claim ...      *)
CommitFits(s) ==
    LET plan == MatchPrefix(s)
    IN  Admissible(s, plan, NumBlocksForAdmission(plan, NewTokens(s, plan)),
                   AvailableBlocks)
CommitClaim ==
    /\ At("commit")
    /\ step.ranked # <<>>
    /\ LET s == Head(step.ranked)
           plan == MatchPrefix(s)
       IN  /\ CommitFits(s)
           /\ step' = [step EXCEPT
                !.admitted = Append(@, AdmitRecord(s, plan)),
                !.token_budget = @ - NewTokens(s, plan),
                !.ranked = RankedAfter(s, plan),
                !.hits[s] = HitsOf(Len(step.initial[s]), Len(plan))]
           /\ IF plan = <<>> THEN UNCHANGED bmVars ELSE ClaimPrefix(s, plan)
    /\ Goto("admit")
    /\ UNCHANGED schedVars

(* ... and the allocation that publishes its full blocks before the next    *)
(* request is matched.                                                     *)
Admit(a) ==
    /\ AllocateNew(a.seq, a.new)
    /\ status' = [status EXCEPT ![a.seq] = "RUNNING"]
    /\ waiting' = Removed(waiting, a.seq)
    /\ UNCHANGED <<num_prompt_tokens, running, chunked_req, kv>>
CommitAllocate ==
    /\ At("admit")
    /\ LET a == Last(step.admitted) IN
        /\ Admit(a)
        /\ step' = [step EXCEPT !.prefill = Append(@, a.seq)]
    /\ Goto("commit")
CommitEnd ==
    /\ At("commit")
    /\ step.ranked # <<>> => ~CommitFits(Head(step.ranked))
    /\ Goto("decode")
    /\ UNCHANGED <<bmVars, schedVars, step>>

(* The frozen plan (same-step reuse off): the same checks on the snapshot,  *)
(* with the free blocks that earlier plans will claim counted once.         *)
Protected == UNION {Range(step.admitted[i].plan) : i \in DOMAIN step.admitted}

FreezeTaken(s) ==
    LET plan == step.initial[s]
    IN  Cardinality({b \in Range(plan) : IsFree(b) /\ b \notin Protected})
            + CeilDiv(NewTokens(s, plan), BlockSize)
FreezeFits(s) == Admissible(s, step.initial[s], FreezeTaken(s), step.free_budget)
Freeze ==
    /\ At("freeze")
    /\ step.ranked # <<>>
    /\ LET s == Head(step.ranked)
           plan == step.initial[s]
       IN  /\ FreezeFits(s)
           /\ step' = [step EXCEPT
                !.admitted = Append(@, AdmitRecord(s, plan)),
                !.token_budget = @ - NewTokens(s, plan),
                !.free_budget = @ - FreezeTaken(s),
                !.ranked = RankedAfter(s, plan)]
    /\ UNCHANGED <<bmVars, schedVars, pc>>
FreezeEnd ==
    /\ At("freeze")
    /\ step.ranked # <<>> => ~FreezeFits(Head(step.ranked))
    /\ Goto("claim")
    /\ UNCHANGED <<bmVars, schedVars, step>>

(* Every frozen plan is claimed before anything is allocated.               *)
FrozenClaim ==
    /\ At("claim")
    /\ IF step.at > Len(step.admitted)
         THEN /\ step' = [step EXCEPT !.at = 1]
              /\ Goto("chunk")
              /\ UNCHANGED bmVars
         ELSE LET a == step.admitted[step.at] IN
              /\ IF a.plan = <<>> THEN UNCHANGED bmVars ELSE ClaimPrefix(a.seq, a.plan)
              /\ step' = [step EXCEPT !.at = @ + 1]
              /\ UNCHANGED pc
    /\ UNCHANGED schedVars

FrozenAllocate ==
    /\ At("allocate")
    /\ IF step.at > Len(step.admitted)
         THEN /\ step' = [step EXCEPT !.at = 1]
              /\ Goto("decode")
              /\ UNCHANGED <<bmVars, schedVars>>
         ELSE LET a == step.admitted[step.at] IN
              /\ Admit(a)
              /\ step' = [step EXCEPT
                    !.at = @ + 1,
                    !.prefill = Append(@, a.seq),
                    !.hits[a.seq] = HitsOf(Len(a.plan), Len(a.plan))]
              /\ UNCHANGED pc

(* One token for each running sequence; it must have exactly one to go.     *)
DecodeReady(s) == SeqLen(s) - num_cached_tokens[s] = 1
DecodeAppend ==
    /\ At("decode")
    /\ step.at <= Len(step.decode)
    /\ LET s == step.decode[step.at] IN DecodeReady(s) /\ MayAppend(s, 1)
    /\ step' = [step EXCEPT !.at = @ + 1]
    /\ UNCHANGED <<schedVars, pc>>

Scheduled == step.prefill \o step.decode

ScheduleEnd ==
    /\ At("decode")
    /\ step.at > Len(step.decode)
    /\ Scheduled # <<>>
    /\ Goto("run")
    /\ UNCHANGED <<bmVars, schedVars, step>>

(* The exceptions schedule() can end with; they leave LLMEngine.step.       *)
DecodeAssertionRaises ==
    /\ At("decode")
    /\ step.at <= Len(step.decode)
    /\ ~DecodeReady(step.decode[step.at])
    /\ Goto("raised")
    /\ UNCHANGED <<bmVars, schedVars, step>>
NoProgressRaises ==
    /\ At("decode")
    /\ Scheduled = <<>>
    /\ Goto("raised")
    /\ UNCHANGED <<bmVars, schedVars, step>>

-----------------------------------------------------------------------------
(* ModelRunner.run: the K/V of every new token is stored, and the rows that *)
(* reach the end of their sequence get logits (prepare_model_input).        *)

\* Faulty variants: the partial page is not continued; the last page is
\* left out.
WrittenFreshPages(s) == CeilDiv(num_cached_tokens[s], BlockSize) + 1 .. Len(block_table[s])
WrittenButLast(s) == (num_cached_tokens[s] \div BlockSize) + 1 .. Len(block_table[s]) - 1

(* Page k of s is in the slot mapping of the batch.                         *)
WrittenPages(s) == (num_cached_tokens[s] \div BlockSize) + 1 .. Len(block_table[s])
Writers(b) ==
    {w \in Range(Scheduled) \X (1 .. MaxLen) :
        w[2] \in WrittenPages(w[1]) /\ block_table[w[1]][w[2]] = b}
KvAfter ==
    [b \in BlockIds |->
        IF Writers(b) = {} THEN kv[b]
        ELSE LET w == CHOOSE w \in Writers(b) : TRUE
             IN  Prefix(w[1], MinOf(w[2] * BlockSize, ContextEnd(w[1])))]

Run ==
    /\ At("run")
    /\ kv' = KvAfter
    /\ step' = [step EXCEPT
            !.rows = Filter(Scheduled, {s \in Seqs : ContextEnd(s) = SeqLen(s)}),
            !.at = 1]
    /\ Goto("sample")
    /\ UNCHANGED <<bmVars, status, num_prompt_tokens, waiting, running, chunked_req>>

-----------------------------------------------------------------------------
(* postprocess()                                                           *)

Stops(s, t) ==
    \/ t = Eos
    \/ SeqLen(s) + 1 - num_prompt_tokens[s] >= MaxTokens
    \/ SeqLen(s) + 1 >= MaxLen

(* The token sampled for a row is appended, whatever it is.                 *)
Sample(t) ==
    /\ At("sample")
    /\ step.at <= Len(step.rows)
    /\ LET s == step.rows[step.at] IN
        /\ AppendToken(s, t)
        /\ IF Stops(s, t)
             THEN Goto("stop") /\ UNCHANGED step
             ELSE step' = [step EXCEPT !.at = @ + 1] /\ UNCHANGED pc
    /\ UNCHANGED schedVars

(* _finish                                                                 *)
Finish ==
    /\ At("stop")
    /\ LET s == step.rows[step.at] IN
        /\ status' = [status EXCEPT ![s] = "FINISHED"]
        /\ Deallocate(s)
        /\ chunked_req' = IF chunked_req = s THEN NoSeq ELSE chunked_req
        /\ running' = IF s \in Range(running) THEN Removed(running, s) ELSE running
    /\ step' = [step EXCEPT !.at = @ + 1]
    /\ Goto("sample")
    /\ UNCHANGED <<num_prompt_tokens, waiting, kv>>

SampleEnd ==
    /\ At("sample")
    /\ step.at > Len(step.rows)
    /\ Goto("advance")
    /\ UNCHANGED <<bmVars, schedVars, step>>

Unfinished(s) == status[s] # "FINISHED"
PartialPrefills ==
    Filter(step.prefill,
        {s \in Seqs : Unfinished(s) /\ ContextEnd(s) < num_prompt_tokens[s]})

\* Faulty variant: a prompt that ends exactly at its end is not complete.
PrefillsBeyondPrompt ==
    Filter(step.prefill,
        {s \in Seqs : /\ Unfinished(s) /\ ContextEnd(s) > num_prompt_tokens[s]
                      /\ s \notin Range(running)})

CompletedPrefills ==
    Filter(step.prefill,
        {s \in Seqs : /\ Unfinished(s) /\ ContextEnd(s) >= num_prompt_tokens[s]
                      /\ s \notin Range(running)})

(* The unfinished rows count their new tokens as cached; a prefill that     *)
(* reached the end of its prompt starts to run, the one that did not        *)
(* becomes chunked_req.                                                    *)
AdvanceBatch ==
    /\ At("advance")
    /\ Advance({s \in Range(Scheduled) : Unfinished(s)})
    /\ running' = running \o CompletedPrefills
    /\ chunked_req' = IF step.prefill = <<>> THEN chunked_req
                      ELSE IF PartialPrefills = <<>> THEN NoSeq
                      ELSE Head(PartialPrefills)
    /\ step' = EmptyStep
    /\ Goto("idle")
    /\ UNCHANGED <<status, num_prompt_tokens, waiting, kv>>

-----------------------------------------------------------------------------

BlockManagerStep == CallStep /\ UNCHANGED <<schedVars, pc, step>>

Schedule ==
    \/ PreemptTail \/ PlanStep \/ ChunkAppend
    \/ CommitClaim \/ CommitAllocate \/ CommitEnd
    \/ Freeze \/ FreezeEnd \/ FrozenClaim \/ FrozenAllocate
    \/ DecodeAppend \/ ScheduleEnd
    \/ DecodeAssertionRaises \/ NoProgressRaises

Postprocess == (\E t \in Token : Sample(t)) \/ Finish \/ SampleEnd \/ AdvanceBatch

Engine == StartStep \/ Schedule \/ Run \/ Postprocess \/ BlockManagerStep

(* Nothing is left to do, or an exception has left the engine.              *)
Stopped ==
    /\ \/ At("idle") /\ IsFinished /\ \A s \in Seqs : status[s] # "new"
       \/ pc = "raised"
    /\ UNCHANGED vars

SchedNext == Engine \/ (\E s \in Seqs : Add(s)) \/ Stopped

SchedSpec == SchedInit /\ [][SchedNext]_vars

(* The loop of generate keeps calling step() while there is work.           *)
FairSchedSpec == SchedSpec /\ WF_vars(Engine)

-----------------------------------------------------------------------------
(* Properties                                                              *)

(* Every variable of the scheduler ranges over its domain, and those of     *)
(* BlockManager as well.                                                   *)
SchedTypeOK ==
    /\ TypeOK
    /\ status \in [Seqs -> Statuses]
    /\ num_prompt_tokens \in [Seqs -> 1 .. MaxLen]
    /\ waiting \in Seq(Seqs)
    /\ running \in Seq(Seqs)
    /\ chunked_req \in Seqs \cup {NoSeq}
    /\ pc \in Phases
    /\ step \in Step
    /\ kv \in [BlockIds -> Seq(Token)]

(* Between two steps a request is in exactly one of waiting, running and    *)
(* chunked_req, as its status says, once; only waiting requests hold no     *)
(* block; chunked_req and running together respect max_num_seqs.            *)
QueuesConsistent ==
    /\ IsInjective(waiting) /\ IsInjective(running)
    /\ pc = "idle" /\ call = NoCall =>
        /\ \A s \in Seqs :
            /\ s \in Range(waiting) <=> status[s] = "WAITING"
            /\ (s \in Range(running)) # (s = chunked_req) <=> status[s] = "RUNNING"
            /\ status[s] # "RUNNING" <=> block_table[s] = <<>>
        /\ Len(running) + (IF chunked_req = NoSeq THEN 0 ELSE 1) <= MaxNumSeqs

(* A batch respects the budgets, no sequence is in it twice, prefills and   *)
(* decodes are disjoint, every row computes at least one token, decode rows *)
(* exactly one, and at most one prefill is left partial.                    *)
BatchWellFormed ==
    pc = "run" =>
        /\ IsInjective(Scheduled)
        /\ Len(Scheduled) <= MaxNumSeqs
        /\ Total([s \in Seqs |-> IF s \in Range(Scheduled) THEN num_new_tokens[s] ELSE 0])
                <= MaxNumBatchedTokens
        /\ \A s \in Range(Scheduled) :
            /\ num_new_tokens[s] > 0
            /\ ContextEnd(s) <= SeqLen(s)
            /\ CeilDiv(ContextEnd(s), BlockSize) = Len(block_table[s])
        /\ Cardinality({s \in Range(Scheduled) : ContextEnd(s) < SeqLen(s)}) <= 1

(* What attention reads was computed for that very prefix, in an earlier    *)
(* batch or in this one: after the batch has stored its K/V, every page in  *)
(* the table of every row stores the prefix of that row, and a page is      *)
(* written for one row only.  Publication at allocation time, before the    *)
(* forward pass, makes this more than a local fact.                         *)
AttentionReadsOwnPrefix ==
    pc = "run" =>
        /\ \A b \in BlockIds : Cardinality(Writers(b)) <= 1
        /\ \A s \in Range(Scheduled) :
            /\ \A k \in 1 .. Len(block_table[s]) :
                KvAfter[block_table[s][k]] = Prefix(s, MinOf(k * BlockSize, ContextEnd(s)))
            /\ num_cached_tokens[s] % BlockSize # 0 =>
                kv[block_table[s][num_cached_tokens[s] \div BlockSize + 1]]
                    = Prefix(s, num_cached_tokens[s])

(* Between two steps every block the index may hand out has been computed.  *)
CachedBlocksComputed ==
    pc = "idle" /\ call = NoCall =>
        \A b \in BlockIds : Published(b) => kv[b] = chain[b]

(* Decode keeps the blocks reserved for it: no admission, with or without   *)
(* same-step reuse, takes a block that a decode row will need.              *)
DecodeReserved ==
    pc \in {"commit", "admit", "freeze", "claim", "chunk", "allocate", "decode"} =>
        LET left == {s \in Range(step.decode) : num_new_tokens[s] = 0}
        IN  BlocksDue(left) <= Len(free_block_ids)

(* The plans of the frozen snapshot are still current when claimed, and a   *)
(* claimed prefix is still valid when the suffix is allocated.              *)
PlansCurrent ==
    /\ At("claim") /\ step.at <= Len(step.admitted) =>
        LET a == step.admitted[step.at] IN PlanIsCurrent(a.seq, a.plan)
    /\ At("admit") =>
        LET a == Last(step.admitted) IN
        ClaimedPrefixValid(a.seq) /\ CeilDiv(a.new, BlockSize) <= Len(free_block_ids)
    /\ At("allocate") /\ step.at <= Len(step.admitted) =>
        LET a == step.admitted[step.at] IN
        ClaimedPrefixValid(a.seq) /\ CeilDiv(a.new, BlockSize) <= Len(free_block_ids)

(* "running: prompts that completed prefill and now contribute one decode   *)
(* token per step" (docs/architecture.md), asserted in schedule().          *)
RunningReady ==
    pc = "idle" /\ call = NoCall => \A s \in Range(running) : DecodeReady(s)

(* "For an admitted request, initial hits are blocks that were already      *)
(* present in the initial snapshot and were still claimed"                 *)
(* (docs/architecture.md): the content counted was in the cache before the  *)
(* step, in the same page or in one with the same lineage.                  *)
InitialHitsPersistent ==
    pc = "run" =>
        \A s \in Seqs : \A k \in 1 .. step.hits[s].initial :
            blocks[block_table[s][k]].lineage = step.born[step.initial[s][k]]

(* Every request that was added is served to its end; an exception that     *)
(* leaves schedule() would strand those of its batch.                       *)
EveryRequestFinishes ==
    \A s \in Seqs : status[s] = "WAITING" ~> status[s] = "FINISHED"

(* Every step of the scheduler is a legal call of BlockManager, or none: it *)
(* asks for no more tokens than a sequence has and for no more blocks than  *)
(* are free, and never continues a sequence whose tokens are in flight.     *)
LegalCalls == Spec

=============================================================================
