-------------------------- MODULE SchedulerMetrics --------------------------
(***************************************************************************)
(* bench_scheduler.py: a measured phase of the scheduler.  SchedulerMetrics *)
(* wraps schedule, claim_prefix, _allocate_block and preempt of a live      *)
(* engine, counts what they do, and the summary refuses the measurement     *)
(* unless the counts agree: hits classified by the scheduler are the blocks *)
(* really claimed, and hits plus computed tokens are the prompts.           *)
(*                                                                         *)
(* A hook runs in the step of the call it wraps.  Leaders are run to their  *)
(* end unmeasured; the requests that wait at `install' are the observed     *)
(* ones, and no other arrives.  Left out: the rows kept of each step, and   *)
(* the part of the computed tokens that lies in a shared prefix.            *)
(***************************************************************************)
EXTENDS Scheduler

(* What _run checks or sets before it builds the engine: the pool has the    *)
(* blocks of any prompt of the workload (minimum_logical_blocks), and, when  *)
(* prompts are not chunked, a batch has the tokens of any prompt             *)
(* (max_num_batched_tokens is above max_model_len in both experiments).      *)
ASSUME WorkloadFits ==
    \A p \in Prompts :
        /\ Len(p) <= NumBlocks * BlockSize
        /\ EnableChunked \/ Len(p) <= MaxNumBatchedTokens

VARIABLES
    measuring,  \* "off", "on", "done", or "raised" by a hook, the engine or the summary
    observed,   \* the requests with a RequestObservation
    record,     \* "none", "active" or "pending": _active_step, _pending_step
    claims,     \* _claimed_prefix_blocks_by_seq of the active step
    totals,     \* the counters of the collector
    rows        \* the fields of RequestObservation

metricVars == <<measuring, observed, record, claims, totals, rows>>
allVars == <<vars, metricVars>>

NoTotals == [initial |-> 0, same_step |-> 0, claimed |-> 0, computed |-> 0,
             evictions |-> 0, preemptions |-> 0, steps |-> 0]

(* first, completed: the number of the step that gave the first token, and  *)
(* of the one that finished the request; 0 is None.                        *)
NoRow == [initial |-> 0, same_step |-> 0, computed |-> 0, first |-> 0, completed |-> 0]

MetricsInit ==
    /\ SchedInit
    /\ measuring = "off"
    /\ observed = {}
    /\ record = "none"
    /\ claims = [s \in Seqs |-> 0]
    /\ totals = NoTotals
    /\ rows = [s \in Seqs |-> NoRow]

On == measuring = "on"

-----------------------------------------------------------------------------
(* Before the measurement                                                  *)

(* Nothing has started of what was added: the leaders, one by one, and every *)
(* call of generate are run to their end before more is added.             *)
NothingStarted ==
    /\ At("idle")
    /\ running = <<>> /\ chunked_req = NoSeq
    /\ \A s \in Range(waiting) : SeqLen(s) = num_prompt_tokens[s]

(* Requests are added ...                                                   *)
Arrive ==
    /\ measuring = "off"
    /\ NothingStarted
    /\ \E s \in Seqs : Add(s)
    /\ UNCHANGED metricVars

(* ... and leaders run, unmeasured.                                         *)
Unmeasured ==
    /\ measuring = "off"
    /\ Engine
    /\ UNCHANGED metricVars

(* install                                                                 *)
Install ==
    /\ measuring = "off"
    /\ NothingStarted /\ waiting # <<>>
    /\ measuring' = "on"
    /\ observed' = Range(waiting)
    /\ UNCHANGED <<vars, record, claims, totals, rows>>

-----------------------------------------------------------------------------
(* The hooks                                                               *)

(* schedule_hook, before the call: the previous step must have been closed. *)
BeginStep ==
    /\ On
    /\ StartStep
    /\ measuring' = IF record = "pending" THEN "raised" ELSE "on"
    /\ record' = "active"
    /\ claims' = [s \in Seqs |-> 0]
    /\ UNCHANGED <<observed, totals, rows>>

(* preempt_hook                                                            *)
CountPreemption ==
    /\ On
    /\ PreemptTail
    /\ totals' = [totals EXCEPT !.preemptions = @ + 1]
    /\ UNCHANGED <<measuring, observed, record, claims, rows>>

(* claim_prefix_hook: the blocks of the plan, whoever held them.            *)
ClaimedBlocks == IF call'.op = "claim" THEN Len(call'.plan) ELSE 0
CountClaim ==
    /\ On
    /\ CommitClaim \/ FrozenClaim
    /\ totals' = [totals EXCEPT !.claimed = @ + ClaimedBlocks * BlockSize]
    /\ claims' = IF call'.op = "claim"
                   THEN [claims EXCEPT ![call'.seq] = @ + ClaimedBlocks]
                   ELSE claims
    /\ UNCHANGED <<measuring, observed, record, rows>>

(* allocate_block_hook: outside a claim, the block taken next still holds   *)
(* the content its index entry names.                                      *)
Evicts ==
    /\ call.op = "fill"
    /\ call.index > Len(block_table[call.seq])
    /\ LET b == Head(free_block_ids) IN
        /\ blocks[b].ref_count = 0
        /\ Published(b)
        /\ Owner(blocks[b].hash) = b
CountEviction ==
    /\ On
    /\ BlockManagerStep
    /\ totals' = [totals EXCEPT !.evictions = @ + (IF Evicts THEN 1 ELSE 0)]
    /\ UNCHANGED <<measuring, observed, record, claims, rows>>

\* Faulty variant: a decode token counts as a computed prompt token.
ComputedTokens(s) == num_new_tokens[s]

(* The prompt tokens that this step computes for s.                         *)
ComputedPrompt(s) ==
    LET remaining == num_prompt_tokens[s] - num_cached_tokens[s]
    IN  IF remaining > 0 THEN MinOf(num_new_tokens[s], remaining) ELSE 0

(* schedule_hook, after the call: the scheduler's classification must agree *)
(* with the claims; then the step and its requests are charged.             *)
ClassificationAgrees ==
    \A s \in Seqs : step.hits[s].initial + step.hits[s].same_step = claims[s]
ComputedNow(s) == IF s \in Range(Scheduled) THEN ComputedPrompt(s) ELSE 0
CloseSchedule ==
    /\ On
    /\ ScheduleEnd
    /\ measuring' = IF ClassificationAgrees THEN "on" ELSE "raised"
    /\ record' = "pending"
    /\ totals' = [totals EXCEPT
            !.initial = @ + SumFunction([s \in Seqs |-> step.hits[s].initial]) * BlockSize,
            !.same_step = @ + SumFunction([s \in Seqs |-> step.hits[s].same_step]) * BlockSize,
            !.computed = @ + SumFunction([s \in Seqs |-> ComputedNow(s)])]
    /\ rows' = [s \in Seqs |->
            IF s \notin observed THEN rows[s]
            ELSE [rows[s] EXCEPT
                    !.initial = @ + step.hits[s].initial * BlockSize,
                    !.same_step = @ + step.hits[s].same_step * BlockSize,
                    !.computed = @ + ComputedNow(s)]]
    /\ UNCHANGED <<observed, claims>>

(* What the loop of _run_measured_to_completion does after step(): first    *)
(* tokens and completions are stamped, then finish_step.                    *)
Stamped(s) ==
    LET now == totals.steps + 1
    IN  [rows[s] EXCEPT
            !.first = IF @ = 0 /\ SeqLen(s) > num_prompt_tokens[s] THEN now ELSE @,
            !.completed = IF @ = 0 /\ status[s] = "FINISHED" THEN now ELSE @]
FinishStep ==
    /\ On
    /\ AdvanceBatch
    /\ rows' = [s \in Seqs |-> IF s \in observed THEN Stamped(s) ELSE rows[s]]
    /\ totals' = [totals EXCEPT !.steps = @ + 1]
    /\ record' = "none"
    /\ UNCHANGED <<measuring, observed, claims>>

(* Nothing is wrapped, or counted, in the other steps of the engine.        *)
NotHooked ==
    /\ On
    /\ \/ PlanStep \/ ChunkAppend \/ CommitAllocate \/ CommitEnd
       \/ Freeze \/ FreezeEnd \/ FrozenAllocate \/ DecodeAppend
       \/ Run \/ (\E t \in Token : Sample(t)) \/ Finish \/ SampleEnd
    /\ UNCHANGED metricVars

(* An exception of schedule() leaves the loop.                              *)
EngineRaises ==
    /\ On
    /\ DecodeAssertionRaises \/ NoProgressRaises
    /\ measuring' = "raised"
    /\ record' = "none"
    /\ UNCHANGED <<observed, claims, totals, rows>>

-----------------------------------------------------------------------------
(* The verdict                                                             *)

(* _request_rows and _metric_summary                                       *)
PromptTokens ==
    SumFunction([s \in Seqs |-> IF s \in observed THEN num_prompt_tokens[s] ELSE 0])
Conserved ==
    /\ \A s \in observed : rows[s].first # 0 /\ rows[s].completed # 0
    /\ totals.initial + totals.same_step = totals.claimed
    /\ totals.initial + totals.same_step + totals.computed = PromptTokens

Summarize ==
    /\ On
    /\ At("idle")
    /\ IsFinished
    /\ measuring' = IF Conserved THEN "done" ELSE "raised"
    /\ UNCHANGED <<vars, observed, record, claims, totals, rows>>

MetricsEnded ==
    /\ \/ measuring \in {"done", "raised"}
       \/ measuring = "off" /\ Stopped
    /\ UNCHANGED allVars

Measured ==
    \/ BeginStep \/ CountPreemption \/ CountClaim \/ CountEviction
    \/ CloseSchedule \/ FinishStep \/ NotHooked \/ EngineRaises \/ Summarize

MetricsNext == Arrive \/ Unmeasured \/ Install \/ Measured \/ MetricsEnded

(* The loop of the harness keeps calling step(), measured or not.           *)
MetricsSpec == MetricsInit /\ [][MetricsNext]_allVars
FairMetricsSpec == MetricsSpec /\ WF_allVars(Unmeasured \/ Measured)

-----------------------------------------------------------------------------
(* Properties                                                              *)

(* What a request got from the cache and what was computed for it are its   *)
(* prompt up to where it has come, whatever the chunks and the batches, as  *)
(* long as nothing was preempted; a preempted prompt is charged again.      *)
Counted(s) == rows[s].initial + rows[s].same_step + rows[s].computed
PromptsCharged ==
    On /\ At("idle") =>
        \A s \in observed :
            LET reached == CASE status[s] = "WAITING" -> 0
                             [] status[s] = "RUNNING" ->
                                    MinOf(num_cached_tokens[s], num_prompt_tokens[s])
                             [] status[s] = "FINISHED" -> num_prompt_tokens[s]
            IN  /\ Counted(s) >= reached
                /\ totals.preemptions = 0 => Counted(s) = reached

(* The sums over the requests are the prompts exactly when nothing was      *)
(* preempted: no hook and no summary ever refuses a measurement without a   *)
(* preemption, and none with one is accepted.                              *)
PromptTokensConserved ==
    /\ PromptsCharged
    /\ measuring = "raised" => totals.preemptions > 0
    /\ measuring = "done" => totals.preemptions = 0

(* A measured phase ends: every observed request has its first token and    *)
(* its completion, or the run was refused after a preemption; and, measured *)
(* or not, the engine always gets through its work unless it raises.        *)
MeasurementEnds ==
    /\ On ~> \/ measuring = "done"
             \/ measuring = "raised" /\ totals.preemptions > 0
    /\ []<>(IsFinished \/ pc = "raised")

=============================================================================
