------------------------------ MODULE TPChannel ------------------------------
(***************************************************************************)
(* Tensor parallelism: how rank 0 makes the worker processes execute the   *)
(* same ModelRunner calls (ModelRunner.__init__ from the creation of the   *)
(* shared memory on, write_shm, read_shm, loop, call, run and exit, and    *)
(* LLMEngine.exit).                                                        *)
(*                                                                         *)
(* A call is pickled into one shared buffer; one event per worker says     *)
(* that something is there.  Nothing tells rank 0 that a worker has read   *)
(* the buffer: what keeps the next call from overwriting it is that `run'  *)
(* contains collective operations and that rank 0 waits for their result.  *)
(*                                                                         *)
(* Each access to the buffer or to an event is a step of its own.          *)
(* Collectives are enqueued in the order of each rank's program; the n-th  *)
(* completes when every rank has enqueued its n-th one (all-reduce,        *)
(* gather: the host goes on; barrier: the host waits).                     *)
(***************************************************************************)
EXTENDS Integers, Sequences

CONSTANTS
    NumWorkers,     \* tensor_parallel_size - 1
    MaxCalls,       \* bound: rank 0 makes at most this many calls of run
    RowlessSteps    \* some batch has no row that needs logits

ASSUME TPChannelAssumption ==
    /\ NumWorkers \in Nat \ {0}
    /\ MaxCalls \in Nat
    /\ RowlessSteps \in BOOLEAN

Workers == 1 .. NumWorkers
Ranks == 0 .. NumWorkers

(* rows: some row of the batch needs logits; fits: the pickled arguments    *)
(* are no longer than the buffer of 2^20 bytes.                            *)
RunCalls == [op : {"run"}, rows : IF RowlessSteps THEN BOOLEAN ELSE {TRUE},
             fits : BOOLEAN]
ExitCall == [op |-> "exit", rows |-> FALSE, fits |-> TRUE]
Calls == RunCalls \cup {ExitCall}

VARIABLES
    shm,        \* the segment "nanovllm": absent, left by a dead engine, or ours
    length,     \* its first four bytes: the position in log of the call whose
                \* length they hold; -1 for a call that did not fit
    data,       \* the bytes behind: the position in log of the call; 0: none
    event,      \* event[w]
    log,        \* history: the calls written to the buffer as a whole
    made,       \* the number of calls of run that rank 0 has started
    call,       \* the call rank 0 is making
    next_event, \* the next event of the loop in write_shm
    pc,         \* pc[r]
    seen,       \* seen[w]: what worker w has read of the buffer
    executed,   \* history: executed[w]: the calls worker w has executed
    ops         \* ops[r]: the collective operations rank r has enqueued

buffer == <<shm, length, data>>
rank0 == <<log, made, call, next_event>>
tpVars == <<buffer, event, rank0, pc, seen, executed, ops>>

-----------------------------------------------------------------------------
(* Collectives                                                             *)

Complete(r) ==
    \A q \in Ranks :
        /\ Len(ops[q]) >= Len(ops[r])
        /\ \A k \in 1 .. Len(ops[r]) : ops[q][k] = ops[r][k]
Enqueue(r, op) == ops' = [ops EXCEPT ![r] = Append(@, op)]

At(r, l) == pc[r] = l
Goto(r, l) == pc' = [pc EXCEPT ![r] = l]

TPInit ==
    /\ shm \in {"absent", "stale"}
    /\ length = 0
    /\ data = 0
    /\ event = [w \in Workers |-> FALSE]
    /\ log = <<>>
    /\ made = 0
    /\ call = ExitCall
    /\ next_event = 1
    /\ pc = [r \in Ranks |-> "boot"]
    /\ seen = [w \in Workers |-> [length |-> 0, data |-> 0]]
    /\ executed = [w \in Workers |-> <<>>]
    /\ ops = [r \in Ranks |-> <<>>]

-----------------------------------------------------------------------------
(* Rank 0                                                                  *)

(* The end of __init__: a left-over segment is unlinked, a new one created, *)
(* then the barrier lets the workers open it.                              *)
CreateShm ==
    /\ At(0, "boot")
    /\ shm' = "ours"
    /\ Enqueue(0, "barrier")
    /\ Goto(0, "starting")
    /\ UNCHANGED <<length, data, event, rank0, seen, executed>>
Started ==
    /\ At(0, "starting")
    /\ Complete(0)
    /\ Goto(0, "idle")
    /\ UNCHANGED <<buffer, event, rank0, seen, executed, ops>>

(* LLMEngine.step, LLMEngine.exit                                          *)
StartRun(c) ==
    /\ At(0, "idle")
    /\ made < MaxCalls
    /\ made' = made + 1
    /\ call' = c
    /\ Goto(0, "write_length")
    /\ UNCHANGED <<buffer, event, log, next_event, seen, executed, ops>>
StartExit ==
    /\ At(0, "idle")
    /\ call' = ExitCall
    /\ Goto(0, "write_length")
    /\ UNCHANGED <<buffer, event, log, made, next_event, seen, executed, ops>>

(* write_shm: the length, the bytes (the assignment of a slice raises when  *)
(* they do not fit), the events in the order of the ranks.                 *)
WriteLength ==
    /\ At(0, "write_length")
    /\ length' = IF call.fits THEN Len(log) + 1 ELSE -1
    /\ Goto(0, IF call.fits THEN "write_data" ELSE "idle")
    /\ UNCHANGED <<shm, data, event, rank0, seen, executed, ops>>
WriteData ==
    /\ At(0, "write_data")
    /\ data' = Len(log) + 1
    /\ log' = Append(log, call)
    /\ next_event' = 1
    /\ Goto(0, "signal")
    /\ UNCHANGED <<shm, length, event, made, call, seen, executed, ops>>

\* Faulty variants: one event too many, one too few.
OneEventMore == next_event = NumWorkers + 1
OneEventLess == next_event >= NumWorkers - 1
LastEvent == next_event = NumWorkers

SetEvent ==
    /\ At(0, "signal")
    /\ event' = [event EXCEPT ![next_event] = TRUE]
    /\ next_event' = next_event + 1
    /\ Goto(0, IF LastEvent THEN "execute" ELSE "signal")
    /\ UNCHANGED <<buffer, log, made, call, seen, executed, ops>>

\* Faulty variant: rank 0 does not fetch the sampled tokens.
AfterRunAtOnce == "idle"

(* run: the forward pass is enqueued; fetching the sampled tokens (tolist)  *)
(* waits for it, unless there is none.                                     *)
AfterRun == IF call.rows THEN "sync" ELSE "idle"
RunOnRank0 ==
    /\ At(0, "execute")
    /\ call.op = "run"
    /\ Enqueue(0, "run")
    /\ Goto(0, AfterRun)
    /\ UNCHANGED <<buffer, event, rank0, seen, executed>>
Synchronized ==
    /\ At(0, "sync")
    /\ Complete(0)
    /\ Goto(0, "idle")
    /\ UNCHANGED <<buffer, event, rank0, seen, executed, ops>>

(* exit: the barrier, then the segment is unlinked and the processes are    *)
(* joined.                                                                 *)
ExitOnRank0 ==
    /\ At(0, "execute")
    /\ call.op = "exit"
    /\ Enqueue(0, "barrier")
    /\ Goto(0, "leaving")
    /\ UNCHANGED <<buffer, event, rank0, seen, executed>>
Unlink ==
    /\ At(0, "leaving")
    /\ Complete(0)
    /\ shm' = "absent"
    /\ Goto(0, "joining")
    /\ UNCHANGED <<length, data, event, rank0, seen, executed, ops>>
Join ==
    /\ At(0, "joining")
    /\ \A w \in Workers : At(w, "exited")
    /\ Goto(0, "exited")
    /\ UNCHANGED <<buffer, event, rank0, seen, executed, ops>>

Rank0 ==
    \/ CreateShm \/ Started
    \/ WriteLength \/ WriteData \/ SetEvent
    \/ RunOnRank0 \/ Synchronized
    \/ ExitOnRank0 \/ Unlink \/ Join

-----------------------------------------------------------------------------
(* Workers                                                                 *)

\* Faulty variant: the segment is opened before the barrier.
OpensAtOnce(w) == TRUE
OpensAfterBarrier(w) == Complete(w)

ReachBarrier(w) ==
    /\ At(w, "boot")
    /\ Enqueue(w, "barrier")
    /\ Goto(w, "starting")
    /\ UNCHANGED <<buffer, event, rank0, seen, executed>>
(* Opening a segment that is not there raises.                              *)
OpenShm(w) ==
    /\ At(w, "starting")
    /\ OpensAfterBarrier(w)
    /\ Goto(w, IF shm = "absent" THEN "crashed" ELSE "wait")
    /\ UNCHANGED <<buffer, event, rank0, seen, executed, ops>>

(* read_shm: wait, the length, the bytes, clear.  Bytes that are not those  *)
(* of the length may or may not unpickle.                                  *)
Wake(w) ==
    /\ At(w, "wait")
    /\ event[w]
    /\ Goto(w, "read_length")
    /\ UNCHANGED <<buffer, event, rank0, seen, executed, ops>>
ReadLength(w) ==
    /\ At(w, "read_length")
    /\ seen' = [seen EXCEPT ![w].length = length]
    /\ Goto(w, "read_data")
    /\ UNCHANGED <<buffer, event, rank0, executed, ops>>
ReadData(w) ==
    /\ At(w, "read_data")
    /\ seen' = [seen EXCEPT ![w].data = data]
    /\ \E l \in IF seen[w].length = data THEN {"clear"} ELSE {"clear", "crashed"} :
            Goto(w, l)
    /\ UNCHANGED <<buffer, event, rank0, executed, ops>>

\* Faulty variant: the event stays set.
KeptSet(w) == event
Cleared(w) == [event EXCEPT ![w] = FALSE]

ClearEvent(w) ==
    /\ At(w, "clear")
    /\ event' = Cleared(w)
    /\ Goto(w, "execute")
    /\ UNCHANGED <<buffer, rank0, seen, executed, ops>>

(* loop: execute the call; a worker does not fetch anything, so it is back  *)
(* at the event while its forward pass still runs.                         *)
RunOnWorker(w) ==
    /\ At(w, "execute")
    /\ log[seen[w].data].op = "run"
    /\ executed' = [executed EXCEPT ![w] = Append(@, log[seen[w].data])]
    /\ Enqueue(w, "run")
    /\ Goto(w, "wait")
    /\ UNCHANGED <<buffer, event, rank0, seen>>
ExitOnWorker(w) ==
    /\ At(w, "execute")
    /\ log[seen[w].data].op = "exit"
    /\ executed' = [executed EXCEPT ![w] = Append(@, log[seen[w].data])]
    /\ Enqueue(w, "barrier")
    /\ Goto(w, "leaving")
    /\ UNCHANGED <<buffer, event, rank0, seen>>
Leave(w) ==
    /\ At(w, "leaving")
    /\ Complete(w)
    /\ Goto(w, "exited")
    /\ UNCHANGED <<buffer, event, rank0, seen, executed, ops>>

Worker(w) ==
    \/ ReachBarrier(w) \/ OpenShm(w)
    \/ Wake(w) \/ ReadLength(w) \/ ReadData(w) \/ ClearEvent(w)
    \/ RunOnWorker(w) \/ ExitOnWorker(w) \/ Leave(w)

-----------------------------------------------------------------------------

TPNext ==
    \/ \E c \in RunCalls : StartRun(c)
    \/ StartExit
    \/ Rank0
    \/ \E w \in Workers : Worker(w)

TPSpec == TPInit /\ [][TPNext]_tpVars

(* Every process goes on as long as it can; nothing makes rank 0 start a    *)
(* call.                                                                   *)
FairTPSpec == TPSpec /\ WF_tpVars(Rank0) /\ \A w \in Workers : WF_tpVars(Worker(w))

-----------------------------------------------------------------------------
(* Properties                                                              *)

Collectives == {"barrier", "run"}
Locations == {"boot", "starting", "idle", "write_length", "write_data", "signal",
              "execute", "sync", "leaving", "joining", "exited",
              "wait", "read_length", "read_data", "clear", "crashed"}

TPTypeOK ==
    /\ shm \in {"absent", "stale", "ours"}
    /\ length \in Int
    /\ data \in 0 .. Len(log)
    /\ event \in [Workers -> BOOLEAN]
    /\ log \in Seq(Calls)
    /\ made \in 0 .. MaxCalls
    /\ call \in Calls
    /\ next_event \in 1 .. NumWorkers + 1
    /\ pc \in [Ranks -> Locations]
    /\ seen \in [Workers -> [length : Int, data : 0 .. Len(log)]]
    /\ executed \in [Workers -> Seq(Calls)]
    /\ ops \in [Ranks -> Seq(Collectives)]

Reading(w) == pc[w] \in {"read_length", "read_data", "clear"}

(* The buffer is not overwritten while a worker has still to read it: rank  *)
(* 0 writes only when no event is set and no worker is between event.wait  *)
(* and event.clear, although no worker ever tells it so.                   *)
BufferExclusive ==
    pc[0] \in {"write_length", "write_data"} =>
        \A w \in Workers : ~event[w] /\ ~Reading(w)

(* All ranks enqueue the same collectives in the same order, so none waits  *)
(* for a partner that is in another one; and no worker dies.               *)
RanksAgree ==
    /\ \A q, r \in Ranks : \A k \in 1 .. Len(ops[q]) :
            k <= Len(ops[r]) => ops[q][k] = ops[r][k]
    /\ \A w \in Workers : pc[w] # "crashed"

(* A worker attaches only to the segment of this engine, not to the one a   *)
(* crashed engine has left behind, and nobody uses it after it is unlinked. *)
SegmentIsOurs ==
    (\E w \in Workers : pc[w] \in {"wait", "read_length", "read_data", "clear", "execute"})
        => shm = "ours"

(* Nobody waits for ever: every call that rank 0 starts returns (or raises), *)
(* and once it has started to exit every process ends.                      *)
EveryCallReturns ==
    /\ pc[0] = "write_length" ~> pc[0] \in {"idle", "exited"}
    /\ pc[0] = "write_length" /\ call.op = "exit" ~> \A r \in Ranks : pc[r] = "exited"

(* Every worker executes exactly the calls of rank 0, in their order.       *)
BC == INSTANCE Broadcast
ImplementsBroadcast == BC!BcSpec

=============================================================================
