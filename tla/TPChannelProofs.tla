--------------------------- MODULE TPChannelProofs ---------------------------
(***************************************************************************)
(* The channel is safe although no worker ever tells rank 0 that it has     *)
(* read the buffer: for every number of workers and calls, as long as each  *)
(* batch has a row whose token rank 0 fetches.                             *)
(***************************************************************************)
EXTENDS TPChannel, TLAPS

(* Every batch samples: what chunked prefill does not guarantee.            *)
EveryBatchSamples == RowlessSteps = FALSE

Rank0Locs == {"boot", "starting", "idle", "write_length", "write_data", "signal",
              "execute", "sync", "leaving", "joining", "exited"}
WorkerLocs == {"boot", "starting", "wait", "read_length", "read_data", "clear",
               "execute", "leaving", "exited"}

(* The collectives that the log makes every rank enqueue.                   *)
OpOf(c) == IF c.op = "run" THEN "run" ELSE "barrier"
Program(k) == IF k = 1 THEN "barrier" ELSE OpOf(log[k - 1])

(* Worker w has been told of the last call and has not executed it yet; it   *)
(* is still to be told.                                                    *)
Pending(w) == event[w] \/ pc[w] = "execute"
Unsignalled(w) == pc[0] = "signal" /\ next_event <= w
Behind(w) == Pending(w) \/ Unsignalled(w)

LastIs(op) == log # <<>> /\ log[Len(log)].op = op

-----------------------------------------------------------------------------
(* The invariant: with the program order of each rank, the number of        *)
(* collectives it has enqueued tells where in the log it is.                *)

Rank0Inv ==
    /\ pc[0] \in Rank0Locs
    /\ data = Len(log)
    /\ pc[0] \in {"boot", "starting"} => log = <<>>
    /\ pc[0] \in {"signal", "execute"} => log # <<>> /\ call = log[Len(log)]
    /\ pc[0] \in {"idle", "write_length", "write_data", "sync"} => ~LastIs("exit")
    /\ pc[0] \in {"sync", "leaving", "joining", "exited"} => log # <<>>
    /\ pc[0] \in {"leaving", "joining", "exited"} => LastIs("exit")
    /\ pc[0] = "write_data" => length = Len(log) + 1
    /\ pc[0] \in {"signal", "execute", "sync", "leaving"} => length = Len(log)
    /\ pc[0] = "signal" => next_event \in Workers
    /\ pc[0] \notin {"boot", "joining", "exited"} => shm = "ours"
    /\ Len(ops[0]) = IF pc[0] \in {"boot", "signal", "execute"}
                       THEN Len(log) ELSE Len(log) + 1

WorkerInv(w) ==
    /\ pc[w] \in WorkerLocs
    /\ pc[w] = "boot" => pc[0] \in {"boot", "starting"}
    /\ pc[0] = "boot" => pc[w] \in {"boot", "starting"}
    /\ pc[w] = "boot" => ~event[w]
    /\ Reading(w) => event[w]
    /\ pc[w] = "execute" => ~event[w]
    /\ Unsignalled(w) => ~Pending(w)
    /\ Pending(w) => pc[0] \in {"signal", "execute", "sync", "leaving"}
    /\ pc[w] = "read_data" => seen[w].length = Len(log)
    /\ pc[w] \in {"clear", "execute"} => seen[w].data = Len(log)
    /\ LastIs("exit") /\ ~Behind(w) => pc[w] \in {"leaving", "exited"}
    /\ pc[0] \in {"joining", "exited"} => ~Behind(w)
    /\ Len(ops[w]) = IF pc[w] = "boot" THEN 0
                     ELSE IF Behind(w) THEN Len(log) ELSE Len(log) + 1
    /\ Len(executed[w]) = IF Behind(w) THEN Len(log) - 1 ELSE Len(log)

ProgramInv == \A r \in Ranks : \A k \in 1 .. Len(ops[r]) : ops[r][k] = Program(k)

ChannelInv ==
    /\ EveryBatchSamples
    /\ TPTypeOK
    /\ Rank0Inv
    /\ \A w \in Workers : WorkerInv(w)
    /\ ProgramInv

-----------------------------------------------------------------------------
(* Types                                                                   *)

(* What moving a rank and enqueueing a collective change.                   *)
LEMMA GotoEffect ==
    ASSUME TPTypeOK, NEW r \in Ranks, NEW l \in Locations, Goto(r, l)
    PROVE  /\ pc' \in [Ranks -> Locations]
           /\ pc'[r] = l /\ \A q \in Ranks \ {r} : pc'[q] = pc[q]
BY DEF TPTypeOK, Goto

LEMMA EnqueueEffect ==
    ASSUME TPTypeOK, NEW r \in Ranks, NEW op \in Collectives, Enqueue(r, op)
    PROVE  /\ ops' \in [Ranks -> Seq(Collectives)]
           /\ ops'[r] = Append(ops[r], op) /\ Len(ops'[r]) = Len(ops[r]) + 1
           /\ \A q \in Ranks \ {r} : ops'[q] = ops[q]
<1>1. ops \in [Ranks -> Seq(Collectives)] /\ ops' = [ops EXCEPT ![r] = Append(ops[r], op)]
  BY DEF TPTypeOK, Enqueue
<1>2. Append(ops[r], op) \in Seq(Collectives) /\ Len(Append(ops[r], op)) = Len(ops[r]) + 1
  BY <1>1
<1>. QED
  BY <1>1, <1>2

LEMMA RankFacts == 0 \in Ranks /\ 0 \notin Workers /\ Workers \subseteq Ranks /\ Workers \subseteq Nat
BY TPChannelAssumption DEF Ranks, Workers

LEMMA TypeStep == ASSUME ChannelInv, [TPNext]_tpVars PROVE TPTypeOK'
<1>. USE RankFacts
<1>0. /\ TPTypeOK
      /\ \A r \in Ranks, l \in Locations : Goto(r, l) => pc' \in [Ranks -> Locations]
      /\ \A r \in Ranks, op \in Collectives :
            Enqueue(r, op) => ops' \in [Ranks -> Seq(Collectives)]
  BY GotoEffect, EnqueueEffect DEF ChannelInv
<1>a. RunCalls \subseteq Calls /\ ExitCall \in Calls
  BY DEF Calls
<1>. USE <1>0 DEF buffer, rank0, TPTypeOK, Locations, Collectives
<1>1. ASSUME NEW c \in RunCalls, StartRun(c) PROVE TPTypeOK'
  BY <1>1, <1>a, TPChannelAssumption DEF StartRun
<1>2. CASE StartExit
  BY <1>2, <1>a DEF StartExit
<1>3. CASE CreateShm
  BY <1>3 DEF CreateShm
<1>4. CASE Started
  BY <1>4 DEF Started
<1>5. CASE WriteLength
  BY <1>5 DEF WriteLength
<1>6. CASE WriteData
  <2>1. log' = Append(log, call) /\ data' = Len(log) + 1
    BY <1>6 DEF WriteData
  <2>2. log' \in Seq(Calls) /\ Len(log') = Len(log) + 1 /\ data' \in 0 .. Len(log')
    BY <2>1
  <2>3. seen' \in [Workers -> [length : Int, data : 0 .. Len(log')]]
    BY <1>6, <2>2 DEF WriteData
  <2>. QED
    BY <1>6, <2>2, <2>3, TPChannelAssumption DEF WriteData
<1>7. CASE SetEvent
  <2>1. next_event \in Workers
    BY <1>7 DEF SetEvent, ChannelInv, Rank0Inv, At
  <2>2. next_event' \in 1 .. NumWorkers + 1
    BY <1>7, <2>1, TPChannelAssumption DEF SetEvent, Workers
  <2>. QED
    BY <1>7, <2>1, <2>2 DEF SetEvent
<1>8. CASE RunOnRank0
  BY <1>8 DEF RunOnRank0, AfterRun
<1>9. CASE Synchronized
  BY <1>9 DEF Synchronized
<1>10. CASE ExitOnRank0
  BY <1>10 DEF ExitOnRank0
<1>11. CASE Unlink
  BY <1>11 DEF Unlink
<1>12. CASE Join
  BY <1>12 DEF Join
<1>13. ASSUME NEW w \in Workers, ReachBarrier(w) PROVE TPTypeOK'
  BY <1>13 DEF ReachBarrier
<1>14. ASSUME NEW w \in Workers, OpenShm(w) PROVE TPTypeOK'
  BY <1>14 DEF OpenShm
<1>15. ASSUME NEW w \in Workers, Wake(w) PROVE TPTypeOK'
  BY <1>15 DEF Wake
<1>16. ASSUME NEW w \in Workers, ReadLength(w) PROVE TPTypeOK'
  BY <1>16 DEF ReadLength
<1>17. ASSUME NEW w \in Workers, ReadData(w) PROVE TPTypeOK'
  BY <1>17 DEF ReadData
<1>18. ASSUME NEW w \in Workers, ClearEvent(w) PROVE TPTypeOK'
  BY <1>18 DEF ClearEvent, Cleared
<1>19. ASSUME NEW w \in Workers, RunOnWorker(w) \/ ExitOnWorker(w) PROVE TPTypeOK'
  <2>1. pc[w] = "execute" /\ WorkerInv(w) /\ Rank0Inv
    BY <1>19 DEF ChannelInv, RunOnWorker, ExitOnWorker, At
  <2>2. seen[w].data = Len(log) /\ Len(log) # 0
    BY <2>1 DEF WorkerInv, Rank0Inv, Pending, LastIs
  <2>3. log[seen[w].data] \in Calls
    BY <2>2
  <2>4. executed' = [executed EXCEPT ![w] = Append(executed[w], log[seen[w].data])]
    BY <1>19 DEF RunOnWorker, ExitOnWorker
  <2>5. executed' \in [Workers -> Seq(Calls)]
    BY <2>3, <2>4
  <2>. QED
    BY <1>19, <2>5 DEF RunOnWorker, ExitOnWorker
<1>20. ASSUME NEW w \in Workers, Leave(w) PROVE TPTypeOK'
  BY <1>20 DEF Leave
<1>21. CASE UNCHANGED tpVars
  BY <1>21 DEF tpVars
<1>. QED
  BY <1>1, <1>2, <1>3, <1>4, <1>5, <1>6, <1>7, <1>8, <1>9, <1>10, <1>11, <1>12, <1>13,
     <1>14, <1>15, <1>16, <1>17, <1>18, <1>19, <1>20, <1>21
  DEF TPNext, Rank0, Worker

-----------------------------------------------------------------------------
(* Steps of a worker                                                       *)

LEMMA Rank0Frame ==
    ASSUME Rank0Inv, pc'[0] = pc[0], ops'[0] = ops[0], UNCHANGED <<buffer, rank0>>
    PROVE  Rank0Inv'
BY DEF Rank0Inv, buffer, rank0, LastIs

LEMMA WorkerFrame ==
    ASSUME NEW v \in Workers, WorkerInv(v),
           pc'[0] = pc[0], UNCHANGED <<log, next_event>>,
           pc'[v] = pc[v], event'[v] = event[v], seen'[v] = seen[v],
           executed'[v] = executed[v], ops'[v] = ops[v]
    PROVE  WorkerInv(v)'
BY DEF WorkerInv, LastIs, Reading, Pending, Unsignalled, Behind

(* A worker touches only what is its own.                                   *)
LEMMA WorkerLocal ==
    ASSUME ChannelInv, NEW w \in Workers, Worker(w)
    PROVE  /\ pc'[0] = pc[0] /\ ops'[0] = ops[0] /\ UNCHANGED <<buffer, rank0>>
           /\ \A v \in Workers \ {w} :
                /\ pc'[v] = pc[v] /\ event'[v] = event[v] /\ seen'[v] = seen[v]
                /\ executed'[v] = executed[v] /\ ops'[v] = ops[v]
<1>. USE RankFacts DEF ChannelInv, TPTypeOK, Goto, Enqueue
<1>1. CASE ReachBarrier(w) \/ Leave(w)
  BY <1>1 DEF ReachBarrier, Leave
<1>2. CASE OpenShm(w) \/ Wake(w)
  BY <1>2 DEF OpenShm, Wake
<1>3. CASE ReadLength(w) \/ ReadData(w)
  BY <1>3 DEF ReadLength, ReadData, buffer
<1>4. CASE ClearEvent(w)
  BY <1>4 DEF ClearEvent, Cleared
<1>5. CASE RunOnWorker(w) \/ ExitOnWorker(w)
  BY <1>5 DEF RunOnWorker, ExitOnWorker
<1>. QED
  BY <1>1, <1>2, <1>3, <1>4, <1>5 DEF Worker

LEMMA WorkerOwn ==
    ASSUME ChannelInv, NEW w \in Workers, Worker(w)
    PROVE  WorkerInv(w)'
<1>0. /\ WorkerInv(w) /\ Rank0Inv /\ TPTypeOK
      /\ pc'[0] = pc[0] /\ UNCHANGED <<buffer, rank0>>
  BY WorkerLocal DEF ChannelInv
<1>a. log' = log /\ next_event' = next_event /\ data = Len(log) /\ Len(log) \in Nat
  BY <1>0 DEF rank0, Rank0Inv, TPTypeOK
<1>. USE RankFacts, <1>0, <1>a DEF At
<1>1. CASE ReachBarrier(w)
  <2>1. pc'[w] = "starting" /\ event' = event /\ seen' = seen /\ executed' = executed
    BY <1>1, GotoEffect DEF ReachBarrier, Locations
  <2>2. Len(ops'[w]) = Len(ops[w]) + 1
    BY <1>1, EnqueueEffect DEF ReachBarrier, Collectives
  <2>3. pc[w] = "boot" /\ log = <<>> /\ pc[0] \in {"boot", "starting"}
    BY <1>1 DEF ReachBarrier, WorkerInv, Rank0Inv
  <2>. QED
    BY <2>1, <2>2, <2>3
    DEF WorkerInv, LastIs, Reading, Pending, Unsignalled, Behind, WorkerLocs
<1>2. CASE OpenShm(w)
  <2>1. Len(ops[0]) >= Len(ops[w]) /\ pc[w] = "starting"
    BY <1>2 DEF OpenShm, OpensAfterBarrier, Complete
  <2>2. Len(executed[w]) \in Nat /\ Len(ops[w]) \in Nat
    BY DEF TPTypeOK
  <2>3. Len(ops[w]) >= 1
    BY <2>1, <2>2 DEF WorkerInv
  <2>4. pc[0] # "boot"
    BY <2>1, <2>3 DEF Rank0Inv
  <2>5. pc[0] \notin {"joining", "exited"}
    BY <2>1 DEF WorkerInv, Rank0Inv
  <2>6. shm = "ours"
    BY <2>4, <2>5 DEF Rank0Inv
  <2>7. pc'[w] = "wait" /\ event' = event /\ seen' = seen /\ executed' = executed /\ ops' = ops
    BY <1>2, <2>6, GotoEffect DEF OpenShm, Locations
  <2>. QED
    BY <2>1, <2>4, <2>7
    DEF WorkerInv, LastIs, Reading, Pending, Unsignalled, Behind, WorkerLocs
<1>3. CASE Wake(w)
  <2>1. pc'[w] = "read_length" /\ event' = event /\ seen' = seen /\ executed' = executed /\ ops' = ops
    BY <1>3, GotoEffect DEF Wake, Locations
  <2>2. pc[w] = "wait" /\ event[w]
    BY <1>3 DEF Wake
  <2>. QED
    BY <2>1, <2>2
    DEF WorkerInv, LastIs, Reading, Pending, Unsignalled, Behind, WorkerLocs
<1>4. CASE ReadLength(w)
  <2>1. /\ pc'[w] = "read_data" /\ seen'[w].length = length
        /\ event' = event /\ executed' = executed /\ ops' = ops
    BY <1>4, GotoEffect DEF ReadLength, Locations, TPTypeOK
  <2>2. pc[w] = "read_length" /\ event[w]
    BY <1>4 DEF ReadLength, WorkerInv, Reading
  <2>3. length = Len(log)
    BY <2>2 DEF WorkerInv, Rank0Inv, Pending
  <2>. QED
    BY <2>1, <2>2, <2>3
    DEF WorkerInv, LastIs, Reading, Pending, Unsignalled, Behind, WorkerLocs
<1>5. CASE ReadData(w)
  <2>1. pc[w] = "read_data" /\ seen[w].length = data
    BY <1>5 DEF ReadData, WorkerInv
  <2>2. /\ pc'[w] = "clear" /\ seen'[w].data = data
        /\ event' = event /\ executed' = executed /\ ops' = ops
    BY <1>5, <2>1, GotoEffect DEF ReadData, Locations, TPTypeOK
  <2>. QED
    BY <2>1, <2>2
    DEF WorkerInv, LastIs, Reading, Pending, Unsignalled, Behind, WorkerLocs
<1>6. CASE ClearEvent(w)
  <2>1. /\ pc'[w] = "execute" /\ ~event'[w]
        /\ seen' = seen /\ executed' = executed /\ ops' = ops
    BY <1>6, GotoEffect DEF ClearEvent, Cleared, Locations, TPTypeOK
  <2>2. pc[w] = "clear" /\ event[w]
    BY <1>6 DEF ClearEvent, WorkerInv, Reading
  <2>. QED
    BY <2>1, <2>2
    DEF WorkerInv, LastIs, Reading, Pending, Unsignalled, Behind, WorkerLocs
<1>7. CASE RunOnWorker(w) \/ ExitOnWorker(w)
  <2>1. pc[w] = "execute" /\ seen[w].data = Len(log) /\ log # <<>>
    BY <1>7 DEF RunOnWorker, ExitOnWorker, WorkerInv, Rank0Inv, Pending
  <2>2. /\ event' = event /\ seen' = seen
        /\ executed' = [executed EXCEPT ![w] = Append(executed[w], log[Len(log)])]
    BY <1>7, <2>1 DEF RunOnWorker, ExitOnWorker
  <2>3. Len(executed'[w]) = Len(executed[w]) + 1
    BY <2>2 DEF TPTypeOK
  <2>4. Len(ops'[w]) = Len(ops[w]) + 1
    BY <1>7, EnqueueEffect DEF RunOnWorker, ExitOnWorker, Collectives
  <2>5. \/ log[Len(log)].op = "run" /\ pc'[w] = "wait"
        \/ log[Len(log)].op = "exit" /\ pc'[w] = "leaving"
    BY <1>7, <2>1, GotoEffect DEF RunOnWorker, ExitOnWorker, Locations
  <2>. QED
    BY <2>1, <2>2, <2>3, <2>4, <2>5
    DEF WorkerInv, LastIs, Reading, Pending, Unsignalled, Behind, WorkerLocs
<1>8. CASE Leave(w)
  <2>1. /\ pc[w] = "leaving" /\ pc'[w] = "exited" /\ event' = event /\ seen' = seen
        /\ executed' = executed /\ ops' = ops
    BY <1>8, GotoEffect DEF Leave, Locations
  <2>. QED
    BY <2>1
    DEF WorkerInv, LastIs, Reading, Pending, Unsignalled, Behind, WorkerLocs
<1>. QED
  BY <1>1, <1>2, <1>3, <1>4, <1>5, <1>6, <1>7, <1>8 DEF Worker

LEMMA WorkerStep ==
    ASSUME ChannelInv, NEW w \in Workers, Worker(w)
    PROVE  Rank0Inv' /\ \A v \in Workers : WorkerInv(v)'
<1>1. Rank0Inv'
  BY WorkerLocal, Rank0Frame DEF ChannelInv
<1>2. ASSUME NEW v \in Workers \ {w} PROVE WorkerInv(v)'
  BY WorkerLocal, WorkerFrame DEF ChannelInv, rank0
<1>. QED
  BY <1>1, <1>2, WorkerOwn

-----------------------------------------------------------------------------
(* Steps of rank 0                                                         *)

(* They leave the workers' own state alone, except for the events they set.  *)
LEMMA Rank0Local ==
    ASSUME ChannelInv, Rank0 \/ StartExit \/ \E c \in RunCalls : StartRun(c)
    PROVE  /\ UNCHANGED <<seen, executed>>
           /\ \A w \in Workers : pc'[w] = pc[w] /\ ops'[w] = ops[w]
           /\ ~SetEvent => event' = event
           /\ ~WriteData => UNCHANGED <<log, data>>
<1>. USE RankFacts DEF ChannelInv, TPTypeOK, Goto, Enqueue, buffer, rank0
<1>1. CASE CreateShm \/ Started
  BY <1>1 DEF CreateShm, Started
<1>2. CASE StartExit \/ \E c \in RunCalls : StartRun(c)
  BY <1>2 DEF StartExit, StartRun
<1>3. CASE WriteLength \/ WriteData \/ SetEvent
  BY <1>3 DEF WriteLength, WriteData, SetEvent
<1>4. CASE RunOnRank0 \/ Synchronized
  BY <1>4 DEF RunOnRank0, Synchronized
<1>5. CASE ExitOnRank0 \/ Unlink \/ Join
  BY <1>5 DEF ExitOnRank0, Unlink, Join
<1>. QED
  BY <1>1, <1>2, <1>3, <1>4, <1>5 DEF Rank0

(* When all collectives rank 0 has enqueued are complete, no worker is behind *)
(* with the call they belong to.                                           *)
LEMMA CompleteMeansCaughtUp ==
    ASSUME ChannelInv, Complete(0), pc[0] \in {"starting", "sync", "leaving"},
           NEW w \in Workers
    PROVE  ~Behind(w) /\ pc[w] # "boot"
<1>1. Len(ops[w]) >= Len(ops[0])
  BY RankFacts DEF Complete
<1>2. Len(ops[0]) = Len(log) + 1 /\ Len(log) \in Nat
  BY DEF ChannelInv, Rank0Inv, TPTypeOK
<1>3. WorkerInv(w)
  BY DEF ChannelInv
<1>. QED
  BY <1>1, <1>2, <1>3 DEF WorkerInv

LEMMA Rank0Step ==
    ASSUME ChannelInv, Rank0 \/ StartExit \/ \E c \in RunCalls : StartRun(c)
    PROVE  Rank0Inv' /\ \A w \in Workers : WorkerInv(w)'
<1>0. Rank0Inv /\ TPTypeOK /\ \A w \in Workers : WorkerInv(w)
  BY DEF ChannelInv
<1>. SUFFICES ASSUME NEW w \in Workers PROVE Rank0Inv' /\ WorkerInv(w)'
  BY TPChannelAssumption DEF Workers
<1>a. /\ seen' = seen /\ executed' = executed /\ pc'[w] = pc[w] /\ ops'[w] = ops[w]
      /\ ~SetEvent => event' = event
      /\ ~WriteData => log' = log /\ data' = data
  BY Rank0Local
<1>b. Len(log) \in Nat /\ WorkerInv(w)
  BY <1>0 DEF TPTypeOK
<1>. USE RankFacts, <1>0, <1>a, <1>b DEF At
<1>1. CASE StartExit \/ \E c \in RunCalls : StartRun(c)
  <2>1. /\ pc[0] = "idle" /\ pc'[0] = "write_length" /\ ops' = ops
        /\ UNCHANGED <<buffer, event, log, next_event>>
    BY <1>1, GotoEffect DEF StartExit, StartRun, Locations
  <2>2. Rank0Inv'
    BY <2>1 DEF Rank0Inv, LastIs, Rank0Locs, buffer
  <2>3. WorkerInv(w)'
    BY <2>1 DEF WorkerInv, LastIs, Reading, Pending, Unsignalled, Behind
  <2>. QED
    BY <2>2, <2>3
<1>2. CASE CreateShm
  <2>1. /\ pc[0] = "boot" /\ pc'[0] = "starting" /\ Len(ops'[0]) = Len(ops[0]) + 1
        /\ shm' = "ours" /\ UNCHANGED <<length, data, event, rank0>>
    BY <1>2, GotoEffect, EnqueueEffect DEF CreateShm, Locations, Collectives
  <2>2. Rank0Inv'
    BY <2>1 DEF Rank0Inv, LastIs, Rank0Locs, rank0
  <2>3. WorkerInv(w)'
    BY <2>1 DEF WorkerInv, LastIs, Reading, Pending, Unsignalled, Behind, rank0
  <2>. QED
    BY <2>2, <2>3
<1>3. CASE Started
  <2>1. /\ pc[0] = "starting" /\ pc'[0] = "idle" /\ Complete(0)
        /\ UNCHANGED <<buffer, event, rank0, ops>>
    BY <1>3, GotoEffect DEF Started, Locations
  <2>2. Rank0Inv'
    BY <2>1 DEF Rank0Inv, LastIs, Rank0Locs, rank0, buffer
  <2>3. ~Behind(w) /\ pc[w] # "boot"
    BY <2>1, CompleteMeansCaughtUp
  <2>4. WorkerInv(w)'
    BY <2>1, <2>3 DEF WorkerInv, LastIs, Reading, Pending, Unsignalled, Behind, rank0
  <2>. QED
    BY <2>2, <2>4
<1>4. CASE WriteLength
  <2>1. /\ pc[0] = "write_length"
        /\ \/ pc'[0] = "write_data" /\ length' = Len(log) + 1
           \/ pc'[0] = "idle"
        /\ UNCHANGED <<shm, data, event, rank0, ops>>
    BY <1>4, GotoEffect DEF WriteLength, Locations
  <2>2. Rank0Inv'
    BY <2>1 DEF Rank0Inv, LastIs, Rank0Locs, rank0
  <2>3. WorkerInv(w)'
    BY <2>1 DEF WorkerInv, LastIs, Reading, Pending, Unsignalled, Behind, rank0
  <2>. QED
    BY <2>2, <2>3
<1>5. CASE WriteData
  <2>1. /\ pc[0] = "write_data" /\ pc'[0] = "signal"
        /\ data' = Len(log) + 1 /\ log' = Append(log, call) /\ next_event' = 1
        /\ UNCHANGED <<shm, length, event, call, ops>>
    BY <1>5, GotoEffect DEF WriteData, Locations
  <2>2. /\ log \in Seq(Calls) /\ call \in Calls
    BY DEF TPTypeOK
  <2>3. /\ Len(log') = Len(log) + 1 /\ log' # <<>> /\ log'[Len(log')] = call
    BY <2>1, <2>2
  <2>4. 1 \in Workers /\ 1 <= w
    BY TPChannelAssumption DEF Workers
  <2>5. Rank0Inv'
    BY <2>1, <2>3, <2>4 DEF Rank0Inv, LastIs, Rank0Locs
  <2>6. ~Pending(w) /\ pc[w] # "boot" /\ ~Unsignalled(w)
    BY <2>1 DEF WorkerInv, Unsignalled
  <2>7. ~Pending(w)' /\ Unsignalled(w)' /\ Behind(w)' /\ ~Behind(w) /\ ~Reading(w)'
    BY <2>1, <2>4, <2>6 DEF Pending, Unsignalled, Behind, WorkerInv, Reading
  <2>8. WorkerInv(w)'
    BY <2>1, <2>3, <2>6, <2>7 DEF WorkerInv, Reading, Pending
  <2>. QED
    BY <2>5, <2>8
<1>6. CASE SetEvent
  <2>1. /\ pc[0] = "signal" /\ next_event \in Workers
        /\ event' = [event EXCEPT ![next_event] = TRUE] /\ next_event' = next_event + 1
        /\ UNCHANGED <<buffer, log, call, ops>>
    BY <1>6 DEF SetEvent, Rank0Inv
  <2>2. \/ pc'[0] = "execute" /\ next_event = NumWorkers
        \/ pc'[0] = "signal" /\ next_event + 1 \in Workers
    BY <1>6, <2>1, GotoEffect, TPChannelAssumption
    DEF SetEvent, LastEvent, Workers, Locations
  <2>3. Rank0Inv'
    BY <2>1, <2>2 DEF Rank0Inv, LastIs, Rank0Locs, buffer
  <2>4. w \in 1 .. NumWorkers /\ NumWorkers \in Nat /\ next_event \in 1 .. NumWorkers
    BY <2>1, TPChannelAssumption DEF Workers
  <2>5. CASE w = next_event
    <3>1. Unsignalled(w) /\ ~Pending(w) /\ event'[w]
      BY <2>1, <2>4, <2>5 DEF Unsignalled, WorkerInv, TPTypeOK
    <3>2. ~Unsignalled(w)' /\ Pending(w)' /\ Behind(w)' /\ Behind(w)
      BY <2>1, <2>2, <2>4, <2>5, <3>1 DEF Unsignalled, Pending, Behind
    <3>. QED
      BY <2>1, <2>2, <2>3, <3>1, <3>2 DEF WorkerInv, LastIs, Reading, Pending
  <2>6. CASE w # next_event
    <3>1. event'[w] = event[w] /\ (Unsignalled(w)' <=> Unsignalled(w))
      BY <2>1, <2>2, <2>4, <2>6 DEF Unsignalled, TPTypeOK
    <3>. QED
      BY <2>1, <2>2, <2>3, <3>1 DEF WorkerInv, LastIs, Reading, Pending, Behind
  <2>. QED
    BY <2>5, <2>6
<1>7. CASE RunOnRank0
  <2>1. /\ pc[0] = "execute" /\ call.op = "run" /\ Len(ops'[0]) = Len(ops[0]) + 1
        /\ UNCHANGED <<buffer, event, rank0>>
    BY <1>7, EnqueueEffect DEF RunOnRank0, Collectives
  <2>2. call.rows
    <3>1. call \in Calls /\ RowlessSteps = FALSE
      BY DEF ChannelInv, EveryBatchSamples, TPTypeOK
    <3>2. RunCalls = [op : {"run"}, rows : {TRUE}, fits : BOOLEAN]
      BY <3>1, Zenon DEF RunCalls
    <3>3. ExitCall.op = "exit"
      BY DEF ExitCall
    <3>4. call \in RunCalls
      BY <2>1, <3>1, <3>3 DEF Calls
    <3>. QED
      BY <3>2, <3>4
  <2>3. pc'[0] = "sync"
    BY <1>7, <2>2, GotoEffect DEF RunOnRank0, AfterRun, Locations
  <2>4. Rank0Inv'
    BY <2>1, <2>3 DEF Rank0Inv, LastIs, Rank0Locs, rank0, buffer
  <2>5. WorkerInv(w)'
    BY <2>1, <2>3 DEF WorkerInv, LastIs, Reading, Pending, Unsignalled, Behind, rank0
  <2>. QED
    BY <2>4, <2>5
<1>8. CASE Synchronized
  <2>1. /\ pc[0] = "sync" /\ pc'[0] = "idle" /\ Complete(0)
        /\ UNCHANGED <<buffer, event, rank0, ops>>
    BY <1>8, GotoEffect DEF Synchronized, Locations
  <2>2. Rank0Inv'
    BY <2>1 DEF Rank0Inv, LastIs, Rank0Locs, rank0, buffer
  <2>3. ~Behind(w) /\ pc[w] # "boot"
    BY <2>1, CompleteMeansCaughtUp
  <2>4. WorkerInv(w)'
    BY <2>1, <2>3 DEF WorkerInv, LastIs, Reading, Pending, Unsignalled, Behind, rank0
  <2>. QED
    BY <2>2, <2>4
<1>9. CASE ExitOnRank0
  <2>1. /\ pc[0] = "execute" /\ call.op = "exit" /\ pc'[0] = "leaving"
        /\ Len(ops'[0]) = Len(ops[0]) + 1 /\ UNCHANGED <<buffer, event, rank0>>
    BY <1>9, GotoEffect, EnqueueEffect DEF ExitOnRank0, Collectives, Locations
  <2>2. Rank0Inv'
    BY <2>1 DEF Rank0Inv, LastIs, Rank0Locs, rank0, buffer
  <2>3. WorkerInv(w)'
    BY <2>1 DEF WorkerInv, LastIs, Reading, Pending, Unsignalled, Behind, rank0
  <2>. QED
    BY <2>2, <2>3
<1>10. CASE Unlink
  <2>1. /\ pc[0] = "leaving" /\ pc'[0] = "joining" /\ Complete(0)
        /\ UNCHANGED <<length, data, event, rank0, ops>>
    BY <1>10, GotoEffect DEF Unlink, Locations
  <2>2. Rank0Inv'
    BY <2>1 DEF Rank0Inv, LastIs, Rank0Locs, rank0
  <2>3. ~Behind(w) /\ pc[w] # "boot"
    BY <2>1, CompleteMeansCaughtUp
  <2>4. WorkerInv(w)'
    BY <2>1, <2>3 DEF WorkerInv, LastIs, Reading, Pending, Unsignalled, Behind, rank0
  <2>. QED
    BY <2>2, <2>4
<1>11. CASE Join
  <2>1. /\ pc[0] = "joining" /\ pc'[0] = "exited"
        /\ UNCHANGED <<buffer, event, rank0, ops>>
    BY <1>11, GotoEffect DEF Join, Locations
  <2>2. Rank0Inv'
    BY <2>1 DEF Rank0Inv, LastIs, Rank0Locs, rank0, buffer
  <2>3. WorkerInv(w)'
    BY <2>1 DEF WorkerInv, LastIs, Reading, Pending, Unsignalled, Behind, rank0
  <2>. QED
    BY <2>2, <2>3
<1>. QED
  BY <1>1, <1>2, <1>3, <1>4, <1>5, <1>6, <1>7, <1>8, <1>9, <1>10, <1>11 DEF Rank0

-----------------------------------------------------------------------------
(* Every rank follows the program                                          *)

(* What has been enqueued stays in its place, and a rank enqueues only what  *)
(* its call asks for.                                                      *)
LEMMA ProgramStep ==
    ASSUME ChannelInv, [TPNext]_tpVars
    PROVE  ProgramInv'
<1>0. /\ Rank0Inv /\ TPTypeOK /\ (\A w \in Workers : WorkerInv(w)) /\ ProgramInv
      /\ ops \in [Ranks -> Seq(Collectives)] /\ log \in Seq(Calls)
  BY DEF ChannelInv, TPTypeOK
<1>. USE RankFacts, <1>0 DEF At
<1>1. CASE UNCHANGED <<log, ops>>
  BY <1>1 DEF ProgramInv, Program
<1>2. ASSUME NEW r \in Ranks, NEW op \in Collectives, Enqueue(r, op), log' = log,
             op = Program(Len(ops[r]) + 1)
      PROVE  ProgramInv'
  <2>1. ASSUME NEW q \in Ranks, NEW k \in 1 .. Len(ops'[q]) PROVE ops'[q][k] = Program(k)
    <3>1. CASE q # r
      BY <1>2, <2>1, <3>1, EnqueueEffect DEF ProgramInv
    <3>2. CASE q = r
      <4>1. ops'[r] = Append(ops[r], op) /\ Len(ops'[r]) = Len(ops[r]) + 1
        BY <1>2, EnqueueEffect
      <4>2. CASE k = Len(ops[r]) + 1
        BY <1>2, <3>2, <4>1, <4>2
      <4>3. CASE k # Len(ops[r]) + 1
        <5>1. k \in 1 .. Len(ops[r])
          BY <2>1, <3>2, <4>1, <4>3
        <5>2. ops'[r][k] = ops[r][k]
          BY <4>1, <5>1
        <5>. QED
          BY <3>2, <5>1, <5>2 DEF ProgramInv
      <4>. QED
        BY <4>2, <4>3
    <3>. QED
      BY <3>1, <3>2
  <2>. QED
    BY <1>2, <2>1 DEF ProgramInv, Program
<1>3. CASE WriteData
  <2>1. log' = Append(log, call) /\ ops' = ops
    BY <1>3 DEF WriteData
  <2>2. pc[0] = "write_data" /\ Len(ops[0]) = Len(log) + 1
    BY <1>3 DEF WriteData, Rank0Inv
  <2>3. ASSUME NEW q \in Ranks PROVE Len(ops[q]) <= Len(log) + 1
    BY <2>2, <2>3 DEF WorkerInv, Ranks, Workers
  <2>4. ASSUME NEW k \in 1 .. Len(log) + 1 PROVE Program(k)' = Program(k)
    BY <2>1, <2>4 DEF Program, TPTypeOK
  <2>5. ASSUME NEW q \in Ranks, NEW k \in 1 .. Len(ops[q]) PROVE ops[q][k] = Program(k)'
    BY <2>3, <2>4, <2>5 DEF ProgramInv
  <2>. QED
    BY <2>1, <2>5 DEF ProgramInv
<1>4. CASE CreateShm
  <2>1. Enqueue(0, "barrier") /\ log' = log /\ pc[0] = "boot"
    BY <1>4 DEF CreateShm, rank0
  <2>2. Len(ops[0]) + 1 = 1
    BY <2>1 DEF Rank0Inv
  <2>. QED
    BY <1>2, <2>1, <2>2 DEF Program, Collectives
<1>5. CASE RunOnRank0 \/ ExitOnRank0
  <2>1. pc[0] = "execute" /\ log' = log
    BY <1>5 DEF RunOnRank0, ExitOnRank0, rank0
  <2>2. Len(ops[0]) = Len(log) /\ Len(log) # 0 /\ call = log[Len(log)]
    BY <2>1 DEF Rank0Inv
  <2>3. Program(Len(ops[0]) + 1) = OpOf(call)
    BY <2>2 DEF Program
  <2>4. Enqueue(0, OpOf(call)) /\ OpOf(call) \in Collectives
    BY <1>5 DEF RunOnRank0, ExitOnRank0, OpOf, Collectives
  <2>. QED
    BY <1>2, <2>1, <2>3, <2>4
<1>6. ASSUME NEW w \in Workers, ReachBarrier(w) PROVE ProgramInv'
  <2>1. Enqueue(w, "barrier") /\ log' = log /\ pc[w] = "boot"
    BY <1>6 DEF ReachBarrier, rank0
  <2>2. Len(ops[w]) + 1 = 1
    BY <2>1 DEF WorkerInv
  <2>. QED
    BY <1>2, <2>1, <2>2 DEF Program, Collectives
<1>7. ASSUME NEW w \in Workers, RunOnWorker(w) \/ ExitOnWorker(w) PROVE ProgramInv'
  <2>1. pc[w] = "execute" /\ log' = log
    BY <1>7 DEF RunOnWorker, ExitOnWorker, rank0
  <2>2. Len(ops[w]) = Len(log) /\ Len(log) # 0 /\ seen[w].data = Len(log)
    BY <2>1 DEF Rank0Inv, WorkerInv, Pending, Behind
  <2>3. Program(Len(ops[w]) + 1) = OpOf(log[seen[w].data])
    BY <2>2 DEF Program
  <2>4. Enqueue(w, OpOf(log[seen[w].data])) /\ OpOf(log[seen[w].data]) \in Collectives
    BY <1>7 DEF RunOnWorker, ExitOnWorker, OpOf, Collectives
  <2>. QED
    BY <1>2, <2>1, <2>3, <2>4
<1>8. CASE StartExit \/ \E c \in RunCalls : StartRun(c)
  BY <1>1, <1>8 DEF StartExit, StartRun
<1>9. CASE Started \/ WriteLength \/ SetEvent
  BY <1>1, <1>9 DEF Started, WriteLength, SetEvent, rank0
<1>10. CASE Synchronized \/ Unlink \/ Join
  BY <1>1, <1>10 DEF Synchronized, Unlink, Join, rank0
<1>11. ASSUME NEW w \in Workers, OpenShm(w) \/ Wake(w) \/ ReadLength(w) PROVE ProgramInv'
  BY <1>1, <1>11 DEF OpenShm, Wake, ReadLength, rank0
<1>12. ASSUME NEW w \in Workers, ReadData(w) \/ ClearEvent(w) \/ Leave(w) PROVE ProgramInv'
  BY <1>1, <1>12 DEF ReadData, ClearEvent, Leave, rank0
<1>13. CASE UNCHANGED tpVars
  BY <1>1, <1>13 DEF tpVars, rank0
<1>. QED
  BY <1>3, <1>4, <1>5, <1>6, <1>7, <1>8, <1>9, <1>10, <1>11, <1>12, <1>13
  DEF TPNext, Rank0, Worker

-----------------------------------------------------------------------------
(* Theorems                                                                *)

LEMMA ChannelInit == EveryBatchSamples /\ TPInit => ChannelInv
<1> SUFFICES ASSUME EveryBatchSamples, TPInit PROVE ChannelInv
  OBVIOUS
<1>1. TPTypeOK
  <2>1. ExitCall \in Calls /\ <<>> \in Seq(Calls) /\ <<>> \in Seq(Collectives)
    BY DEF Calls
  <2>2. /\ "boot" \in Locations /\ 1 \in 1 .. NumWorkers + 1 /\ 0 \in 0 .. MaxCalls
        /\ 0 \in 0 .. Len(<<>>)
    BY TPChannelAssumption DEF Locations
  <2>. QED
    BY <2>1, <2>2 DEF TPInit, TPTypeOK
<1>2. /\ \A r \in Ranks : pc[r] = "boot" /\ ops[r] = <<>>
      /\ \A w \in Workers : ~event[w] /\ executed[w] = <<>>
      /\ log = <<>> /\ data = 0
  BY DEF TPInit
<1>3. Rank0Inv
  BY <1>2, RankFacts DEF Rank0Inv, Rank0Locs, LastIs
<1>4. \A w \in Workers : WorkerInv(w)
  BY <1>2, RankFacts
  DEF WorkerInv, WorkerLocs, LastIs, Reading, Pending, Unsignalled, Behind
<1>5. ProgramInv
  BY <1>2 DEF ProgramInv
<1>. QED
  BY <1>1, <1>3, <1>4, <1>5 DEF ChannelInv

LEMMA ChannelStep == ChannelInv /\ [TPNext]_tpVars => ChannelInv'
<1> SUFFICES ASSUME ChannelInv, [TPNext]_tpVars PROVE ChannelInv'
  OBVIOUS
<1>1. Rank0Inv' /\ \A w \in Workers : WorkerInv(w)'
  <2>1. CASE Rank0 \/ StartExit \/ \E c \in RunCalls : StartRun(c)
    BY <2>1, Rank0Step
  <2>2. CASE \E w \in Workers : Worker(w)
    BY <2>2, WorkerStep
  <2>3. CASE UNCHANGED tpVars
    <3>1. Rank0Inv'
      BY <2>3, Rank0Frame DEF ChannelInv, tpVars
    <3>2. \A w \in Workers : WorkerInv(w)'
      BY <2>3, WorkerFrame DEF ChannelInv, tpVars, rank0
    <3>. QED
      BY <3>1, <3>2
  <2>. QED
    BY <2>1, <2>2, <2>3 DEF TPNext
<1>. QED
  BY <1>1, TypeStep, ProgramStep DEF ChannelInv, EveryBatchSamples

LEMMA ChannelAlways == EveryBatchSamples /\ TPSpec => []ChannelInv
BY ChannelInit, ChannelStep, PTL DEF TPSpec

(* Every variable of the channel keeps its domain.                          *)
THEOREM ChannelTypeCorrect == EveryBatchSamples /\ TPSpec => []TPTypeOK
<1>1. ChannelInv => TPTypeOK
  BY DEF ChannelInv
<1>. QED
  BY <1>1, ChannelAlways, PTL

(* Rank 0 never overwrites a call that a worker has still to read, for any   *)
(* number of workers and calls: fetching the sampled tokens stands in for    *)
(* the acknowledgement write_shm does not wait for.                         *)
THEOREM ChannelExclusive == EveryBatchSamples /\ TPSpec => []BufferExclusive
<1>1. ChannelInv => BufferExclusive
  BY DEF ChannelInv, Rank0Inv, WorkerInv, BufferExclusive, Pending
<1>. QED
  BY <1>1, ChannelAlways, PTL

(* No two ranks are ever in different collectives, and no worker dies of a   *)
(* torn call or a missing segment.                                         *)
THEOREM ChannelAgrees == EveryBatchSamples /\ TPSpec => []RanksAgree
<1>1. ChannelInv => RanksAgree
  <2>1. ASSUME ChannelInv, NEW q \in Ranks, NEW r \in Ranks, NEW k \in 1 .. Len(ops[q]),
               k <= Len(ops[r])
        PROVE  ops[q][k] = ops[r][k]
    <3>1. ops[r] \in Seq(Collectives) /\ ops[q] \in Seq(Collectives)
      BY <2>1 DEF ChannelInv, TPTypeOK
    <3>2. k \in 1 .. Len(ops[r])
      BY <2>1, <3>1
    <3>. QED
      BY <2>1, <3>2 DEF ChannelInv, ProgramInv
  <2>2. ChannelInv => \A w \in Workers : pc[w] # "crashed"
    BY DEF ChannelInv, WorkerInv, WorkerLocs
  <2>. QED
    BY <2>1, <2>2 DEF RanksAgree
<1>. QED
  BY <1>1, ChannelAlways, PTL

(* A worker that has opened the segment has opened that of its own engine,   *)
(* and the segment lives until no worker uses it any more.                  *)
THEOREM ChannelSegment == EveryBatchSamples /\ TPSpec => []SegmentIsOurs
<1>1. ChannelInv => SegmentIsOurs
  BY DEF ChannelInv, Rank0Inv, WorkerInv, SegmentIsOurs
<1>. QED
  BY <1>1, ChannelAlways, PTL

(* Whatever the interleaving of buffer and event accesses, a step announces   *)
(* a call to workers that have all executed the previous ones, lets one     *)
(* worker execute the next call, or is invisible.                          *)
LEMMA ChannelRefines ==
    ChannelInv /\ [TPNext]_tpVars => [BC!BcNext]_<<log, executed>>
<1> SUFFICES ASSUME ChannelInv, [TPNext]_tpVars
             PROVE  BC!BcNext \/ UNCHANGED <<log, executed>>
  OBVIOUS
<1>0. Rank0Inv /\ TPTypeOK /\ \A w \in Workers : WorkerInv(w)
  BY DEF ChannelInv
<1>1. CASE WriteData
  <2>1. pc[0] = "write_data" /\ log' = Append(log, call) /\ executed' = executed
    BY <1>1 DEF WriteData, At
  <2>2. \A w \in Workers : Len(executed[w]) = Len(log)
    BY <1>0, <2>1 DEF WorkerInv, Behind, Unsignalled
  <2>3. call \in Calls
    BY <1>0 DEF TPTypeOK
  <2>4. BC!Announce(call)
    BY <2>1, <2>2 DEF BC!Announce
  <2>. QED
    BY <2>3, <2>4 DEF BC!BcNext
<1>2. ASSUME NEW w \in Workers, RunOnWorker(w) \/ ExitOnWorker(w)
      PROVE  BC!BcNext
  <2>1. /\ pc[w] = "execute" /\ log' = log
        /\ executed' = [executed EXCEPT ![w] = Append(executed[w], log[seen[w].data])]
    BY <1>2 DEF RunOnWorker, ExitOnWorker, At, rank0
  <2>2. /\ Len(executed[w]) = Len(log) - 1 /\ seen[w].data = Len(log)
        /\ Len(log) \in Nat
    BY <1>0, <2>1 DEF WorkerInv, Behind, Pending, TPTypeOK
  <2>3. Len(executed[w]) < Len(log) /\ Len(executed[w]) + 1 = seen[w].data
    BY <2>2
  <2>4. BC!Execute(w)
    BY <2>1, <2>3 DEF BC!Execute
  <2>. QED
    BY <2>4 DEF BC!BcNext
<1>3. CASE StartExit \/ \E c \in RunCalls : StartRun(c)
  BY <1>3 DEF StartExit, StartRun
<1>4. CASE CreateShm \/ Started \/ WriteLength \/ SetEvent
  BY <1>4 DEF CreateShm, Started, WriteLength, SetEvent, rank0
<1>5. CASE RunOnRank0 \/ Synchronized \/ ExitOnRank0 \/ Unlink \/ Join
  BY <1>5 DEF RunOnRank0, Synchronized, ExitOnRank0, Unlink, Join, rank0
<1>6. ASSUME NEW w \in Workers, ReachBarrier(w) \/ OpenShm(w) \/ Wake(w) \/ ReadLength(w)
      PROVE  UNCHANGED <<log, executed>>
  BY <1>6 DEF ReachBarrier, OpenShm, Wake, ReadLength, rank0
<1>7. ASSUME NEW w \in Workers, ReadData(w) \/ ClearEvent(w) \/ Leave(w)
      PROVE  UNCHANGED <<log, executed>>
  BY <1>7 DEF ReadData, ClearEvent, Leave, rank0
<1>8. CASE UNCHANGED tpVars
  BY <1>8 DEF tpVars, rank0
<1>. QED
  BY <1>1, <1>2, <1>3, <1>4, <1>5, <1>6, <1>7, <1>8 DEF TPNext, Rank0, Worker

(* The channel implements Broadcast: every worker executes each call of rank  *)
(* 0 exactly once and in order, for any number of workers and calls.        *)
THEOREM ChannelImplements == EveryBatchSamples /\ TPSpec => ImplementsBroadcast
<1>1. TPInit => BC!BcInit
  BY DEF TPInit, BC!BcInit
<1>2. ChannelInv /\ [TPNext]_tpVars => [BC!BcNext]_(BC!bcVars)
  BY ChannelRefines DEF BC!bcVars
<1>. QED
  BY <1>1, <1>2, ChannelAlways, PTL DEF TPSpec, ImplementsBroadcast, BC!BcSpec
=============================================================================
