------------------------- MODULE ModelRunnerProofs --------------------------
(***************************************************************************)
(* Theorems about ModelRunner, for every set of configurations and buckets,  *)
(* any number of engines, requests and pages, any page size: one capture    *)
(* session per process, metadata no check rejects, nothing left behind by    *)
(* a run, counters that account for every batch, forward passes that compute *)
(* the reference by every route, and samples that reach their requests.     *)
(***************************************************************************)
EXTENDS ModelRunner, TLAPS, FiniteSetTheorems, WellFoundedInduction

Engines ==
    [phase : RunnerPhases] \cup [phase : RunnerPhases, config : Configs, capable : BOOLEAN]

(* An engine that may still create its graph states.                        *)
Creating ==
    /\ engine.phase \in {"warmup", "allocate"}
    /\ engine.capable
    /\ DOMAIN graph_states = {}

(* The claim on the session is recorded in the flag before the session       *)
(* begins, and while an engine may still begin it there was none.           *)
SessionInv ==
    /\ attempted \in BOOLEAN
    /\ engine \in Engines
    /\ sessions \in {0, 1}
    /\ sessions = 1 => attempted
    /\ engine.phase \in {"warmup", "allocate"} /\ engine.capable =>
            attempted /\ Buckets # {}
    /\ Creating => sessions = 0

-----------------------------------------------------------------------------

(* A step that leaves the flag, the session and the engine alone and keeps   *)
(* the graph states (their contents may change) keeps the invariant.        *)
LEMMA SessionFrame ==
    ASSUME SessionInv,
           attempted' = attempted, sessions' = sessions, engine' = engine,
           DOMAIN graph_states' = DOMAIN graph_states
    PROVE  SessionInv'
BY DEF SessionInv, Creating, Buckets, MaxDecodeBatch

(* So does one after which the engine is past the creation of graph states.  *)
LEMMA SessionPast ==
    ASSUME SessionInv,
           attempted' = attempted, sessions' = sessions,
           engine' \in Engines, engine'.phase \notin {"warmup", "allocate"}
    PROVE  SessionInv'
BY DEF SessionInv, Creating

(* A change of the phase keeps the rest of the engine.                      *)
LEMMA PhaseChange ==
    ASSUME SessionInv, NEW p \in RunnerPhases, engine' = [engine EXCEPT !.phase = p]
    PROVE  /\ engine' \in Engines /\ engine'.phase = p
           /\ engine.phase \in {"warmup", "allocate"} => engine'.capable = engine.capable
BY DEF SessionInv, Engines

(* Construct claims the session at most once.                               *)
LEMMA SessionConstruct ==
    ASSUME SessionInv, NEW config \in Configs, Construct(config)
    PROVE  SessionInv'
<1>1. /\ engine'.capable = (Capable(config) /\ ~attempted)
      /\ attempted' = (attempted \/ Capable(config))
      /\ sessions' = sessions
  BY DEF Construct, batchVars
<1>a. engine' \in Engines /\ attempted' \in BOOLEAN
  BY DEF Construct, SessionInv, Engines, RunnerPhases, Capable, SupportsFullDecodeGraph
<1>2. engine'.capable => attempted' /\ Buckets # {} /\ sessions = 0
  BY <1>1 DEF Capable, SessionInv
<1>. QED
  BY <1>1, <1>2, <1>a DEF SessionInv, Creating, Buckets, MaxDecodeBatch

(* The session begins once: afterwards there are graph states, because there *)
(* is a bucket.                                                            *)
LEMMA SessionBegins ==
    ASSUME SessionInv, InitializeGraphStates
    PROVE  SessionInv'
<1>1. /\ engine.phase = "allocate" /\ engine.capable /\ engine' = engine
      /\ DOMAIN graph_states = {} /\ DOMAIN graph_states' = Buckets
      /\ attempted' = attempted /\ sessions' = sessions + 1
  BY DEF InitializeGraphStates, NoGraphs
<1>2. attempted /\ Buckets # {} /\ sessions = 0
  BY <1>1 DEF SessionInv, Creating
<1>3. sessions' = 1 /\ attempted' /\ attempted' \in BOOLEAN /\ engine' \in Engines
  BY <1>1, <1>2 DEF SessionInv
<1>4. ~Creating' /\ Buckets # {}
  BY <1>1, <1>2 DEF Creating
<1>. QED
  BY <1>3, <1>4 DEF SessionInv, Buckets, MaxDecodeBatch

LEMMA SessionStep == SessionInv /\ [Next]_vars => SessionInv'
<1> SUFFICES ASSUME SessionInv, [Next]_vars PROVE SessionInv'
  OBVIOUS
<1>1. ASSUME NEW config \in Configs, Construct(config) PROVE SessionInv'
  BY <1>1, SessionConstruct
<1>2. ASSUME NEW config \in Configs, ConstructFails(config) PROVE SessionInv'
  <2>1. engine' \in Engines /\ engine'.phase = "rejected"
    BY <1>2 DEF ConstructFails, Engines, RunnerPhases
  <2>. QED
    BY <1>2, <2>1, SessionPast DEF ConstructFails
<1>3. CASE WarmupModel
  BY <1>3, SessionFrame DEF WarmupModel, StartRun, processVars
<1>4. CASE WarmupEnd
  <2>1. /\ engine.phase = "warmup" /\ engine' = [engine EXCEPT !.phase = "allocate"]
        /\ attempted' = attempted /\ sessions' = sessions
        /\ graph_states' = graph_states
    BY <1>4 DEF WarmupEnd, processVars
  <2>2. engine' \in Engines /\ engine'.capable = engine.capable
    BY <2>1, PhaseChange DEF RunnerPhases
  <2>. QED
    BY <2>1, <2>2 DEF SessionInv, Creating, Buckets, MaxDecodeBatch
<1>5. CASE InitializeGraphStates
  BY <1>5, SessionBegins
<1>6. CASE AllocateKvCache
  <2>1. CASE graph_states = NoGraphs
    <3>1. engine' \in Engines /\ engine'.phase = "serving"
      BY <1>6, <2>1, PhaseChange DEF AllocateKvCache, RunnerPhases
    <3>. QED
      BY <1>6, <3>1, SessionPast DEF AllocateKvCache, processVars
  <2>2. CASE graph_states # NoGraphs
    <3>1. engine' \in Engines /\ engine'.phase = "capture"
      BY <1>6, <2>2, PhaseChange DEF AllocateKvCache, RunnerPhases
    <3>. QED
      BY <1>6, <3>1, SessionPast DEF AllocateKvCache, processVars
  <2>. QED
    BY <2>1, <2>2
<1>7. CASE BeginCapture
  <2>1. DOMAIN graph_states' = DOMAIN graph_states
    BY <1>7 DEF BeginCapture
  <2>. QED
    BY <1>7, <2>1, SessionFrame DEF BeginCapture, processVars
<1>8. CASE EndCapture
  <2>1. DOMAIN graph_states' = DOMAIN graph_states
        /\ attempted' = attempted /\ sessions' = sessions
    BY <1>8 DEF EndCapture, processVars
  <2>2. CASE Uncaptured = {active_graph}
    <3>1. engine' \in Engines /\ engine'.phase = "serving"
      BY <1>8, <2>2, PhaseChange DEF EndCapture, RunnerPhases
    <3>. QED
      BY <2>1, <3>1, SessionPast
  <2>3. CASE Uncaptured # {active_graph}
    <3>1. engine' = engine
      BY <1>8, <2>3 DEF EndCapture
    <3>. QED
      BY <2>1, <3>1, SessionFrame
  <2>. QED
    BY <2>2, <2>3
<1>9. CASE CaptureFails
  <2>1. engine' \in Engines /\ engine'.phase = "broken"
    BY <1>9, PhaseChange DEF CaptureFails, RunnerPhases
  <2>. QED
    BY <1>9, <2>1, SessionPast DEF CaptureFails, processVars
<1>10. ASSUME NEW r \in Requests, NEW n \in 1 .. MaxNumBatchedTokens,
              NEW d \in Requests \cup {NoRequest}, AddRow(r, n, d)
       PROVE SessionInv'
  BY <1>10, SessionFrame DEF AddRow, processVars, runnerVars
<1>11. CASE PrepareModelInput
  BY <1>11, SessionFrame DEF PrepareModelInput, StartRun, processVars
<1>12. CASE BuildPlan
  BY <1>12, SessionFrame DEF BuildPlan, processVars
<1>13. CASE SelectRuntimeMode
  BY <1>13, SessionFrame DEF SelectRuntimeMode, processVars
<1>14. CASE RunEagerly
  BY <1>14, SessionFrame DEF RunEagerly, processVars
<1>15. CASE ReplayGraph
  <2>1. DOMAIN graph_states' = DOMAIN graph_states
    BY <1>15 DEF ReplayGraph
  <2>. QED
    BY <1>15, <2>1, SessionFrame DEF ReplayGraph, processVars
<1>16. CASE Sample
  BY <1>16, SessionFrame DEF Sample, processVars
<1>17. CASE RunFails
  <2>1. engine' \in Engines /\ engine'.phase = "absent"
    BY <1>17 DEF RunFails, Discard, Engines, RunnerPhases
  <2>. QED
    BY <1>17, <2>1, SessionPast DEF RunFails, Discard, StaysAttempted
<1>18. CASE Postprocess
  BY <1>18, SessionFrame DEF Postprocess, processVars
<1>19. CASE Exit
  <2>1. engine' \in Engines /\ engine'.phase = "absent"
    BY <1>19 DEF Exit, Discard, Engines, RunnerPhases
  <2>. QED
    BY <1>19, <2>1, SessionPast DEF Exit, Discard, StaysAttempted
<1>20. CASE UNCHANGED vars
  BY <1>20, SessionFrame DEF vars, processVars, runnerVars
<1>. QED
  BY <1>1, <1>2, <1>3, <1>4, <1>5, <1>6, <1>7, <1>8, <1>9, <1>10, <1>11, <1>12,
     <1>13, <1>14, <1>15, <1>16, <1>17, <1>18, <1>19, <1>20
  DEF Next, Initialize, Capture, Run

LEMMA SessionInit == Init => SessionInv
<1> SUFFICES ASSUME Init PROVE SessionInv
  OBVIOUS
<1>1. engine \in Engines /\ engine.phase = "absent"
  BY DEF Init, Engines, RunnerPhases
<1>2. attempted \in BOOLEAN /\ sessions = 0
  BY DEF Init
<1>3. engine.phase \notin {"warmup", "allocate"}
  BY <1>1
<1>4. sessions \in {0, 1} /\ sessions # 1
  BY <1>2
<1>. QED
  BY <1>1, <1>2, <1>3, <1>4, Zenon DEF SessionInv, Creating

(* However many engines a process starts, it initializes graph states at     *)
(* most once.                                                              *)
THEOREM CapturesOnce == Spec => []OneCaptureSession
<1>1. SessionInv => OneCaptureSession
  BY DEF SessionInv, OneCaptureSession
<1>. QED
  BY <1>1, SessionInit, SessionStep, PTL DEF Spec

-----------------------------------------------------------------------------
(***************************************************************************)
(* Induction over a set of numbers: a set that has 0, and each number up to *)
(* L after one it has, has L.                                              *)
(***************************************************************************)
LEMMA Least ==
    ASSUME NEW S, S \subseteq Nat, S # {}
    PROVE  \E m \in S : \A x \in S : m <= x
<1>1. IsWellFoundedOn(OpToRel(<, Nat), Nat)
  BY NatLessThanWellFounded
<1>2. \E x \in S : \A y \in S : ~(<<y, x>> \in OpToRel(<, Nat))
  BY <1>1, WFMin
<1>3. PICK m \in S : \A y \in S : ~(y < m)
  BY <1>2 DEF OpToRel
<1>4. \A y \in S : y \in Nat /\ m \in Nat /\ m <= y
  BY <1>3
<1>. QED
  BY <1>4

LEMMA Ascent ==
    ASSUME NEW G, 0 \in G, NEW L \in Nat, \A n \in 1 .. L : n - 1 \in G => n \in G
    PROVE  \A n \in 0 .. L : n \in G
<1> DEFINE Bad == {n \in Nat : n <= L /\ n \notin G}
<1>1. ASSUME Bad # {} PROVE FALSE
  <2>1. PICK m \in Bad : \A x \in Bad : m <= x
    BY <1>1, Least
  <2>2. m # 0
    BY <2>1
  <2>3. m \in 1 .. L /\ m - 1 \in Nat /\ m - 1 \notin Bad
    BY <2>1, <2>2
  <2>. QED
    BY <2>1, <2>3
<1>. QED
  BY <1>1

-----------------------------------------------------------------------------
(* Offsets                                                                 *)

OffsetStep(f, counts, i) == IF i = 1 THEN 0 ELSE f[i - 1] + counts[i - 1]

(* The recursive function Offsets is defined by exists.                     *)
LEMMA OffsetsExist ==
    ASSUME NEW counts, Len(counts) \in Nat
    PROVE  \E f : f = [i \in 1 .. Len(counts) + 1 |-> OffsetStep(f, counts, i)]
<1> DEFINE Upto(m) == \E f : f = [i \in 1 .. m + 1 |-> OffsetStep(f, counts, i)]
           G == {m \in Nat : Upto(m)}
<1>1. Upto(0)
  <2> DEFINE g == [i \in 1 .. 1 |-> 0]
  <2>1. g = [i \in 1 .. 1 |-> OffsetStep(g, counts, i)]
    BY DEF OffsetStep
  <2>. QED
    BY <2>1
<1>2. ASSUME NEW m \in 1 .. Len(counts), Upto(m - 1) PROVE Upto(m)
  <2>1. PICK f : f = [i \in 1 .. m |-> OffsetStep(f, counts, i)]
    BY <1>2
  <2> DEFINE g == [i \in 1 .. m + 1 |-> OffsetStep(f, counts, i)]
  <2>2. ASSUME NEW i \in 1 .. m PROVE g[i] = f[i]
    <3>1. f[i] = OffsetStep(f, counts, i)
      BY <2>1
    <3>. QED
      BY <3>1
  <2>3. ASSUME NEW i \in 1 .. m + 1 PROVE g[i] = OffsetStep(g, counts, i)
    <3>1. g[i] = OffsetStep(f, counts, i)
      OBVIOUS
    <3>2. i # 1 => i - 1 \in 1 .. m
      OBVIOUS
    <3>3. i # 1 => g[i - 1] = f[i - 1]
      BY <2>2, <3>2
    <3>. HIDE DEF g
    <3>. QED
      BY <3>1, <3>3 DEF OffsetStep
  <2>4. g = [i \in 1 .. m + 1 |-> OffsetStep(g, counts, i)]
    BY <2>3
  <2>. QED
    BY <2>4
<1>3. 0 \in G /\ \A m \in 1 .. Len(counts) : m - 1 \in G => m \in G
  BY <1>1, <1>2
<1>. HIDE DEF G
<1>4. PICK L \in Nat : L = Len(counts)
  OBVIOUS
<1>5. \A m \in 0 .. L : m \in G
  BY <1>3, <1>4, Ascent
<1>6. Len(counts) \in G
  BY <1>4, <1>5
<1>. QED
  BY <1>6 DEF G

(* Offsets are partial sums.                                               *)
LEMMA OffsetsUnfolded ==
    ASSUME NEW counts, Len(counts) \in Nat
    PROVE  /\ Offsets(counts) = [i \in 1 .. Len(counts) + 1 |->
                                    OffsetStep(Offsets(counts), counts, i)]
<1> DEFINE f == CHOOSE f : f = [i \in 1 .. Len(counts) + 1 |->
                    IF i = 1 THEN 0 ELSE f[i - 1] + counts[i - 1]]
<1>1. f = [i \in 1 .. Len(counts) + 1 |-> IF i = 1 THEN 0 ELSE f[i - 1] + counts[i - 1]]
  <2>1. \E h : h = [i \in 1 .. Len(counts) + 1 |->
                    IF i = 1 THEN 0 ELSE h[i - 1] + counts[i - 1]]
    BY OffsetsExist DEF OffsetStep
  <2>. QED
    BY <2>1
<1>2. Offsets(counts) = f
  BY DEF Offsets
<1>. HIDE DEF f
<1>. QED
  BY <1>1, <1>2 DEF OffsetStep

LEMMA OffsetsFacts ==
    ASSUME NEW counts \in Seq(Nat), NEW L \in Nat, L = Len(counts)
    PROVE  /\ Offsets(counts) \in [1 .. L + 1 -> Nat]
           /\ Offsets(counts) \in Seq(Nat) /\ Len(Offsets(counts)) = L + 1
           /\ Offsets(counts)[1] = 0
           /\ \A i \in 1 .. L : Offsets(counts)[i + 1] = Offsets(counts)[i] + counts[i]
<1> DEFINE o == Offsets(counts)
<1>1. o = [i \in 1 .. L + 1 |-> OffsetStep(o, counts, i)]
  BY OffsetsUnfolded
<1>. HIDE DEF o
<1>2. DOMAIN o = 1 .. L + 1 /\ \A i \in 1 .. L + 1 : o[i] = OffsetStep(o, counts, i)
  BY <1>1
<1>3. o[1] = 0
  BY <1>2 DEF OffsetStep
<1>4. ASSUME NEW i \in 1 .. L PROVE o[i + 1] = o[i] + counts[i]
  BY <1>2 DEF OffsetStep
<1> DEFINE G == {n \in Nat : n <= L => o[n + 1] \in Nat}
<1>5. 0 \in G
  BY <1>3
<1>6. ASSUME NEW n \in 1 .. L, n - 1 \in G PROVE n \in G
  <2>1. o[n] \in Nat /\ counts[n] \in Nat
    BY <1>6
  <2>. QED
    BY <1>4, <2>1
<1>7. \A n \in 0 .. L : n \in G
  <2>. HIDE DEF G
  <2>. QED
    BY <1>5, <1>6, Ascent
<1>8. \A i \in 1 .. L + 1 : o[i] \in Nat
  <2>1. ASSUME NEW i \in 1 .. L + 1 PROVE o[i] \in Nat
    <3>1. i - 1 \in 0 .. L
      OBVIOUS
    <3>2. i - 1 \in G
      BY <1>7, <3>1
    <3>. QED
      BY <3>1, <3>2
  <2>. QED
    BY <2>1
<1>9. o \in [1 .. L + 1 -> Nat]
  BY <1>1, <1>2, <1>8
<1>10. o \in Seq(Nat) /\ Len(o) = L + 1
  BY <1>9
<1>. QED
  BY <1>3, <1>4, <1>9, <1>10 DEF o

(* Two sums whose summands agree agree.                                     *)
LEMMA OffsetsUnique ==
    ASSUME NEW counts \in Seq(Nat), NEW L \in Nat, L = Len(counts), NEW sum, sum[1] = 0,
           \A i \in 1 .. L : sum[i + 1] = sum[i] + counts[i]
    PROVE  \A i \in 1 .. L + 1 : Offsets(counts)[i] = sum[i]
<1> DEFINE o == Offsets(counts)
           G == {n \in Nat : n <= L => o[n + 1] = sum[n + 1]}
<1>1. o[1] = 0 /\ \A i \in 1 .. L : o[i + 1] = o[i] + counts[i]
  BY OffsetsFacts
<1>. HIDE DEF o
<1>2. 0 \in G
  BY <1>1
<1>3. ASSUME NEW n \in 1 .. L, n - 1 \in G PROVE n \in G
  <2>1. o[n] = sum[n]
    BY <1>3
  <2>. QED
    BY <1>1, <2>1
<1>4. \A n \in 0 .. L : n \in G
  <2>. HIDE DEF G
  <2>. QED
    BY <1>2, <1>3, Ascent
<1>5. ASSUME NEW i \in 1 .. L + 1 PROVE o[i] = sum[i]
  <2>1. i - 1 \in 0 .. L
    OBVIOUS
  <2>2. i - 1 \in G
    BY <1>4, <2>1
  <2>. QED
    BY <2>1, <2>2
<1>. QED
  BY <1>5 DEF o

LEMMA OneMore == \A x, n \in Int : x + (n - 1) + 1 = x + n
OBVIOUS

(* Sums of ones from a row on, and of bounded summands.                     *)
LEMMA OffsetsOnes ==
    ASSUME NEW counts \in Seq(Nat), NEW L \in Nat, L = Len(counts), NEW from \in 0 .. L,
           \A i \in from + 1 .. L : counts[i] = 1
    PROVE  Offsets(counts)[L + 1] - Offsets(counts)[from + 1] = L - from
<1> DEFINE o == Offsets(counts)
           G == {n \in Nat : from + n <= L => o[from + n + 1] = o[from + 1] + n}
<1>1. o \in [1 .. L + 1 -> Nat] /\ \A i \in 1 .. L : o[i + 1] = o[i] + counts[i]
  BY OffsetsFacts
<1>. HIDE DEF o
<1>a. from + 1 \in 1 .. L + 1
  OBVIOUS
<1>b. o[from + 1] \in Nat
  BY <1>1, <1>a
<1>2. 0 \in G
  BY <1>b
<1>3. ASSUME NEW n \in 1 .. L - from, n - 1 \in G PROVE n \in G
  <2>1. from + n \in 1 .. L /\ o[from + n] = o[from + 1] + (n - 1)
    BY <1>3
  <2>2. counts[from + n] = 1 /\ o[from + n + 1] = o[from + n] + counts[from + n]
    BY <1>1, <2>1
  <2>3. PICK x \in Nat : x = o[from + 1]
    BY <1>b
  <2>4. o[from + n + 1] = (x + (n - 1)) + 1
    BY <2>1, <2>2, <2>3
  <2>a. L - from \in Int
    OBVIOUS
  <2>b. n \in Int
    BY <2>a
  <2>5. x + (n - 1) + 1 = x + n
    <3>1. x \in Int
      OBVIOUS
    <3>. QED
      BY <2>b, <3>1, OneMore, Zenon
  <2>6. o[from + n + 1] = o[from + 1] + n
    BY <2>3, <2>4, <2>5
  <2>. QED
    BY <2>6
<1>4. \A n \in 0 .. L - from : n \in G
  <2>1. L - from \in Nat
    OBVIOUS
  <2>. HIDE DEF G
  <2>. QED
    BY <1>2, <1>3, <2>1, Ascent
<1>5. L - from \in G
  BY <1>4
<1>6. o[L + 1] = o[from + 1] + (L - from)
  BY <1>5
<1>. QED
  BY <1>b, <1>6 DEF o

LEMMA OffsetsBounded ==
    ASSUME NEW counts \in Seq(Nat), NEW L \in Nat, L = Len(counts), NEW bound \in Nat,
           \A i \in 1 .. L : counts[i] <= bound
    PROVE  Offsets(counts)[L + 1] <= L * bound
<1> DEFINE o == Offsets(counts)
           G == {n \in Nat : n <= L => o[n + 1] <= n * bound}
<1>1. /\ o \in [1 .. L + 1 -> Nat] /\ o[1] = 0
      /\ \A i \in 1 .. L : o[i + 1] = o[i] + counts[i]
  BY OffsetsFacts
<1>. HIDE DEF o
<1>2. 0 \in G
  BY <1>1
<1>3. ASSUME NEW n \in 1 .. L, n - 1 \in G PROVE n \in G
  <2>a. n \in 1 .. L + 1 /\ n - 1 + 1 = n /\ n - 1 <= L
    OBVIOUS
  <2>1. o[n] <= (n - 1) * bound /\ o[n] \in Nat
    BY <1>1, <1>3, <2>a
  <2>2. o[n + 1] = o[n] + counts[n] /\ counts[n] <= bound /\ counts[n] \in Nat
    BY <1>1
  <2>3. n * bound = (n - 1) * bound + bound
    OBVIOUS
  <2>4. PICK a \in Nat, b \in Nat : a = (n - 1) * bound /\ b = n * bound
    OBVIOUS
  <2>5. o[n + 1] <= b
    BY <2>1, <2>2, <2>3, <2>4
  <2>. QED
    BY <2>4, <2>5
<1>4. \A n \in 0 .. L : n \in G
  <2>. HIDE DEF G
  <2>. QED
    BY <1>2, <1>3, Ascent
<1>. QED
  BY <1>4 DEF o

-----------------------------------------------------------------------------
(* Concatenation                                                           *)

FlattenStep(f, seqs, i) == IF i = 1 THEN seqs[i] ELSE f[i - 1] \o seqs[i]

LEMMA FlattenExists ==
    ASSUME NEW seqs, NEW L \in Nat
    PROVE  \E f : f = [i \in 1 .. L |-> FlattenStep(f, seqs, i)]
<1> DEFINE Upto(m) == \E f : f = [i \in 1 .. m |-> FlattenStep(f, seqs, i)]
           G == {m \in Nat : Upto(m)}
<1>1. Upto(0)
  <2> DEFINE g == [i \in 1 .. 0 |-> 0]
  <2>1. g = [i \in 1 .. 0 |-> FlattenStep(g, seqs, i)]
    OBVIOUS
  <2>. QED
    BY <2>1
<1>2. ASSUME NEW m \in 1 .. L, Upto(m - 1) PROVE Upto(m)
  <2>1. PICK f : f = [i \in 1 .. m - 1 |-> FlattenStep(f, seqs, i)]
    BY <1>2
  <2> DEFINE g == [i \in 1 .. m |-> FlattenStep(f, seqs, i)]
  <2>2. ASSUME NEW i \in 1 .. m - 1 PROVE g[i] = f[i]
    <3>1. f[i] = FlattenStep(f, seqs, i)
      BY <2>1
    <3>. QED
      BY <3>1
  <2>3. ASSUME NEW i \in 1 .. m PROVE g[i] = FlattenStep(g, seqs, i)
    <3>1. g[i] = FlattenStep(f, seqs, i)
      OBVIOUS
    <3>2. i # 1 => i - 1 \in 1 .. m - 1
      OBVIOUS
    <3>3. i # 1 => g[i - 1] = f[i - 1]
      BY <2>2, <3>2
    <3>. HIDE DEF g
    <3>. QED
      BY <3>1, <3>3 DEF FlattenStep
  <2>4. g = [i \in 1 .. m |-> FlattenStep(g, seqs, i)]
    BY <2>3
  <2>. QED
    BY <2>4
<1>. HIDE DEF Upto
<1>3. 0 \in G /\ \A m \in 1 .. L : m - 1 \in G => m \in G
  BY <1>1, <1>2
<1>. HIDE DEF G
<1>4. L \in G
  BY <1>3, Ascent
<1>. QED
  BY <1>4 DEF G, Upto

LEMMA FlattenUnfolded ==
    ASSUME NEW seqs, NEW L \in Nat \ {0}, L = Len(seqs)
    PROVE  \E f : /\ \A i \in 1 .. L : f[i] = FlattenStep(f, seqs, i)
                  /\ FlattenSeq(seqs) = f[L]
<1> DEFINE f == CHOOSE f : f = [i \in 1 .. Len(seqs) |->
                    IF i = 1 THEN seqs[i] ELSE f[i - 1] \o seqs[i]]
<1>1. f = [i \in 1 .. Len(seqs) |-> IF i = 1 THEN seqs[i] ELSE f[i - 1] \o seqs[i]]
  <2>1. \E h : h = [i \in 1 .. Len(seqs) |->
                    IF i = 1 THEN seqs[i] ELSE h[i - 1] \o seqs[i]]
    BY FlattenExists DEF FlattenStep
  <2>. QED
    BY <2>1
<1>2. FlattenSeq(seqs) = f[Len(seqs)]
  BY DEF FlattenSeq
<1>. HIDE DEF f
<1>3. \A i \in 1 .. L : f[i] = FlattenStep(f, seqs, i)
  BY <1>1 DEF FlattenStep
<1>. QED
  BY <1>2, <1>3

LEMMA SequenceOf ==
    ASSUME NEW S, NEW n \in Nat, NEW f \in [1 .. n -> S]
    PROVE  f \in Seq(S) /\ Len(f) = n
OBVIOUS

(* Element j of part i is element offset[i] + j of the whole.               *)
LengthsOf(seqs) == [i \in 1 .. Len(seqs) |-> Len(seqs[i])]

LEMMA FlattenFacts ==
    ASSUME NEW S, NEW seqs \in Seq(Seq(S)), NEW L \in Nat, L = Len(seqs)
    PROVE  /\ FlattenSeq(seqs) \in Seq(S)
           /\ LengthsOf(seqs) \in Seq(Nat) /\ Len(LengthsOf(seqs)) = L
           /\ Len(FlattenSeq(seqs)) = Offsets(LengthsOf(seqs))[L + 1]
           /\ \A i \in 1 .. L : \A j \in 1 .. Len(seqs[i]) :
                /\ Offsets(LengthsOf(seqs))[i] + j \in 1 .. Len(FlattenSeq(seqs))
                /\ FlattenSeq(seqs)[Offsets(LengthsOf(seqs))[i] + j] = seqs[i][j]
<1> DEFINE lens == LengthsOf(seqs)
           o == Offsets(lens)
<1>1. /\ \A i \in 1 .. L : seqs[i] \in Seq(S) /\ Len(seqs[i]) \in Nat
      /\ DOMAIN seqs = 1 .. L
  OBVIOUS
<1>2. /\ lens \in Seq(Nat) /\ Len(lens) = L
      /\ \A i \in 1 .. L : lens[i] = Len(seqs[i])
  BY <1>1 DEF LengthsOf
<1>. HIDE DEF lens
<1>3. /\ o \in [1 .. L + 1 -> Nat] /\ o[1] = 0
      /\ \A i \in 1 .. L : o[i + 1] = o[i] + lens[i]
  BY <1>2, OffsetsFacts
<1>. HIDE DEF o
<1>4. CASE L = 0
  <2>a. FlattenSeq(seqs) = seqs
    BY <1>4, Zenon DEF FlattenSeq
  <2>b. Len(seqs) = 0
    BY <1>4
  <2>c. seqs = <<>>
    BY <2>b
  <2>1. seqs = <<>> /\ FlattenSeq(seqs) = seqs
    BY <2>a, <2>c
  <2>. QED
    BY <1>2, <1>3, <1>4, <2>1 DEF lens, o
<1>5. CASE L # 0
  <2>1. PICK f : /\ \A i \in 1 .. L : f[i] = FlattenStep(f, seqs, i)
                 /\ FlattenSeq(seqs) = f[L]
    BY <1>5, FlattenUnfolded
  <2> DEFINE Ok(n) == /\ f[n] \in Seq(S) /\ Len(f[n]) = o[n + 1]
                      /\ \A i \in 1 .. n : \A j \in 1 .. Len(seqs[i]) :
                            /\ o[i] + j \in 1 .. Len(f[n])
                            /\ f[n][o[i] + j] = seqs[i][j]
             G == {n \in Nat : n = 0 \/ Ok(n)}
  <2>2. Ok(1)
    <3>1. f[1] = seqs[1] /\ seqs[1] \in Seq(S)
      BY <1>1, <1>5, <2>1 DEF FlattenStep
    <3>a. 1 \in 1 .. L /\ o[1] = 0 /\ Len(seqs[1]) \in Nat
      BY <1>1, <1>3, <1>5
    <3>b. o[1 + 1] = 0 + Len(seqs[1])
      BY <1>2, <1>3, <3>a
    <3>2. o[2] = Len(seqs[1]) /\ o[1] = 0
      BY <3>a, <3>b
    <3>3. ASSUME NEW i \in 1 .. 1, NEW j \in 1 .. Len(seqs[i])
          PROVE  o[i] + j \in 1 .. Len(f[1]) /\ f[1][o[i] + j] = seqs[i][j]
      <4>1. i = 1
        OBVIOUS
      <4>. QED
        BY <3>1, <3>2, <4>1
    <3>. QED
      BY <3>1, <3>2, <3>3
  <2>3. ASSUME NEW n \in 2 .. L, Ok(n - 1) PROVE Ok(n)
    <3>1. n \in 1 .. L /\ n - 1 \in 1 .. L /\ n # 1 /\ (n - 1) + 1 = n
      OBVIOUS
    <3>2. f[n] = f[n - 1] \o seqs[n] /\ seqs[n] \in Seq(S) /\ f[n - 1] \in Seq(S)
      BY <1>1, <2>1, <2>3, <3>1 DEF FlattenStep
    <3>3. /\ Len(f[n - 1]) = o[n] /\ o[n] \in Nat
          /\ o[n + 1] = o[n] + Len(seqs[n]) /\ Len(seqs[n]) \in Nat
      BY <1>1, <1>2, <1>3, <2>3, <3>1
    <3>4. PICK a \in Seq(S), b \in Seq(S) :
              a = f[n - 1] /\ b = seqs[n]
      BY <3>2
    <3>a. PICK c : c = a \o b
      OBVIOUS
    <3>b. /\ c \in Seq(S) /\ Len(c) = Len(a) + Len(b)
          /\ \A x \in 1 .. Len(a) : c[x] = a[x]
      BY <3>a
    <3>c. ASSUME NEW x \in 1 .. Len(b) PROVE c[Len(a) + x] = b[x]
      BY <3>a
    <3>5. /\ f[n] = c /\ c \in Seq(S) /\ Len(c) = Len(a) + Len(b)
          /\ \A x \in 1 .. Len(a) : c[x] = a[x]
          /\ \A x \in 1 .. Len(b) : c[Len(a) + x] = b[x]
      BY <3>2, <3>4, <3>a, <3>b, <3>c
    <3>6. ASSUME NEW i \in 1 .. n, NEW j \in 1 .. Len(seqs[i])
          PROVE  o[i] + j \in 1 .. Len(f[n]) /\ f[n][o[i] + j] = seqs[i][j]
      <4>1. CASE i = n
        <5>1. j \in 1 .. Len(b) /\ seqs[i] = b /\ o[i] = Len(a)
          BY <3>3, <3>4, <4>1
        <5>2. c[Len(a) + j] = b[j] /\ Len(a) + j \in 1 .. Len(c)
          BY <3>5, <5>1
        <5>. QED
          BY <3>5, <5>1, <5>2
      <4>2. CASE i # n
        <5>1. i \in 1 .. n - 1
          BY <4>2
        <5>2. o[i] + j \in 1 .. Len(a) /\ a[o[i] + j] = seqs[i][j]
          BY <2>3, <3>4, <5>1
        <5>3. PICK x \in 1 .. Len(a) : x = o[i] + j
          BY <5>2
        <5>5. Len(a) \in Nat /\ Len(b) \in Nat
          OBVIOUS
        <5>6. x \in 1 .. Len(a) + Len(b)
          BY <5>5
        <5>4. x \in 1 .. Len(f[n]) /\ f[n][x] = a[x]
          BY <3>5, <5>6, Zenon
        <5>. QED
          BY <5>2, <5>3, <5>4
      <4>. QED
        BY <4>1, <4>2
    <3>7. Len(f[n]) = o[n + 1]
      BY <3>3, <3>4, <3>5
    <3>. QED
      BY <3>5, <3>6, <3>7
  <2>4. 0 \in G /\ \A n \in 1 .. L : n - 1 \in G => n \in G
    <3>1. ASSUME NEW n \in 1 .. L, n - 1 \in G PROVE n \in G
      <4>1. CASE n = 1
        BY <2>2, <4>1
      <4>2. CASE n # 1
        <5>1. n \in 2 .. L /\ n - 1 # 0
          BY <4>2
        <5>2. Ok(n - 1)
          BY <3>1, <5>1
        <5>3. Ok(n)
          BY <2>3, <5>1, <5>2
        <5>. QED
          BY <5>3
      <4>. QED
        BY <4>1, <4>2
    <3>. QED
      BY <3>1
  <2>5. L \in G
    <3>. HIDE DEF G
    <3>1. \A n \in 0 .. L : n \in G
      BY <2>4, Ascent
    <3>. QED
      BY <3>1
  <2>6. Ok(L)
    BY <1>5, <2>5
  <2>. QED
    BY <1>2, <2>1, <2>6 DEF o, lens
<1>. QED
  BY <1>4, <1>5

(* The same for one element of one part.                                    *)
LEMMA FlattenAt ==
    ASSUME NEW S, NEW seqs \in Seq(Seq(S)), NEW L \in Nat, L = Len(seqs),
           NEW i \in 1 .. L, NEW j \in 1 .. Len(seqs[i])
    PROVE  /\ Offsets(LengthsOf(seqs))[i] + j \in 1 .. Len(FlattenSeq(seqs))
           /\ FlattenSeq(seqs)[Offsets(LengthsOf(seqs))[i] + j] = seqs[i][j]
BY FlattenFacts

(* The rows that end at the last known token, in order.                     *)
EndingStep(f, rows, n) ==
    IF n = 0 THEN <<>>
    ELSE IF Ends(rows[n]) THEN Append(f[n - 1], n) ELSE f[n - 1]

LEMMA EndingExists ==
    ASSUME NEW rows, NEW L \in Nat
    PROVE  \E f : f = [n \in 0 .. L |-> EndingStep(f, rows, n)]
<1> DEFINE Upto(m) == \E f : f = [n \in 0 .. m |-> EndingStep(f, rows, n)]
           G == {m \in Nat : Upto(m)}
<1>1. Upto(0)
  <2> DEFINE g == [n \in 0 .. 0 |-> <<>>]
  <2>1. g = [n \in 0 .. 0 |-> EndingStep(g, rows, n)]
    BY DEF EndingStep
  <2>. QED
    BY <2>1
<1>2. ASSUME NEW m \in 1 .. L, Upto(m - 1) PROVE Upto(m)
  <2>1. PICK f : f = [n \in 0 .. m - 1 |-> EndingStep(f, rows, n)]
    BY <1>2
  <2> DEFINE g == [n \in 0 .. m |-> EndingStep(f, rows, n)]
  <2>2. ASSUME NEW n \in 0 .. m - 1 PROVE g[n] = f[n]
    <3>1. f[n] = EndingStep(f, rows, n)
      BY <2>1
    <3>. QED
      BY <3>1
  <2>3. ASSUME NEW n \in 0 .. m PROVE g[n] = EndingStep(g, rows, n)
    <3>1. g[n] = EndingStep(f, rows, n)
      OBVIOUS
    <3>2. n # 0 => n - 1 \in 0 .. m - 1
      OBVIOUS
    <3>3. n # 0 => g[n - 1] = f[n - 1]
      BY <2>2, <3>2
    <3>. HIDE DEF g
    <3>. QED
      BY <3>1, <3>3 DEF EndingStep
  <2>4. g = [n \in 0 .. m |-> EndingStep(g, rows, n)]
    BY <2>3
  <2>. QED
    BY <2>4
<1>3. 0 \in G /\ \A m \in 1 .. L : m - 1 \in G => m \in G
  BY <1>1, <1>2
<1>. HIDE DEF G
<1>4. L \in G
  BY <1>3, Ascent
<1>. QED
  BY <1>4 DEF G

LEMMA AppendRange ==
    ASSUME NEW S, NEW q \in Seq(S), NEW e
    PROVE  Range(Append(q, e)) = Range(q) \cup {e}
<1>1. PICK L \in Nat : L = Len(q) /\ DOMAIN q = 1 .. L
  OBVIOUS
<1>2. PICK r : r = Append(q, e)
  OBVIOUS
<1>3. DOMAIN r = 1 .. L + 1 /\ r[L + 1] = e /\ \A i \in 1 .. L : r[i] = q[i]
  BY <1>1, <1>2
<1>4. ASSUME NEW x \in Range(r) PROVE x \in Range(q) \cup {e}
  <2>1. PICK i \in 1 .. L + 1 : x = r[i]
    BY <1>3 DEF Range
  <2>2. i = L + 1 \/ i \in 1 .. L
    OBVIOUS
  <2>. QED
    BY <1>1, <1>3, <2>1, <2>2 DEF Range
<1>5. ASSUME NEW x \in Range(q) \cup {e} PROVE x \in Range(r)
  BY <1>1, <1>3 DEF Range
<1>. QED
  BY <1>2, <1>4, <1>5

LEMMA LogitsRowsFacts ==
    ASSUME NEW rows, NEW L \in Nat, L = Len(rows), IsPaged(rows)
    PROVE  /\ LogitsRows(rows) \in Seq(1 .. L)
           /\ Range(LogitsRows(rows)) = {n \in 1 .. L : Ends(rows[n])}
<1> DEFINE f == CHOOSE f : f = [n \in 0 .. Len(rows) |->
                    IF n = 0 THEN <<>>
                    ELSE IF Ends(rows[n]) THEN Append(f[n - 1], n) ELSE f[n - 1]]
<1>1. f = [n \in 0 .. Len(rows) |->
               IF n = 0 THEN <<>>
               ELSE IF Ends(rows[n]) THEN Append(f[n - 1], n) ELSE f[n - 1]]
  <2>1. \E h : h = [n \in 0 .. Len(rows) |->
               IF n = 0 THEN <<>>
               ELSE IF Ends(rows[n]) THEN Append(h[n - 1], n) ELSE h[n - 1]]
    <3>1. PICK h : h = [n \in 0 .. L |-> EndingStep(h, rows, n)]
      BY EndingExists
    <3>. QED
      BY <3>1 DEF EndingStep
  <2>. QED
    BY <2>1
<1>2. LogitsRows(rows) = f[L]
  BY DEF LogitsRows
<1>. HIDE DEF f
<1>3. \A n \in 0 .. L : f[n] = EndingStep(f, rows, n)
  BY <1>1 DEF EndingStep
<1> DEFINE Upto(n) == {k \in 1 .. n : Ends(rows[k])}
           Ok(n) == f[n] \in Seq(1 .. L) /\ Range(f[n]) = Upto(n)
           G == {n \in Nat : Ok(n)}
<1>4. Ok(0)
  <2>1. f[0] = <<>> /\ Upto(0) = {}
    BY <1>3 DEF EndingStep
  <2>. QED
    BY <2>1 DEF Range
<1>5. ASSUME NEW n \in 1 .. L, Ok(n - 1) PROVE Ok(n)
  <2>1. f[n] = IF Ends(rows[n]) THEN Append(f[n - 1], n) ELSE f[n - 1]
    BY <1>3 DEF EndingStep
  <2>2. Upto(n) = IF Ends(rows[n]) THEN Upto(n - 1) \cup {n} ELSE Upto(n - 1)
    OBVIOUS
  <2>3. PICK q \in Seq(1 .. L) : q = f[n - 1] /\ Range(q) = Upto(n - 1)
    BY <1>5
  <2>4. CASE Ends(rows[n])
    <3>1. f[n] = Append(q, n) /\ Append(q, n) \in Seq(1 .. L)
      BY <2>1, <2>3, <2>4
    <3>2. Range(Append(q, n)) = Range(q) \cup {n}
      BY <2>3, AppendRange
    <3>. QED
      BY <2>2, <2>3, <2>4, <3>1, <3>2
  <2>5. CASE ~Ends(rows[n])
    BY <2>1, <2>2, <2>3, <2>5
  <2>. QED
    BY <2>4, <2>5
<1>6. Ok(L)
  <2>1. 0 \in G /\ \A n \in 1 .. L : n - 1 \in G => n \in G
    BY <1>4, <1>5
  <2>. HIDE DEF G
  <2>2. \A n \in 0 .. L : n \in G
    BY <2>1, Ascent
  <2>3. L \in G
    BY <2>2
  <2>. QED
    BY <2>3 DEF G
<1>. QED
  BY <1>2, <1>6

-----------------------------------------------------------------------------
(* Slots                                                                   *)

LEMMA QuotientFacts ==
    ASSUME NEW n \in Nat, NEW d \in Nat \ {0}
    PROVE  /\ n \div d \in Nat /\ n % d \in 0 .. d - 1
           /\ n = (n \div d) * d + (n % d)
OBVIOUS

LEMMA ProductFacts ==
    ASSUME NEW a \in Nat, NEW b \in Nat, NEW d \in Nat \ {0}
    PROVE  /\ a * d \in Nat
           /\ a <= b => a * d <= b * d
           /\ a < b => a * d + d <= b * d
           /\ (a + 1) * d = a * d + d
<1>1. a * d \in Nat
  OBVIOUS
<1>2. a <= b => a * d <= b * d
  OBVIOUS
<1>3. a < b => a * d + d <= b * d
  OBVIOUS
<1>4. (a + 1) * d = a * d + d
  OBVIOUS
<1>. QED
  BY <1>1, <1>2, <1>3, <1>4

(* The quotient and the remainder are the only ones.                        *)
LEMMA QuotientUnique ==
    ASSUME NEW d \in Nat \ {0}, NEW a \in Nat, NEW s \in 0 .. d - 1
    PROVE  (a * d + s) \div d = a /\ (a * d + s) % d = s
<1>1. PICK A \in Nat : A = a * d
  BY ProductFacts
<1>2. PICK n \in Nat : n = A + s
  BY <1>1
<1>3. PICK q \in Nat, r \in 0 .. d - 1 : q = n \div d /\ r = n % d
  BY <1>2, QuotientFacts
<1>4. PICK Q \in Nat : Q = q * d
  BY <1>3, ProductFacts
<1>5. n = Q + r
  BY <1>2, <1>3, <1>4, QuotientFacts
<1>6. ~(q < a)
  <2>1. q < a => Q + d <= A
    BY <1>1, <1>3, <1>4, ProductFacts
  <2>. QED
    BY <1>1, <1>2, <1>3, <1>4, <1>5, <2>1
<1>7. ~(a < q)
  <2>1. a < q => A + d <= Q
    BY <1>1, <1>3, <1>4, ProductFacts
  <2>. QED
    BY <1>1, <1>2, <1>3, <1>4, <1>5, <2>1
<1>8. q = a
  BY <1>3, <1>6, <1>7
<1>9. Q = A /\ r = s
  BY <1>1, <1>2, <1>3, <1>4, <1>5, <1>8
<1>. QED
  BY <1>1, <1>2, <1>3, <1>8, <1>9

(* k pages of d tokens are what n tokens need.                              *)
LEMMA PagesNeeded ==
    ASSUME NEW n \in Nat, NEW d \in Nat \ {0}
    PROVE  /\ CeilDiv(n, d) \in Nat
           /\ n <= CeilDiv(n, d) * d
           /\ \A k \in Nat : k < CeilDiv(n, d) => k * d < n
           /\ \A k \in Nat : n <= k * d => CeilDiv(n, d) <= k
<1>1. PICK q \in Nat : q = CeilDiv(n, d)
  BY QuotientFacts DEF CeilDiv
<1>2. PICK Q \in Nat : Q = q * d
  BY <1>1, ProductFacts
<1>3. Q <= n + d - 1 /\ n + d - 1 < Q + d
  <2>1. PICK m \in Nat : m = n + d - 1
    OBVIOUS
  <2>2. m = (m \div d) * d + (m % d) /\ m % d \in 0 .. d - 1
    BY <2>1, QuotientFacts
  <2>3. m \div d = q
    BY <1>1, <2>1 DEF CeilDiv
  <2>4. m = Q + (m % d)
    BY <1>2, <2>2, <2>3
  <2>. QED
    BY <1>2, <2>1, <2>2, <2>4
<1>4. n <= Q
  BY <1>2, <1>3
<1>5. ASSUME NEW k \in Nat, k < q PROVE k * d < n
  <2>1. k * d + d <= Q /\ k * d \in Nat
    BY <1>1, <1>2, <1>5, ProductFacts
  <2>. QED
    BY <1>2, <1>3, <2>1
<1>6. ASSUME NEW k \in Nat, n <= k * d PROVE q <= k
  BY <1>1, <1>5, <1>6
<1>. QED
  BY <1>1, <1>2, <1>4, <1>5, <1>6

(* A row as the batches and the warmup have them: there is a new token, and  *)
(* a page for each token of the context unless there is none at all.        *)
GoodRow(row) ==
    /\ row.num_cached_tokens \in Nat
    /\ row.num_new_tokens \in Nat \ {0}
    /\ row.block_table \in Seq(Nat)
    /\ row.block_table # <<>> => Len(row.block_table) = CeilDiv(ContextEnd(row), BlockSize)

(* What the pages of a row hold of its new tokens: page p, counted from 1,   *)
(* those from PageFirst(row, p) up to PageLast(row, p).                     *)
PageFirst(row, p) ==
    IF p = (row.num_cached_tokens \div BlockSize) + 1 THEN row.num_cached_tokens
    ELSE (p - 1) * BlockSize
PageLast(row, p) ==
    IF p = Len(row.block_table) THEN ContextEnd(row) ELSE p * BlockSize

LEMMA PageSpan ==
    ASSUME NEW row, GoodRow(row), row.block_table # <<>>,
           NEW p \in (row.num_cached_tokens \div BlockSize) + 1 .. Len(row.block_table)
    PROVE  /\ PageFirst(row, p) \in Nat /\ PageLast(row, p) \in Nat
           /\ PageFirst(row, p) < PageLast(row, p)
           /\ PageEnd(row, p) - PageStart(row, p) = PageLast(row, p) - PageFirst(row, p)
           /\ PageStart(row, p) = row.block_table[p] * BlockSize
                                    + (PageFirst(row, p) - (p - 1) * BlockSize)
           /\ PageStart(row, p) \in Nat
<1>1. PICK B \in Nat \ {0} : B = BlockSize
  BY BlockSizeAssumption
<1>2. PICK c \in Nat : c = row.num_cached_tokens
  BY DEF GoodRow
<1>3. PICK n \in Nat \ {0} : n = row.num_new_tokens
  BY DEF GoodRow
<1>4. PICK e \in Nat : e = c + n /\ e = ContextEnd(row)
  BY <1>2, <1>3 DEF ContextEnd
<1>a. Len(row.block_table) = CeilDiv(e, B) /\ Len(row.block_table) \in Nat
  <2>1. Len(row.block_table) \in Nat
    BY DEF GoodRow
  <2>2. Len(row.block_table) = CeilDiv(ContextEnd(row), BlockSize)
    BY Zenon DEF GoodRow
  <2>. QED
    BY <1>1, <1>4, <2>1, <2>2
<1>5. PICK k \in Nat : k = Len(row.block_table) /\ k = CeilDiv(e, B)
  BY <1>a
<1>b. e <= k * B /\ \A x \in Nat : x < k => x * B < e
  BY <1>1, <1>4, <1>5, PagesNeeded
<1>6. PICK q \in Nat : q = c \div B
  BY <1>1, <1>2, QuotientFacts
<1>7. PICK r \in 0 .. B - 1 : r = c % B
  BY <1>1, <1>2, QuotientFacts
<1>8. PICK Q \in Nat : Q = q * B
  BY <1>1, <1>6, ProductFacts
<1>9. c = Q + r
  <2>1. c = (c \div B) * B + (c % B)
    BY QuotientFacts, Zenon
  <2>. QED
    BY <1>6, <1>7, <1>8, <2>1, Zenon
<1>10. p \in q + 1 .. k /\ p \in Nat \ {0} /\ p - 1 \in Nat
  BY <1>1, <1>2, <1>5, <1>6
<1>11. PICK P \in Nat : P = (p - 1) * B
  BY <1>1, <1>10, ProductFacts
<1>12. p * B = P + B
  <2>1. ((p - 1) + 1) * B = (p - 1) * B + B
    BY <1>1, <1>10, ProductFacts
  <2>. QED
    BY <1>10, <1>11, <2>1
<1>13. P < e
  BY <1>b, <1>10, <1>11
<1>14. Q <= P /\ (p # q + 1 => Q + B <= P) /\ (p = q + 1 => P = Q)
  <2>1. q <= p - 1 /\ (p # q + 1 => q < p - 1) /\ (p = q + 1 => p - 1 = q)
    BY <1>6, <1>10
  <2>2. q <= p - 1 => q * B <= (p - 1) * B
    BY <1>1, <1>6, <1>10, ProductFacts
  <2>3. q < p - 1 => q * B + B <= (p - 1) * B
    BY <1>1, <1>6, <1>10, ProductFacts
  <2>. QED
    BY <1>8, <1>11, <2>1, <2>2, <2>3
<1>15. p = k => e <= P + B
  <2>1. e <= k * B
    BY <1>b
  <2>. QED
    BY <1>12, <2>1
<1>16. p # k => P + B < e
  <2>1. p # k => p * B < e
    BY <1>b, <1>10
  <2>. QED
    BY <1>12, <2>1
<1>17. PICK b \in Nat : b = row.block_table[p]
  <2>1. p \in 1 .. Len(row.block_table)
    BY <1>5, <1>10
  <2>. QED
    BY <2>1 DEF GoodRow
<1>18. PICK A \in Nat : A = b * B /\ (b + 1) * B = A + B
  BY <1>1, <1>17, ProductFacts
<1>19. PageFirst(row, p) = (IF p = q + 1 THEN c ELSE P)
  BY <1>1, <1>2, <1>6, <1>11 DEF PageFirst
<1>20. PageLast(row, p) = (IF p = k THEN e ELSE P + B)
  BY <1>1, <1>4, <1>5, <1>12 DEF PageLast
<1>21. PageStart(row, p) = (IF p = q + 1 THEN A + r ELSE A)
  BY <1>1, <1>2, <1>6, <1>7, <1>17, <1>18 DEF PageStart
<1>22. PageEnd(row, p) = (IF p = k THEN A + (e - P) ELSE A + B)
  <2>1. CASE p # k
    BY <1>1, <1>5, <1>17, <1>18, <2>1 DEF PageEnd
  <2>2. CASE p = k
    <3>1. PICK s \in 1 .. B : s = e - P
      BY <1>4, <1>11, <1>13, <1>15, <2>2
    <3>2. CASE s = B
      <4>1. e = p * B + 0
        BY <1>1, <1>4, <1>11, <1>12, <3>1, <3>2
      <4>a. p \in Nat /\ 0 \in 0 .. B - 1
        BY <1>1, <1>10
      <4>b. (p * B + 0) % B = 0
        BY <1>1, <4>a, QuotientUnique
      <4>2. e % B = 0
        BY <4>1, <4>b
      <4>. QED
        BY <1>1, <1>4, <1>5, <1>17, <1>18, <2>2, <3>1, <3>2, <4>2 DEF PageEnd
    <3>3. CASE s # B
      <4>1. e = (p - 1) * B + s /\ s \in 0 .. B - 1
        BY <1>1, <1>4, <1>11, <3>1, <3>3
      <4>a. ((p - 1) * B + s) % B = s
        BY <1>1, <1>10, <4>1, QuotientUnique
      <4>b. s # 0
        BY <3>1
      <4>2. e % B = s /\ s # 0
        BY <4>1, <4>a, <4>b
      <4>3. PageEnd(row, p) = A + s
        BY <1>1, <1>4, <1>5, <1>17, <1>18, <2>2, <4>2 DEF PageEnd
      <4>. QED
        BY <1>11, <1>18, <2>2, <3>1, <4>3
    <3>. QED
      BY <3>2, <3>3
  <2>. QED
    BY <2>1, <2>2
<1>23. c < e
  BY <1>3, <1>4
<1>24. PICK first \in Nat :
            /\ PageFirst(row, p) = first /\ P <= first /\ first < P + B /\ first < e
            /\ PageStart(row, p) = A + (first - P)
  <2>1. CASE p = q + 1
    <3>1. c = P + r /\ PageFirst(row, p) = c /\ PageStart(row, p) = A + r
      BY <1>9, <1>14, <1>19, <1>21, <2>1
    <3>a. 0 <= r /\ r < B /\ r \in Int
      BY <1>7
    <3>2. P <= c /\ c < P + B /\ A + r = A + (c - P)
      BY <3>1, <3>a
    <3>. QED
      BY <1>2, <1>23, <3>1, <3>2
  <2>2. CASE p # q + 1
    BY <1>1, <1>11, <1>13, <1>18, <1>19, <1>21, <2>2
  <2>. QED
    BY <2>1, <2>2
<1>25. PICK last \in Nat :
            /\ PageLast(row, p) = last /\ first < last
            /\ PageEnd(row, p) = A + (last - P)
  <2>1. CASE p = k
    BY <1>4, <1>20, <1>22, <1>24, <2>1
  <2>2. CASE p # k
    BY <1>1, <1>11, <1>18, <1>20, <1>22, <1>24, <2>2
  <2>. QED
    BY <2>1, <2>2
<1>26. /\ PageEnd(row, p) - PageStart(row, p) = last - first
       /\ PageStart(row, p) \in Nat
  <2>1. (A + (last - P)) - (A + (first - P)) = last - first
    OBVIOUS
  <2>2. A + (first - P) \in Nat
    BY <1>24
  <2>. QED
    BY <1>24, <1>25, <2>1, <2>2
<1>27. A = row.block_table[p] * BlockSize /\ P = (p - 1) * BlockSize
  BY <1>1, <1>11, <1>17, <1>18
<1>. QED
  BY <1>24, <1>25, <1>26, <1>27

(* Each new token has one slot: token t, counted from 0, that of its place   *)
(* in page p of the table.                                                 *)
PagesOfNew(row) ==
    LET cached == row.num_cached_tokens \div BlockSize
        Page(i) == [x \in 1 .. PageEnd(row, i) - PageStart(row, i) |->
                        PageStart(row, i) + x - 1]
    IN  [i \in 1 .. Len(row.block_table) - cached |-> Page(cached + i)]

LEMMA SlotsOfPagedRow ==
    ASSUME NEW row, GoodRow(row), row.block_table # <<>>
    PROVE  /\ SlotMapping(row) \in Seq(Nat) /\ Len(SlotMapping(row)) = row.num_new_tokens
           /\ \A p \in (row.num_cached_tokens \div BlockSize) + 1 .. Len(row.block_table) :
              \A t \in PageFirst(row, p) .. PageLast(row, p) - 1 :
                /\ t - row.num_cached_tokens + 1 \in 1 .. row.num_new_tokens
                /\ SlotMapping(row)[t - row.num_cached_tokens + 1] =
                        row.block_table[p] * BlockSize + (t - (p - 1) * BlockSize)
<1>1. PICK c \in Nat : c = row.num_cached_tokens
  BY DEF GoodRow
<1>2. PICK n \in Nat \ {0} : n = row.num_new_tokens
  BY DEF GoodRow
<1>3. PICK e \in Nat : e = c + n /\ e = ContextEnd(row)
  BY <1>1, <1>2 DEF ContextEnd
<1>4. PICK k \in Nat : k = Len(row.block_table)
  BY DEF GoodRow
<1>5. PICK q \in Nat : q = c \div BlockSize
  BY <1>1, BlockSizeAssumption, QuotientFacts
<1>6. q < k
  <2>1. k = CeilDiv(e, BlockSize)
    BY <1>3, <1>4, Zenon DEF GoodRow
  <2>2. ASSUME k <= q PROVE FALSE
    <3>1. e <= k * BlockSize
      BY <1>3, <2>1, BlockSizeAssumption, PagesNeeded
    <3>2. k * BlockSize <= q * BlockSize
      BY <2>2, BlockSizeAssumption, ProductFacts
    <3>3. PICK Q \in Nat, K \in Nat : Q = q * BlockSize /\ K = k * BlockSize
      BY BlockSizeAssumption, ProductFacts
    <3>4. Q <= c
      <4>1. PICK r \in Nat : r = c % BlockSize
        BY <1>1, BlockSizeAssumption, QuotientFacts
      <4>2. c = Q + r
        BY <1>1, <1>5, <3>3, <4>1, BlockSizeAssumption, QuotientFacts
      <4>. QED
        BY <4>2
    <3>5. e <= K /\ K <= Q
      BY <3>1, <3>2, <3>3
    <3>. QED
      BY <1>3, <3>4, <3>5
  <2>. QED
    BY <2>2
<1>7. PICK m \in Nat \ {0} : m = k - q /\ k = q + m
  BY <1>6
<1> DEFINE pages == PagesOfNew(row)
           first(i) == PageFirst(row, q + i)
           last(i) == PageLast(row, q + i)
           lens == LengthsOf(pages)
<1>8. SlotMapping(row) = FlattenSeq(pages)
  BY Zenon DEF SlotMapping, PagesOfNew
<1>9. \A i \in 1 .. m : q + i \in q + 1 .. k
  BY <1>7
<1>10. ASSUME NEW i \in 1 .. m
       PROVE  /\ first(i) \in Nat /\ last(i) \in Nat /\ first(i) < last(i)
              /\ PageEnd(row, q + i) - PageStart(row, q + i) = last(i) - first(i)
              /\ PageStart(row, q + i) = row.block_table[q + i] * BlockSize
                                            + (first(i) - ((q + i) - 1) * BlockSize)
              /\ PageStart(row, q + i) \in Nat
  <2>1. q + i \in (row.num_cached_tokens \div BlockSize) + 1 .. Len(row.block_table)
    BY <1>1, <1>4, <1>5, <1>9
  <2>. QED
    BY <2>1, PageSpan
<1>11. /\ DOMAIN pages = 1 .. m
       /\ \A i \in 1 .. m : pages[i] =
            [x \in 1 .. PageEnd(row, q + i) - PageStart(row, q + i) |->
                PageStart(row, q + i) + x - 1]
  <2>1. pages = [i \in 1 .. m |-> [x \in 1 .. PageEnd(row, q + i) - PageStart(row, q + i) |->
                                        PageStart(row, q + i) + x - 1]]
    BY <1>1, <1>4, <1>5, <1>7 DEF PagesOfNew
  <2>. QED
    BY <2>1
<1>12. ASSUME NEW i \in 1 .. m
       PROVE  /\ pages[i] \in Seq(Nat) /\ Len(pages[i]) = last(i) - first(i)
              /\ \A x \in 1 .. last(i) - first(i) : pages[i][x] = PageStart(row, q + i) + x - 1
  <2>1. PICK s \in Nat : s = PageStart(row, q + i)
    BY <1>10
  <2>a. PICK f \in Nat, l \in Nat : f = first(i) /\ l = last(i) /\ f < l
    BY <1>10
  <2>2. PICK w \in Nat : w = last(i) - first(i)
    <3>1. l - f \in Nat
      BY <2>a
    <3>. QED
      BY <2>a, <3>1
  <2>3. pages[i] = [x \in 1 .. w |-> s + x - 1]
    BY <1>10, <1>11, <2>1, <2>2
  <2>4. [x \in 1 .. w |-> s + x - 1] \in [1 .. w -> Nat]
    OBVIOUS
  <2>5. pages[i] \in Seq(Nat) /\ Len(pages[i]) = w
    BY <2>3, <2>4
  <2>. QED
    BY <2>1, <2>2, <2>3, <2>5
<1>13. pages \in Seq(Seq(Nat)) /\ Len(pages) = m
  <2>1. pages = [i \in 1 .. m |-> pages[i]]
    BY <1>11 DEF PagesOfNew
  <2>2. pages \in [1 .. m -> Seq(Nat)]
    BY <1>12, <2>1
  <2>. QED
    BY <2>2
<1>. HIDE DEF pages
<1> DEFINE o == Offsets(lens)
           flat == FlattenSeq(pages)
<1>14. /\ flat \in Seq(Nat) /\ lens \in Seq(Nat) /\ Len(lens) = m
       /\ Len(flat) = o[m + 1]
       /\ \A i \in 1 .. m : \A j \in 1 .. Len(pages[i]) :
            o[i] + j \in 1 .. Len(flat) /\ flat[o[i] + j] = pages[i][j]
  <2>1. m \in Nat /\ pages \in Seq(Seq(Nat)) /\ m = Len(pages)
    BY <1>13
  <2>2. flat \in Seq(Nat) /\ lens \in Seq(Nat) /\ Len(lens) = m
    BY <2>1, FlattenFacts, Zenon
  <2>3. Len(flat) = o[m + 1]
    BY <2>1, FlattenFacts, Zenon
  <2>4. ASSUME NEW i \in 1 .. m, NEW j \in 1 .. Len(pages[i])
        PROVE  o[i] + j \in 1 .. Len(flat) /\ flat[o[i] + j] = pages[i][j]
    <3>1. /\ Offsets(LengthsOf(pages))[i] + j \in 1 .. Len(FlattenSeq(pages))
          /\ FlattenSeq(pages)[Offsets(LengthsOf(pages))[i] + j] = pages[i][j]
      <4>. HIDE DEF lens, o, flat
      <4>. QED
        BY <2>1, FlattenAt, SMT
    <3>. QED
      BY <3>1
  <2>. QED
    BY <2>2, <2>3, <2>4
<1>15. \A i \in 1 .. m : lens[i] = last(i) - first(i)
  BY <1>12, <1>13 DEF LengthsOf
<1> DEFINE sum == [i \in 1 .. m + 1 |-> IF i = 1 THEN 0 ELSE last(i - 1) - c]
<1>16. first(1) = c
  BY <1>1, <1>5 DEF PageFirst
<1>17. ASSUME NEW i \in 2 .. m PROVE first(i) = last(i - 1)
  <2>a. i \in Int /\ 2 <= i /\ i <= m
    OBVIOUS
  <2>b. q + i # q + 1 /\ (q + i) - 1 = q + (i - 1) /\ q + (i - 1) < q + m
    BY <2>a
  <2>1. /\ q + i # q + 1 /\ q + (i - 1) # k /\ (q + i) - 1 = q + (i - 1)
        /\ q + 1 = (c \div BlockSize) + 1
    BY <1>5, <1>7, <2>b
  <2>2. first(i) = ((q + i) - 1) * BlockSize
    BY <1>1, <2>1 DEF PageFirst
  <2>3. last(i - 1) = (q + (i - 1)) * BlockSize
    BY <1>4, <2>1 DEF PageLast
  <2>. QED
    BY <2>1, <2>2, <2>3
<1>18. last(m) = e
  BY <1>3, <1>4, <1>7 DEF PageLast
<1>. HIDE DEF first, last
<1>19. \A i \in 1 .. m : sum[i] = first(i) - c
  <2>1. ASSUME NEW i \in 1 .. m PROVE sum[i] = first(i) - c
    <3>1. CASE i = 1
      BY <1>16, <3>1
    <3>2. CASE i # 1
      <4>1. i \in 2 .. m /\ i \in 1 .. m + 1
        BY <3>2
      <4>. QED
        BY <1>17, <3>2, <4>1
    <3>. QED
      BY <3>1, <3>2
  <2>. QED
    BY <2>1
<1>20. sum[1] = 0 /\ sum[m + 1] = n
  BY <1>3, <1>18
<1>21. \A i \in 1 .. m : sum[i + 1] = sum[i] + lens[i]
  <2>1. ASSUME NEW i \in 1 .. m PROVE sum[i + 1] = sum[i] + lens[i]
    <3>1. sum[i + 1] = last(i) - c
      OBVIOUS
    <3>2. sum[i] = first(i) - c /\ lens[i] = last(i) - first(i)
      BY <1>15, <1>19
    <3>3. first(i) \in Nat /\ last(i) \in Nat
      BY <1>10
    <3>. QED
      BY <3>1, <3>2, <3>3
  <2>. QED
    BY <2>1
<1>. HIDE DEF sum
<1>22. \A i \in 1 .. m + 1 : o[i] = sum[i]
  <2>1. m \in Nat /\ lens \in Seq(Nat) /\ m = Len(lens) /\ sum[1] = 0
    BY <1>14, <1>20
  <2>2. \A i \in 1 .. m : sum[i + 1] = sum[i] + lens[i]
    BY <1>21
  <2>. HIDE DEF lens
  <2>3. ASSUME NEW i \in 1 .. m + 1 PROVE o[i] = sum[i]
    BY <2>1, <2>2, OffsetsUnique
  <2>. QED
    BY <2>3
<1>23. Len(flat) = n
  BY <1>14, <1>20, <1>22
<1>24. ASSUME NEW p \in (row.num_cached_tokens \div BlockSize) + 1 .. Len(row.block_table),
              NEW t \in PageFirst(row, p) .. PageLast(row, p) - 1
       PROVE  /\ t - row.num_cached_tokens + 1 \in 1 .. row.num_new_tokens
              /\ SlotMapping(row)[t - row.num_cached_tokens + 1] =
                        row.block_table[p] * BlockSize + (t - (p - 1) * BlockSize)
  <2>a. p \in q + 1 .. k
    BY <1>1, <1>4, <1>5
  <2>b. p \in Int /\ q + 1 <= p /\ p <= q + m
    BY <1>7, <2>a
  <2>1. PICK i \in 1 .. m : i = p - q /\ p = q + i
    BY <2>b
  <2>2. PICK f \in Nat, l \in Nat : f = first(i) /\ l = last(i)
    BY <1>10
  <2>3. f < l /\ f = PageFirst(row, p) /\ l = PageLast(row, p)
    BY <1>10, <2>1, <2>2 DEF first, last
  <2>4. t \in f .. l - 1
    BY <2>3
  <2>5. PICK j \in 1 .. l - f : j = t - f + 1
    BY <2>3, <2>4
  <2>6. o[i] = f - c
    <3>1. i \in 1 .. m + 1
      OBVIOUS
    <3>. QED
      BY <1>19, <1>22, <2>2, <3>1
  <2>7. Len(pages[i]) = l - f /\ pages[i][j] = PageStart(row, q + i) + j - 1
    BY <1>12, <2>2, <2>5
  <2>8. o[i] + j \in 1 .. Len(flat) /\ flat[o[i] + j] = pages[i][j]
    BY <1>14, <2>5, <2>7
  <2>9. (f - c) + j = t - c + 1
    BY <2>4, <2>5
  <2>10. PICK A \in Int, P \in Int :
            /\ A = row.block_table[p] * BlockSize
            /\ P = (p - 1) * BlockSize
    <3>1. p \in 1 .. k /\ p - 1 \in Nat
      BY <1>7, <2>1
    <3>2. row.block_table[p] \in Nat
      BY <1>4, <3>1 DEF GoodRow
    <3>. QED
      BY <3>1, <3>2, BlockSizeAssumption
  <2>11. PageStart(row, q + i) = A + (f - P)
    BY <1>10, <2>1, <2>2, <2>10
  <2>12. (A + (f - P)) + j - 1 = A + (t - P)
    BY <2>4, <2>5
  <2>13. flat[t - c + 1] = A + (t - P)
    BY <2>6, <2>7, <2>8, <2>9, <2>11, <2>12
  <2>14. t - c + 1 \in 1 .. n
    BY <1>23, <2>6, <2>8, <2>9
  <2>. QED
    BY <1>1, <1>2, <1>8, <2>10, <2>13, <2>14
<1>. QED
  BY <1>2, <1>8, <1>14, <1>23, <1>24

LEMMA SlotMappingLength ==
    ASSUME NEW row, GoodRow(row)
    PROVE  SlotMapping(row) \in Seq(Int) /\ Len(SlotMapping(row)) = row.num_new_tokens
<1>1. CASE row.block_table = <<>>
  <2>1. PICK n \in Nat : n = row.num_new_tokens
    BY DEF GoodRow
  <2>2. SlotMapping(row) = [j \in 1 .. n |-> -1]
    BY <1>1, <2>1 DEF SlotMapping
  <2>. QED
    BY <2>1, <2>2
<1>2. CASE row.block_table # <<>>
  <2>1. SlotMapping(row) \in Seq(Nat) /\ Len(SlotMapping(row)) = row.num_new_tokens
    BY <1>2, SlotsOfPagedRow
  <2>. QED
    BY <2>1
<1>. QED
  BY <1>1, <1>2

-----------------------------------------------------------------------------
(* The metadata of a batch                                                 *)

(* The rows of a batch: those after the first prefills compute one token     *)
(* each, and all of them have pages or none has.                            *)
GoodRows(rows, prefills) ==
    /\ prefills \in 0 .. Len(rows)
    /\ \A i \in 1 .. Len(rows) : GoodRow(rows[i])
    /\ \A i \in prefills + 1 .. Len(rows) : rows[i].num_new_tokens = 1
    /\ IsPaged(rows) => \A i \in 1 .. Len(rows) : rows[i].block_table # <<>>

QueryLens(rows) == [i \in DOMAIN rows |-> rows[i].num_new_tokens]
PageCounts(rows) == [i \in DOMAIN rows |-> Len(rows[i].block_table)]
SlotLists(rows) == [i \in DOMAIN rows |-> SlotMapping(rows[i])]
Tables(rows) == [i \in DOMAIN rows |-> rows[i].block_table]

LEMMA MetadataFields ==
    ASSUME NEW rows, NEW p
    PROVE  /\ Metadata(rows, p).num_prefill_seqs = p
           /\ Metadata(rows, p).num_decode_seqs = Len(rows) - p
           /\ Metadata(rows, p).num_prefill_tokens = Offsets(QueryLens(rows))[p + 1]
           /\ Metadata(rows, p).num_decode_tokens =
                    Offsets(QueryLens(rows))[Len(rows) + 1] - Offsets(QueryLens(rows))[p + 1]
           /\ Metadata(rows, p).query_start_loc = Offsets(QueryLens(rows))
           /\ Metadata(rows, p).seq_lens = [i \in DOMAIN rows |-> ContextEnd(rows[i])]
           /\ Metadata(rows, p).slot_mapping = FlattenSeq(SlotLists(rows))
           /\ Metadata(rows, p).block_tables = Tables(rows)
           /\ Metadata(rows, p).paged = IsPaged(rows)
           /\ Metadata(rows, p).num_kv_blocks = Offsets(PageCounts(rows))[Len(rows) + 1]
           /\ Metadata(rows, p).num_prefill_kv_blocks = Offsets(PageCounts(rows))[p + 1]
BY DEF Metadata, QueryLens, PageCounts, SlotLists, Tables

LEMMA RowSums ==
    ASSUME NEW R, NEW rows \in Seq(R), NEW L \in Nat, L = Len(rows),
           NEW p, GoodRows(rows, p)
    PROVE  /\ QueryLens(rows) \in Seq(Nat) /\ Len(QueryLens(rows)) = L
           /\ \A i \in 1 .. L : QueryLens(rows)[i] = rows[i].num_new_tokens
           /\ PageCounts(rows) \in Seq(Nat) /\ Len(PageCounts(rows)) = L
           /\ \A i \in 1 .. L : PageCounts(rows)[i] = Len(rows[i].block_table)
           /\ SlotLists(rows) \in Seq(Seq(Int)) /\ Len(SlotLists(rows)) = L
           /\ LengthsOf(SlotLists(rows)) = QueryLens(rows)
           /\ Tables(rows) \in Seq(Seq(Nat)) /\ Len(Tables(rows)) = L
           /\ LengthsOf(Tables(rows)) = PageCounts(rows)
<1>1. DOMAIN rows = 1 .. L
  OBVIOUS
<1>2. ASSUME NEW i \in 1 .. L
      PROVE  /\ rows[i].num_new_tokens \in Nat /\ rows[i].block_table \in Seq(Nat)
             /\ Len(rows[i].block_table) \in Nat
             /\ SlotMapping(rows[i]) \in Seq(Int)
             /\ Len(SlotMapping(rows[i])) = rows[i].num_new_tokens
  <2>1. GoodRow(rows[i])
    BY DEF GoodRows
  <2>2. rows[i].num_new_tokens \in Nat /\ rows[i].block_table \in Seq(Nat)
    BY <2>1 DEF GoodRow
  <2>. QED
    BY <2>1, <2>2, SlotMappingLength
<1>3. QueryLens(rows) = [i \in 1 .. L |-> rows[i].num_new_tokens]
  BY <1>1 DEF QueryLens
<1>4. PageCounts(rows) = [i \in 1 .. L |-> Len(rows[i].block_table)]
  BY <1>1 DEF PageCounts
<1>5. SlotLists(rows) = [i \in 1 .. L |-> SlotMapping(rows[i])]
  BY <1>1 DEF SlotLists
<1>6. Tables(rows) = [i \in 1 .. L |-> rows[i].block_table]
  BY <1>1 DEF Tables
<1>7. QueryLens(rows) \in [1 .. L -> Nat] /\ PageCounts(rows) \in [1 .. L -> Nat]
  BY <1>2, <1>3, <1>4
<1>8. SlotLists(rows) \in [1 .. L -> Seq(Int)] /\ Tables(rows) \in [1 .. L -> Seq(Nat)]
  BY <1>2, <1>5, <1>6
<1>9. /\ QueryLens(rows) \in Seq(Nat) /\ Len(QueryLens(rows)) = L
      /\ PageCounts(rows) \in Seq(Nat) /\ Len(PageCounts(rows)) = L
  BY <1>7, SequenceOf, Zenon
<1>10. SlotLists(rows) \in Seq(Seq(Int)) /\ Len(SlotLists(rows)) = L
  BY <1>8, SequenceOf, Zenon
<1>11. Tables(rows) \in Seq(Seq(Nat)) /\ Len(Tables(rows)) = L
  BY <1>8, SequenceOf, Zenon
<1>12. LengthsOf(SlotLists(rows)) = QueryLens(rows)
  <2>1. \A i \in 1 .. L : Len(SlotLists(rows)[i]) = rows[i].num_new_tokens
    BY <1>2, <1>5
  <2>. QED
    BY <1>3, <1>10, <2>1 DEF LengthsOf
<1>13. LengthsOf(Tables(rows)) = PageCounts(rows)
  <2>1. \A i \in 1 .. L : Len(Tables(rows)[i]) = Len(rows[i].block_table)
    BY <1>6
  <2>. QED
    BY <1>4, <1>11, <2>1 DEF LengthsOf
<1>. QED
  BY <1>3, <1>4, <1>9, <1>10, <1>11, <1>12, <1>13

(* Such metadata passes all checks of build_plan ...                        *)
LEMMA MetadataPasses ==
    ASSUME NEW R, NEW rows \in Seq(R), Len(rows) # 0, NEW p, GoodRows(rows, p)
    PROVE  Valid(Metadata(rows, p)) /\ PageCountsMatch(Metadata(rows, p))
<1>1. PICK L \in Nat \ {0} : L = Len(rows)
  OBVIOUS
<1>2. p \in 0 .. L /\ p \in Nat
  BY <1>1 DEF GoodRows
<1>3. PICK m : m = Metadata(rows, p)
  OBVIOUS
<1>4. PICK o : o = Offsets(QueryLens(rows))
  OBVIOUS
<1>5. PICK k : k = Offsets(PageCounts(rows))
  OBVIOUS
<1>6. /\ m.num_prefill_seqs = p /\ m.num_decode_seqs = L - p
      /\ m.num_prefill_tokens = o[p + 1] /\ m.num_decode_tokens = o[L + 1] - o[p + 1]
      /\ m.query_start_loc = o
      /\ m.seq_lens = [i \in DOMAIN rows |-> ContextEnd(rows[i])]
      /\ m.slot_mapping = FlattenSeq(SlotLists(rows))
      /\ m.block_tables = Tables(rows) /\ m.paged = IsPaged(rows)
      /\ m.num_kv_blocks = k[L + 1] /\ m.num_prefill_kv_blocks = k[p + 1]
  BY <1>1, <1>3, <1>4, <1>5, MetadataFields
<1>7. /\ QueryLens(rows) \in Seq(Nat) /\ Len(QueryLens(rows)) = L
      /\ \A i \in 1 .. L : QueryLens(rows)[i] = rows[i].num_new_tokens
      /\ PageCounts(rows) \in Seq(Nat) /\ Len(PageCounts(rows)) = L
      /\ SlotLists(rows) \in Seq(Seq(Int)) /\ Len(SlotLists(rows)) = L
      /\ LengthsOf(SlotLists(rows)) = QueryLens(rows)
      /\ Tables(rows) \in Seq(Seq(Nat)) /\ Len(Tables(rows)) = L
      /\ LengthsOf(Tables(rows)) = PageCounts(rows)
  BY <1>1, RowSums
<1>8. o \in [1 .. L + 1 -> Nat] /\ Len(o) = L + 1
  BY <1>4, <1>7, OffsetsFacts
<1>9. Len(FlattenSeq(SlotLists(rows))) = o[L + 1]
  BY <1>4, <1>7, FlattenFacts
<1>10. Len(FlattenSeq(Tables(rows))) = k[L + 1]
  BY <1>5, <1>7, FlattenFacts
<1>11. o[L + 1] - o[p + 1] = L - p
  <2>1. \A i \in p + 1 .. L : QueryLens(rows)[i] = 1
    <3>1. ASSUME NEW i \in p + 1 .. L PROVE QueryLens(rows)[i] = 1
      <4>1. i \in 1 .. L
        BY <1>2
      <4>2. rows[i].num_new_tokens = 1
        BY <1>1 DEF GoodRows
      <4>. QED
        BY <1>7, <4>1, <4>2
    <3>. QED
      BY <3>1
  <2>. QED
    BY <1>2, <1>4, <1>7, <2>1, OffsetsOnes
<1>12. DOMAIN rows = 1 .. L
  BY <1>1
<1>13. Len(m.seq_lens) = L
  BY <1>6, <1>12
<1>14. Valid(m)
  <2>1. p + (L - p) = L /\ L > 0
    BY <1>2
  <2>2. PICK x \in Nat, y \in Nat : x = o[p + 1] /\ y = o[L + 1]
    <3>1. p + 1 \in 1 .. L + 1 /\ L + 1 \in 1 .. L + 1
      BY <1>2
    <3>. QED
      BY <1>8, <3>1
  <2>3. o[p + 1] + (o[L + 1] - o[p + 1]) = o[L + 1]
    BY <2>2
  <2>4. m.num_prefill_seqs + m.num_decode_seqs = L
    BY <1>6, <2>1
  <2>5. m.num_prefill_tokens + m.num_decode_tokens = o[L + 1]
    BY <1>6, <2>3
  <2>. QED
    BY <1>6, <1>7, <1>8, <1>9, <1>11, <1>13, <2>1, <2>4, <2>5 DEF Valid
<1>15. PageCountsMatch(m)
  <2>1. ASSUME IsPaged(rows), NEW i \in 1 .. L PROVE m.block_tables[i] # <<>>
    <3>1. rows[i].block_table # <<>>
      BY <1>1, <2>1 DEF GoodRows
    <3>2. m.block_tables[i] = rows[i].block_table
      BY <1>6, <1>12 DEF Tables
    <3>. QED
      BY <3>1, <3>2
  <2>2. KvIndptr(m) = k
    <3>1. DOMAIN m.block_tables = 1 .. L /\ Len(m.block_tables) = L
      BY <1>6, <1>7
    <3>2. KvIndptr(m) = Offsets(LengthsOf(Tables(rows)))
      BY <1>6, <1>7, <3>1 DEF KvIndptr, LengthsOf
    <3>. QED
      BY <1>5, <1>7, <3>2
  <2>3. DOMAIN m.block_tables = 1 .. L
    BY <1>6, <1>7
  <2>. QED
    BY <1>6, <1>10, <2>1, <2>2, <2>3 DEF PageCountsMatch, PageIndices
<1>. QED
  BY <1>3, <1>14, <1>15

(* ... and that of decodes fits the buffers of a graph of their number.      *)
LEMMA DecodeFits ==
    ASSUME NEW R, NEW rows \in Seq(R), Len(rows) # 0, GoodRows(rows, 0), IsPaged(rows),
           context.metadata = Metadata(rows, 0), context.route = "decode",
           \A i \in 1 .. Len(rows) :
                Len(rows[i].block_table) <= CeilDiv(MaxModelLen, BlockSize)
    PROVE  MetadataFits(Len(rows))
<1>1. PICK L \in Nat \ {0} : L = Len(rows)
  OBVIOUS
<1>3. PICK m : m = Metadata(rows, 0) /\ m = context.metadata
  OBVIOUS
<1>4. PICK o : o = Offsets(QueryLens(rows))
  OBVIOUS
<1>5. PICK k : k = Offsets(PageCounts(rows))
  OBVIOUS
<1>6. /\ m.num_prefill_seqs = 0 /\ m.num_decode_seqs = L - 0
      /\ m.num_prefill_tokens = o[0 + 1] /\ m.num_decode_tokens = o[L + 1] - o[0 + 1]
      /\ m.query_start_loc = o
      /\ m.seq_lens = [i \in DOMAIN rows |-> ContextEnd(rows[i])]
      /\ m.slot_mapping = FlattenSeq(SlotLists(rows))
      /\ m.block_tables = Tables(rows) /\ m.paged = IsPaged(rows)
      /\ m.num_kv_blocks = k[L + 1] /\ m.num_prefill_kv_blocks = k[0 + 1]
  BY <1>1, <1>3, <1>4, <1>5 DEF Metadata, QueryLens, PageCounts, SlotLists, Tables
<1>7. /\ QueryLens(rows) \in Seq(Nat) /\ Len(QueryLens(rows)) = L
      /\ \A i \in 1 .. L : QueryLens(rows)[i] = rows[i].num_new_tokens
      /\ PageCounts(rows) \in Seq(Nat) /\ Len(PageCounts(rows)) = L
      /\ \A i \in 1 .. L : PageCounts(rows)[i] = Len(rows[i].block_table)
      /\ SlotLists(rows) \in Seq(Seq(Int)) /\ Len(SlotLists(rows)) = L
      /\ LengthsOf(SlotLists(rows)) = QueryLens(rows)
      /\ Tables(rows) \in Seq(Seq(Nat)) /\ Len(Tables(rows)) = L
      /\ LengthsOf(Tables(rows)) = PageCounts(rows)
  BY <1>1, RowSums
<1>8. o \in [1 .. L + 1 -> Nat] /\ Len(o) = L + 1 /\ o[1] = 0
  BY <1>4, <1>7, OffsetsFacts
<1>9. k \in [1 .. L + 1 -> Nat] /\ Len(k) = L + 1 /\ k[1] = 0
  BY <1>5, <1>7, OffsetsFacts
<1>10. Len(FlattenSeq(SlotLists(rows))) = o[L + 1]
  BY <1>4, <1>7, FlattenFacts
<1>11. Len(FlattenSeq(Tables(rows))) = k[L + 1]
  BY <1>5, <1>7, FlattenFacts
<1>12. o[L + 1] - o[0 + 1] = L - 0
  <2>1. ASSUME NEW i \in 0 + 1 .. L PROVE QueryLens(rows)[i] = 1
    <3>1. rows[i].num_new_tokens = 1
      BY <1>1 DEF GoodRows
    <3>2. i \in 1 .. L
      OBVIOUS
    <3>3. QueryLens(rows)[i] = rows[i].num_new_tokens
      BY <1>7, <3>2, Zenon
    <3>. QED
      BY <3>1, <3>3
  <2>2. 0 \in 0 .. L
    OBVIOUS
  <2>. QED
    BY <1>4, <1>7, <2>1, <2>2, OffsetsOnes
<1>13. o[L + 1] = L
  <2>1. o[L + 1] \in Nat
    BY <1>8
  <2>. QED
    BY <1>8, <1>12, <2>1
<1>14. DOMAIN rows = 1 .. L
  BY <1>1
<1>15. Len(m.seq_lens) = L /\ DOMAIN m.seq_lens = 1 .. L
  BY <1>6, <1>14
<1>16. KvIndptr(m) = k
  <2>1. DOMAIN m.block_tables = 1 .. L /\ Len(m.block_tables) = L
    BY <1>6, <1>7
  <2>2. KvIndptr(m) = Offsets(LengthsOf(Tables(rows)))
    BY <1>6, <1>7, <2>1 DEF KvIndptr, LengthsOf
  <2>. QED
    BY <1>5, <1>7, <2>2
<1>17. Len(LastPageLen(m)) = L
  BY <1>15 DEF LastPageLen
<1>18. k[L + 1] <= PageCapacity(L)
  <2>1. CeilDiv(MaxModelLen, BlockSize) \in Nat
    BY ModelRunnerAssumption, BlockSizeAssumption, PagesNeeded
  <2>2. \A i \in 1 .. L : PageCounts(rows)[i] <= CeilDiv(MaxModelLen, BlockSize)
    BY <1>1, <1>7
  <2>. QED
    BY <1>5, <1>7, <2>1, <2>2, OffsetsBounded DEF PageCapacity
<1>19. /\ m.num_prefill_seqs = 0 /\ m.num_decode_seqs = L
       /\ m.num_prefill_tokens = 0 /\ m.num_decode_tokens = L
       /\ m.num_prefill_kv_blocks = 0
  BY <1>6, <1>8, <1>9, <1>13
<1>20. BatchType(m) = "pure_decode"
  BY <1>19 DEF BatchType
<1>21. BackendMetadataFits(m, L)
  BY <1>6, <1>8, <1>9, <1>10, <1>11, <1>13, <1>16, <1>17, <1>18, <1>19, <1>20
  DEF BackendMetadataFits, PageIndices
<1>22. MetadataFits(L)
  BY <1>3, <1>6, <1>7, <1>8, <1>10, <1>13, <1>15, <1>21 DEF MetadataFits
<1>. QED
  BY <1>1, <1>22

-----------------------------------------------------------------------------
(***************************************************************************)
(* Batches.  A batch is formed while the engine serves, row by row,         *)
(* prefills first.  The pages of a request are those its context needs; a   *)
(* request outside the batch has nothing to compute, but for a decode its   *)
(* last token.                                                             *)
(***************************************************************************)
RequestRecords ==
    [length : 1 .. MaxModelLen, num_cached_tokens : Nat, num_new_tokens : Nat,
     block_table : Seq(Pages)]

PagedContext(q) ==
    /\ ContextEnd(q) <= q.length
    /\ q.length < MaxModelLen => Len(q.block_table) = CeilDiv(ContextEnd(q), BlockSize)

Waits(r) ==
    /\ requests[r].num_new_tokens = 0
    /\ Decodes(r) => requests[r].num_cached_tokens = requests[r].length - 1

BatchedRow(i) ==
    /\ requests[batch[i]].num_new_tokens > 0
    /\ requests[batch[i]].length < MaxModelLen
    /\ i <= num_prefill => ~Decodes(batch[i])
    /\ i > num_prefill =>
            /\ Decodes(batch[i])
            /\ requests[batch[i]].num_new_tokens = 1
            /\ ContextEnd(requests[batch[i]]) = requests[batch[i]].length

BatchInv ==
    /\ requests \in [Requests -> RequestRecords]
    /\ \A r \in Requests : PagedContext(requests[r])
    /\ batch \in Seq(Requests) /\ IsInjective(batch)
    /\ num_prefill \in 0 .. Len(batch)
    /\ \A i \in 1 .. Len(batch) : BatchedRow(i)
    /\ \A r \in Requests \ Range(batch) : Waits(r)

LEMMA ConstantFacts ==
    /\ NumPages \in Nat \ {0} /\ MaxModelLen \in Nat \ {0} /\ BlockSize \in Nat \ {0}
    /\ \A r \in Requests : PromptLen[r] \in 1 .. MaxModelLen - 1
BY ModelRunnerAssumption, BlockSizeAssumption

LEMMA BatchFrame ==
    ASSUME BatchInv, UNCHANGED batchVars
    PROVE  BatchInv'
BY DEF BatchInv, batchVars, BatchedRow, Waits, Decodes

LEMMA NoPagesForNothing == CeilDiv(0, BlockSize) = 0
<1>1. PICK k \in Nat : k = CeilDiv(0, BlockSize)
  BY ConstantFacts, PagesNeeded
<1>2. 0 <= 0 * BlockSize
  BY ConstantFacts
<1>3. k <= 0
  BY <1>1, <1>2, ConstantFacts, PagesNeeded
<1>. QED
  BY <1>1, <1>3

LEMMA FreshBatch ==
    ASSUME requests = Fresh, batch = <<>>, num_prefill = 0
    PROVE  BatchInv
<1>1. ASSUME NEW r \in Requests
      PROVE  /\ requests[r] \in RequestRecords /\ PagedContext(requests[r]) /\ Waits(r)
  <2>1. PICK n \in 1 .. MaxModelLen - 1 : n = PromptLen[r]
    BY ConstantFacts
  <2>2. requests[r] = [length |-> n, num_cached_tokens |-> 0, num_new_tokens |-> 0,
                       block_table |-> <<>>]
    BY <2>1 DEF Fresh
  <2>3. n \in 1 .. MaxModelLen /\ <<>> \in Seq(Pages)
    BY ConstantFacts
  <2>4. requests[r] \in RequestRecords
    BY <2>2, <2>3 DEF RequestRecords
  <2>5. PagedContext(requests[r])
    BY <2>1, <2>2, ConstantFacts, NoPagesForNothing DEF PagedContext, ContextEnd
  <2>6. Waits(r)
    BY <2>1, <2>2 DEF Waits, Decodes
  <2>. QED
    BY <2>4, <2>5, <2>6
<1>2. requests \in [Requests -> RequestRecords]
  BY <1>1 DEF Fresh
<1>3. batch \in Seq(Requests) /\ Len(batch) = 0 /\ IsInjective(batch)
  BY DEF IsInjective
<1>4. \A i \in 1 .. Len(batch) : BatchedRow(i)
  BY <1>3
<1>. QED
  BY <1>1, <1>2, <1>3, <1>4 DEF BatchInv

LEMMA BatchDiscarded ==
    ASSUME requests' = Fresh, batch' = <<>>, num_prefill' = 0
    PROVE  BatchInv'
<1>1. (requests = Fresh /\ batch = <<>> /\ num_prefill = 0 => BatchInv)'
  BY FreshBatch, PTL
<1>. QED
  BY <1>1 DEF Fresh

(* The free pages, as often as there are some.                              *)
LEMMA FreePagesListed ==
    LastFirst \in Seq(Pages) /\ Len(LastFirst) = Cardinality(FreePages)
<1>1. IsFiniteSet(Pages)
  BY ConstantFacts, FS_Interval DEF Pages
<1>2. FreePages \in SUBSET Pages
  BY DEF FreePages
<1>3. IsFiniteSet(FreePages)
  BY <1>1, <1>2, FS_Subset
<1>4. PICK n \in Nat : n = Cardinality(FreePages)
  BY <1>3, FS_CardinalityType
<1>5. ExistsBijection(1 .. n, FreePages)
  BY <1>3, <1>4, FS_CardinalityType
<1>6. \E f \in [1 .. n -> FreePages] : IsInjective(f)
  BY <1>5 DEF ExistsBijection, Bijection, Injection
<1>7. PICK s : s = SetToSeq(FreePages)
  OBVIOUS
<1>8. s \in [1 .. n -> FreePages]
  BY <1>4, <1>6, <1>7 DEF SetToSeq
<1>9. LastFirst = [i \in 1 .. n |-> s[(n - i) + 1]]
  BY <1>7, <1>8 DEF LastFirst, Reverse
<1>10. ASSUME NEW i \in 1 .. n PROVE s[(n - i) + 1] \in Pages
  <2>1. (n - i) + 1 \in 1 .. n
    OBVIOUS
  <2>. QED
    BY <1>2, <1>8, <2>1
<1>11. LastFirst \in [1 .. n -> Pages]
  BY <1>9, <1>10
<1>. QED
  BY <1>4, <1>11

Updated(q, c, n, t) ==
    [q EXCEPT !.num_cached_tokens = c, !.num_new_tokens = n, !.block_table = t]

RequestOf(l, c, n, t) ==
    [length |-> l, num_cached_tokens |-> c, num_new_tokens |-> n, block_table |-> t]

LEMMA RecordUpdated ==
    ASSUME NEW q \in RequestRecords, NEW c, NEW n, NEW t
    PROVE  Updated(q, c, n, t) = RequestOf(q.length, c, n, t)
<1>1. DOMAIN q = {"length", "num_cached_tokens", "num_new_tokens", "block_table"}
  BY DEF RequestRecords
<1>2. PICK e : /\ e = Updated(q, c, n, t)
               /\ e = [q EXCEPT !.num_cached_tokens = c, !.num_new_tokens = n,
                                !.block_table = t]
  BY DEF Updated
<1>3. e = [x \in DOMAIN q |-> e[x]] /\ DOMAIN e = DOMAIN q
  BY <1>2
<1>4. /\ e["length"] = q.length /\ e["num_cached_tokens"] = c
      /\ e["num_new_tokens"] = n /\ e["block_table"] = t
  BY <1>1, <1>2
<1>5. PICK g : g = [length |-> q.length, num_cached_tokens |-> c, num_new_tokens |-> n,
                    block_table |-> t]
  OBVIOUS
<1>6. /\ g = [x \in DOMAIN q |-> g[x]]
      /\ g["length"] = q.length /\ g["num_cached_tokens"] = c
      /\ g["num_new_tokens"] = n /\ g["block_table"] = t
  BY <1>1, <1>5
<1>7. \A x \in DOMAIN q : e[x] = g[x]
  BY <1>1, <1>4, <1>6
<1>8. e = g
  BY <1>3, <1>6, <1>7
<1>. QED
  BY <1>2, <1>5, <1>8 DEF RequestOf

(* A row joins: its pages are those of its context, the free ones suffice.   *)
LEMMA RowAdded ==
    ASSUME BatchInv, NEW r \in Requests, NEW n \in 1 .. MaxNumBatchedTokens,
           NEW d \in Requests \cup {NoRequest}, AddRow(r, n, d)
    PROVE  \E c \in Nat, t \in Seq(Pages) :
              /\ requests' = [requests EXCEPT ![r] =
                    [length |-> requests[r].length, num_cached_tokens |-> c,
                     num_new_tokens |-> n, block_table |-> t]]
              /\ c + n <= requests[r].length
              /\ Len(t) = CeilDiv(c + n, BlockSize)
              /\ Decodes(r) => c = requests[r].num_cached_tokens
<1>1. PICK q \in RequestRecords : q = requests[r]
  BY DEF BatchInv
<1>2. /\ r \notin Range(batch) /\ q.length < MaxModelLen
      /\ Decodes(r) => d = NoRequest
      /\ d # NoRequest => Shareable(r, d)
  BY <1>1 DEF AddRow
<1>3. q.num_new_tokens = 0 /\ PagedContext(q)
  BY <1>1, <1>2 DEF BatchInv, Waits
<1>4. PICK c0 \in Nat, k0 \in Nat :
          /\ c0 = q.num_cached_tokens /\ k0 = Len(q.block_table)
          /\ ContextEnd(q) = c0 /\ k0 = CeilDiv(c0, BlockSize)
  <2>1. q.num_cached_tokens \in Nat /\ q.block_table \in Seq(Pages)
    BY <1>1 DEF RequestRecords
  <2>2. ContextEnd(q) = q.num_cached_tokens
    BY <1>3, <2>1 DEF ContextEnd
  <2>. QED
    BY <1>2, <1>3, <2>1, <2>2 DEF PagedContext
<1> DEFINE shared == IF d = NoRequest THEN <<>> ELSE <<requests[d].block_table[1]>>
           table == requests[r].block_table \o shared
           cached == requests[r].num_cached_tokens + Len(shared) * BlockSize
           more == CeilDiv(cached + n, BlockSize) - Len(table)
<1>5. /\ cached + n <= requests[r].length
      /\ more <= Cardinality(FreePages)
      /\ requests' = [requests EXCEPT ![r] =
            [@ EXCEPT !.num_cached_tokens = cached, !.num_new_tokens = n,
                      !.block_table = table \o SubSeq(LastFirst, 1, more)]]
  BY Zenon DEF AddRow
<1>a. /\ d = NoRequest => shared = <<>>
      /\ d # NoRequest => shared = <<requests[d].block_table[1]>>
      /\ table = q.block_table \o shared /\ cached = c0 + Len(shared) * BlockSize
  BY <1>1, <1>4
<1>. HIDE DEF shared, table, cached
<1>6. /\ table \in Seq(Pages) /\ cached \in Nat /\ Len(table) = CeilDiv(cached, BlockSize)
      /\ Decodes(r) => cached = c0
  <2>1. CASE d = NoRequest
    <3>1. shared = <<>>
      BY <1>a, <2>1
    <3>2. table = q.block_table \o <<>> /\ cached = c0
      <4>1. Len(<<>>) * BlockSize = 0
        BY ConstantFacts
      <4>2. cached = c0 + 0
        BY <1>a, <3>1, <4>1
      <4>. QED
        BY <1>a, <3>1, <4>2
    <3>3. q.block_table \in Seq(Pages)
      BY <1>1 DEF RequestRecords
    <3>4. table = q.block_table
      BY <3>2, <3>3
    <3>. QED
      BY <1>4, <3>2, <3>3, <3>4
  <2>2. CASE d # NoRequest
    <3>1. /\ d \in Requests /\ q.block_table = <<>> /\ requests[d].block_table # <<>>
          /\ ~Decodes(r)
      BY <1>1, <1>2, <2>2 DEF Shareable
    <3>2. requests[d].block_table \in Seq(Pages)
      BY <3>1 DEF BatchInv, RequestRecords
    <3>3. PICK p \in Pages : p = requests[d].block_table[1]
      BY <3>1, <3>2
    <3>4. shared = <<p>>
      BY <1>a, <2>2, <3>3
    <3>5. c0 = 0
      <4>1. c0 <= k0 * BlockSize /\ k0 = 0
        BY <1>4, <3>1, ConstantFacts, PagesNeeded
      <4>2. 0 * BlockSize = 0
        BY ConstantFacts
      <4>. QED
        BY <4>1, <4>2
    <3>6. table = <<p>> /\ Len(table) = 1 /\ <<p>> \in Seq(Pages)
      BY <1>a, <3>1, <3>4
    <3>7. cached = BlockSize
      <4>1. Len(<<p>>) = 1 /\ 0 + 1 * BlockSize = BlockSize
        BY ConstantFacts
      <4>. QED
        BY <1>a, <3>4, <3>5, <4>1
    <3>8. CeilDiv(BlockSize, BlockSize) = 1
      <4>1. PICK x \in Nat : x = CeilDiv(BlockSize, BlockSize)
        BY ConstantFacts, PagesNeeded
      <4>2. BlockSize <= x * BlockSize
        BY <4>1, ConstantFacts, PagesNeeded
      <4>3. BlockSize <= 1 * BlockSize => x <= 1
        BY <4>1, ConstantFacts, PagesNeeded
      <4>4. x # 0
        BY <4>2, ConstantFacts
      <4>5. x <= 1
        BY <4>3, ConstantFacts
      <4>. QED
        BY <4>1, <4>4, <4>5
    <3>. QED
      BY <3>1, <3>3, <3>6, <3>7, <3>8, ConstantFacts
  <2>. QED
    BY <2>1, <2>2
<1>7. PICK c \in Nat, t \in Seq(Pages) :
          /\ c = cached /\ t = table /\ Len(t) = CeilDiv(c, BlockSize)
  BY <1>6
<1>8. CeilDiv(c, BlockSize) <= CeilDiv(c + n, BlockSize) /\ CeilDiv(c + n, BlockSize) \in Nat
  <2>1. PICK e \in Nat : e = c + n /\ c <= e
    BY <1>7
  <2>2. PICK k \in Nat : k = CeilDiv(e, BlockSize)
    BY <2>1, ConstantFacts, PagesNeeded
  <2>3. e <= k * BlockSize /\ k * BlockSize \in Nat
    BY <2>1, <2>2, ConstantFacts, PagesNeeded, ProductFacts
  <2>4. c <= k * BlockSize
    BY <2>1, <2>3
  <2>5. CeilDiv(c, BlockSize) <= k
    BY <2>2, <2>4, ConstantFacts, PagesNeeded
  <2>. QED
    BY <2>1, <2>2, <2>5
<1>9. PICK m \in Nat : m = more /\ Len(t) + m = CeilDiv(c + n, BlockSize)
  <2>1. Len(t) \in Nat
    OBVIOUS
  <2>. QED
    BY <1>7, <1>8, <2>1
<1>10. m <= Len(LastFirst)
  BY <1>5, <1>9, FreePagesListed
<1>11. PICK s \in Seq(Pages) : s = SubSeq(LastFirst, 1, m) /\ Len(s) = m
  <2>1. PICK z \in Seq(Pages) : z = LastFirst
    BY FreePagesListed
  <2>2. m <= Len(z)
    BY <1>10, <2>1
  <2>3. SubSeq(z, 1, m) \in Seq(Pages) /\ Len(SubSeq(z, 1, m)) = m
    BY <2>2
  <2>. QED
    BY <2>1, <2>3
<1>12. t \o s \in Seq(Pages) /\ Len(t \o s) = CeilDiv(c + n, BlockSize)
  BY <1>9, <1>11
<1>13. requests' = [requests EXCEPT ![r] =
            Updated(q, c, n, t \o s)]
  BY <1>1, <1>5, <1>7, <1>9, <1>11 DEF Updated
<1>14. Updated(q, c, n, t \o s) = RequestOf(q.length, c, n, t \o s)
  BY RecordUpdated, Zenon
<1>15. c + n <= q.length /\ (Decodes(r) => c = q.num_cached_tokens)
  BY <1>1, <1>4, <1>5, <1>6, <1>7
<1>16. requests' = [requests EXCEPT ![r] = RequestOf(q.length, c, n, t \o s)]
  BY <1>13, <1>14, Zenon
<1>. QED
  BY <1>1, <1>12, <1>15, <1>16 DEF RequestOf

LEMMA BatchGrows ==
    ASSUME BatchInv, NEW r \in Requests, NEW n \in 1 .. MaxNumBatchedTokens,
           NEW d \in Requests \cup {NoRequest}, AddRow(r, n, d)
    PROVE  BatchInv'
<1>1. PICK c \in Nat, t \in Seq(Pages) :
          /\ requests' = [requests EXCEPT ![r] =
                [length |-> requests[r].length, num_cached_tokens |-> c,
                 num_new_tokens |-> n, block_table |-> t]]
          /\ c + n <= requests[r].length
          /\ Len(t) = CeilDiv(c + n, BlockSize)
          /\ Decodes(r) => c = requests[r].num_cached_tokens
  BY RowAdded
<1>2. /\ r \notin Range(batch) /\ requests[r].length < MaxModelLen
      /\ ~Decodes(r) => num_prefill = Len(batch)
      /\ batch' = Append(batch, r)
      /\ num_prefill' = IF Decodes(r) THEN num_prefill ELSE num_prefill + 1
  BY DEF AddRow
<1>3. PICK L \in Nat : L = Len(batch) /\ DOMAIN batch = 1 .. L
  BY DEF BatchInv
<1>4. /\ batch' \in Seq(Requests) /\ Len(batch') = L + 1 /\ DOMAIN batch' = 1 .. L + 1
      /\ batch'[L + 1] = r /\ \A i \in 1 .. L : batch'[i] = batch[i]
  BY <1>2, <1>3 DEF BatchInv
<1>5. Range(batch') = Range(batch) \cup {r}
  BY <1>2, AppendRange DEF BatchInv
<1>6. \A i \in 1 .. L : batch[i] \in Requests /\ batch[i] \in Range(batch) /\ batch[i] # r
  BY <1>2, <1>3 DEF BatchInv, Range
<1>7. IsInjective(batch')
  <2>1. \A i, j \in 1 .. L : batch[i] = batch[j] => i = j
    BY <1>3 DEF BatchInv, IsInjective
  <2>2. ASSUME NEW i \in 1 .. L + 1, NEW j \in 1 .. L + 1, batch'[i] = batch'[j]
        PROVE  i = j
    <3>1. (i = L + 1 \/ i \in 1 .. L) /\ (j = L + 1 \/ j \in 1 .. L)
      OBVIOUS
    <3>. QED
      BY <1>4, <1>6, <2>1, <2>2, <3>1
  <2>. QED
    BY <1>4, <2>2 DEF IsInjective
<1>8. /\ requests'[r] = [length |-> requests[r].length, num_cached_tokens |-> c,
                         num_new_tokens |-> n, block_table |-> t]
      /\ \A x \in Requests \ {r} : requests'[x] = requests[x]
  BY <1>1 DEF BatchInv
<1>9. requests[r] \in RequestRecords /\ n \in Nat \ {0}
  BY DEF BatchInv
<1>10. requests'[r] \in RequestRecords
  BY <1>8, <1>9 DEF RequestRecords
<1>11. requests' \in [Requests -> RequestRecords]
  BY <1>1, <1>8, <1>10 DEF BatchInv
<1>12. PagedContext(requests'[r])
  BY <1>1, <1>8 DEF PagedContext, ContextEnd
<1>13. \A x \in Requests : PagedContext(requests'[x])
  BY <1>8, <1>12 DEF BatchInv
<1>14. \A x \in Requests : Decodes(x)' = Decodes(x)
  BY <1>8 DEF Decodes
<1>15. PICK p \in 0 .. L : p = num_prefill
  BY <1>3 DEF BatchInv
<1>16. num_prefill' \in 0 .. L + 1
  BY <1>2, <1>15
<1>17. ASSUME NEW i \in 1 .. L PROVE BatchedRow(i)'
  <2>1. BatchedRow(i) /\ batch'[i] = batch[i] /\ batch[i] \in Requests
        /\ requests'[batch[i]] = requests[batch[i]]
    BY <1>3, <1>4, <1>6, <1>8 DEF BatchInv
  <2>3. (i <= num_prefill' <=> i <= num_prefill) /\ (i > num_prefill' <=> i > num_prefill)
    BY <1>2, <1>3, <1>15
  <2>. QED
    BY <2>1, <2>3 DEF BatchedRow, Decodes
<1>18. BatchedRow(L + 1)'
  <2>1. batch'[L + 1] = r /\ requests'[r].length = requests[r].length
        /\ requests'[r].num_new_tokens = n /\ ContextEnd(requests'[r]) = c + n
    BY <1>4, <1>8 DEF ContextEnd
  <2>2. CASE Decodes(r)
    <3>1. c = requests[r].length - 1
      BY <1>1, <1>2, <2>2 DEF BatchInv, Waits
    <3>2. n = 1 /\ c + n = requests[r].length
      BY <1>1, <1>9, <3>1 DEF RequestRecords
    <3>3. L + 1 > num_prefill'
      BY <1>2, <1>15, <2>2
    <3>4. ~(L + 1 <= num_prefill')
      BY <1>2, <1>15, <2>2
    <3>. QED
      BY <1>2, <2>1, <2>2, <3>2, <3>3, <3>4 DEF BatchedRow, Decodes
  <2>3. CASE ~Decodes(r)
    <3>1. num_prefill' = L + 1
      BY <1>2, <1>3, <2>3
    <3>2. ~(L + 1 > num_prefill')
      BY <3>1
    <3>. QED
      BY <1>2, <1>9, <2>1, <2>3, <3>2 DEF BatchedRow, Decodes
  <2>. QED
    BY <2>2, <2>3
<1>19. \A i \in 1 .. L + 1 : BatchedRow(i)'
  BY <1>17, <1>18
<1>20. ASSUME NEW x \in Requests \ Range(batch') PROVE Waits(x)'
  BY <1>5, <1>8 DEF BatchInv, Waits, Decodes
<1>. QED
  BY <1>4, <1>7, <1>11, <1>13, <1>16, <1>19, <1>20 DEF BatchInv

-----------------------------------------------------------------------------
(* The rows of a run                                                       *)

LEMMA TokensOf ==
    ASSUME BatchInv, NEW r \in Requests
    PROVE  /\ RowOf(r).token_ids \in Seq(Int)
           /\ Len(RowOf(r).token_ids) = requests[r].length
           /\ \A x \in 1 .. requests[r].length : RowOf(r).token_ids[x] = Text[r][x]
<1>1. PICK n \in 1 .. MaxModelLen : n = requests[r].length
  BY DEF BatchInv, RequestRecords
<1>2. PICK text \in Seq(Int) : text = Text[r] /\ Len(text) = MaxModelLen
  BY ModelRunnerAssumption
<1>3. n \in 1 .. Len(text)
  BY <1>2, ConstantFacts
<1>4. PICK s : s = SubSeq(text, 1, n)
  OBVIOUS
<1>5. s \in Seq(Int) /\ Len(s) = n /\ \A x \in 1 .. n : s[x] = text[x]
  BY <1>3, <1>4
<1>6. RowOf(r).token_ids = s
  BY <1>1, <1>2, <1>4 DEF RowOf
<1>. QED
  BY <1>1, <1>2, <1>5, <1>6

LEMMA SeqOfSubset ==
    ASSUME NEW S, NEW T, \A x \in S : x \in T, NEW s \in Seq(S)
    PROVE  s \in Seq(T)
<1>1. s \in [1 .. Len(s) -> S] /\ Len(s) \in Nat
  OBVIOUS
<1>2. s \in [1 .. Len(s) -> T]
  BY <1>1
<1>. QED
  BY <1>1, <1>2

(* A request that computes something has a page for it, and never more than  *)
(* a request of the largest length.                                        *)
LEMMA PagesOfRow ==
    ASSUME BatchInv, NEW i \in 1 .. Len(batch)
    PROVE  /\ requests[batch[i]] \in RequestRecords
           /\ GoodRow(RowOf(batch[i]))
           /\ requests[batch[i]].block_table # <<>>
           /\ Len(requests[batch[i]].block_table) <= CeilDiv(MaxModelLen, BlockSize)
<1>1. PICK r \in Requests : r = batch[i]
  BY DEF BatchInv
<1>2. PICK q \in RequestRecords : q = requests[r]
  BY DEF BatchInv
<1>3. q.num_new_tokens > 0 /\ q.length < MaxModelLen /\ PagedContext(q)
  BY <1>1, <1>2 DEF BatchInv, BatchedRow
<1>4. PICK c \in Nat, n \in Nat \ {0}, l \in 1 .. MaxModelLen :
          c = q.num_cached_tokens /\ n = q.num_new_tokens /\ l = q.length
  BY <1>3 DEF RequestRecords
<1>5. q.block_table \in Seq(Pages)
  BY DEF RequestRecords
<1>6. PICK e \in Nat \ {0} : e = ContextEnd(q) /\ e <= l
  BY <1>3, <1>4 DEF ContextEnd, PagedContext
<1>7. PICK k \in Nat : k = Len(q.block_table) /\ k = CeilDiv(e, BlockSize)
  BY <1>3, <1>5, <1>6 DEF PagedContext
<1>8. k # 0
  <2>1. e <= k * BlockSize
    BY <1>6, <1>7, ConstantFacts, PagesNeeded
  <2>2. 0 * BlockSize = 0
    BY ConstantFacts
  <2>. QED
    BY <1>6, <2>1, <2>2
<1>9. q.block_table # <<>>
  BY <1>5, <1>7, <1>8
<1>10. k <= CeilDiv(MaxModelLen, BlockSize)
  <2>1. PICK m \in Nat : m = CeilDiv(MaxModelLen, BlockSize)
    BY ConstantFacts, PagesNeeded
  <2>2. MaxModelLen <= m * BlockSize /\ m * BlockSize \in Nat
    BY <2>1, ConstantFacts, PagesNeeded, ProductFacts
  <2>3. e <= m * BlockSize
    BY <1>4, <1>6, <2>2, ConstantFacts
  <2>4. CeilDiv(e, BlockSize) <= m
    BY <2>1, <2>3, ConstantFacts, PagesNeeded
  <2>. QED
    BY <1>7, <2>1, <2>4
<1>11. /\ RowOf(r).num_cached_tokens = q.num_cached_tokens
       /\ RowOf(r).num_new_tokens = q.num_new_tokens
       /\ RowOf(r).block_table = q.block_table
       /\ ContextEnd(RowOf(r)) = ContextEnd(q)
  BY <1>2 DEF RowOf, ContextEnd
<1>12. q.block_table \in Seq(Nat)
  <2>1. \A x \in Pages : x \in Nat
    BY ConstantFacts DEF Pages
  <2>. QED
    BY <1>5, <2>1, SeqOfSubset
<1>13. GoodRow(RowOf(r))
  BY <1>4, <1>6, <1>7, <1>11, <1>12 DEF GoodRow
<1>. QED
  BY <1>1, <1>2, <1>7, <1>9, <1>10, <1>13

AnyRow == {RowOf(r) : r \in Requests}

LEMMA RowsOfBatch ==
    ASSUME BatchInv, engine.phase # "warmup"
    PROVE  /\ Rows \in Seq(AnyRow) /\ Len(Rows) = Len(batch)
           /\ \A i \in 1 .. Len(batch) : Rows[i] = RowOf(batch[i])
           /\ GoodRows(Rows, num_prefill)
           /\ batch # <<>> => IsPaged(Rows)
<1>1. PICK L \in Nat : L = Len(batch) /\ DOMAIN batch = 1 .. L
  BY DEF BatchInv
<1>2. Rows = [i \in 1 .. L |-> RowOf(batch[i])]
  BY <1>1 DEF Rows
<1>3. \A i \in 1 .. L : batch[i] \in Requests
  BY <1>1 DEF BatchInv
<1>4. Rows \in [1 .. L -> AnyRow]
  BY <1>2, <1>3 DEF AnyRow
<1>5. Rows \in Seq(AnyRow) /\ Len(Rows) = L /\ DOMAIN Rows = 1 .. L
      /\ \A i \in 1 .. L : Rows[i] = RowOf(batch[i])
  BY <1>2, <1>4
<1>6. ASSUME NEW i \in 1 .. L
      PROVE  /\ GoodRow(Rows[i])
             /\ Rows[i].block_table # <<>>
             /\ i > num_prefill => Rows[i].num_new_tokens = 1
  <2>1. GoodRow(Rows[i]) /\ requests[batch[i]].block_table # <<>>
    BY <1>1, <1>5, PagesOfRow
  <2>2. /\ Rows[i].block_table = requests[batch[i]].block_table
        /\ Rows[i].num_new_tokens = requests[batch[i]].num_new_tokens
    BY <1>5 DEF RowOf
  <2>3. BatchedRow(i)
    BY <1>1 DEF BatchInv
  <2>. QED
    BY <2>1, <2>2, <2>3 DEF BatchedRow
<1>7. num_prefill \in 0 .. L
  BY <1>1 DEF BatchInv
<1>8. ASSUME NEW i \in num_prefill + 1 .. L PROVE Rows[i].num_new_tokens = 1
  <2>1. i \in 1 .. L /\ i > num_prefill
    BY <1>7
  <2>. QED
    BY <1>6, <2>1
<1>9. GoodRows(Rows, num_prefill)
  BY <1>5, <1>6, <1>7, <1>8 DEF GoodRows
<1>10. batch # <<>> => IsPaged(Rows)
  <2>1. ASSUME batch # <<>> PROVE 1 \in 1 .. L
    BY <1>1, <2>1 DEF BatchInv
  <2>. QED
    BY <1>5, <1>6, <2>1 DEF IsPaged
<1>. QED
  BY <1>1, <1>5, <1>9, <1>10

LEMMA MinOfTwo ==
    ASSUME NEW a \in Nat, NEW b \in Nat
    PROVE  Min({a, b}) \in {a, b} /\ Min({a, b}) <= a /\ Min({a, b}) <= b
<1>1. \E x \in {a, b} : \A y \in {a, b} : x <= y
  <2>1. CASE a <= b
    BY <2>1
  <2>2. CASE b <= a
    BY <2>2
  <2>. QED
    BY <2>1, <2>2
<1>. QED
  BY <1>1 DEF Min

(* Warmup runs at least one row, without pages, and all of them prefills.    *)
LEMMA RowsOfWarmup ==
    /\ WarmupRows \in Seq({WarmupRow(n) : n \in Nat}) /\ Len(WarmupRows) # 0
    /\ GoodRows(WarmupRows, Len(WarmupRows))
    /\ ~IsPaged(WarmupRows)
<1> DEFINE tokens == Min({MaxNumBatchedTokens, MaxNumSeqs * MaxModelLen})
           full == tokens \div MaxModelLen
           rest == tokens % MaxModelLen
           a == [i \in 1 .. full |-> WarmupRow(MaxModelLen)]
           b == IF rest = 0 THEN <<>> ELSE <<WarmupRow(rest)>>
           R == {WarmupRow(n) : n \in Nat \ {0}}
<1>1. tokens \in Nat \ {0}
  <2>1. MaxNumBatchedTokens \in Nat \ {0} /\ MaxNumSeqs * MaxModelLen \in Nat \ {0}
    BY ModelRunnerAssumption
  <2>. QED
    BY <2>1, MinOfTwo
<1>. HIDE DEF tokens
<1>2. full \in Nat /\ rest \in Nat /\ (full = 0 => rest # 0)
  <2>1. full \in Nat /\ rest \in 0 .. MaxModelLen - 1 /\ tokens = full * MaxModelLen + rest
    BY <1>1, ConstantFacts, QuotientFacts
  <2>2. 0 * MaxModelLen = 0
    BY ConstantFacts
  <2>. QED
    BY <1>1, <2>1, <2>2
<1>3. WarmupRows = a \o b
  BY DEF WarmupRows, tokens
<1>. HIDE DEF full, rest
<1>4. a \in Seq(R) /\ Len(a) = full
  <2>1. PICK v \in R : v = WarmupRow(MaxModelLen)
    BY ConstantFacts
  <2>2. a = [i \in 1 .. full |-> v]
    BY <2>1
  <2>. HIDE DEF R, a
  <2>. QED
    BY <1>2, <2>2
<1>5. b \in Seq(R) /\ (rest # 0 => Len(b) = 1)
  <2>1. CASE rest = 0
    BY <2>1
  <2>2. CASE rest # 0
    <3>1. PICK v \in R : v = WarmupRow(rest)
      BY <1>2, <2>2
    <3>2. b = <<v>>
      BY <2>2, <3>1
    <3>. HIDE DEF R, b
    <3>. QED
      BY <3>1, <3>2
  <2>. QED
    BY <2>1, <2>2
<1>6. WarmupRows \in Seq(R) /\ Len(WarmupRows) # 0
  <2>. HIDE DEF a, b, R
  <2>1. PICK x \in Seq(R), y \in Seq(R) : x = a /\ y = b
    BY <1>4, <1>5
  <2>2. x \o y \in Seq(R) /\ Len(x \o y) = Len(x) + Len(y)
    OBVIOUS
  <2>3. Len(y) \in Nat
    OBVIOUS
  <2>. QED
    BY <1>2, <1>3, <1>4, <1>5, <2>1, <2>2, <2>3
<1>7. ASSUME NEW i \in 1 .. Len(WarmupRows)
      PROVE  GoodRow(WarmupRows[i]) /\ WarmupRows[i].block_table = <<>>
  <2>1. WarmupRows[i] \in R
    BY <1>6
  <2>2. PICK n \in Nat \ {0} : WarmupRows[i] = WarmupRow(n)
    BY <2>1
  <2>. QED
    BY <2>2 DEF GoodRow, WarmupRow
<1>8. ~IsPaged(WarmupRows)
  <2>1. DOMAIN WarmupRows = 1 .. Len(WarmupRows)
    BY <1>6
  <2>. QED
    BY <1>7, <2>1 DEF IsPaged
<1>9. GoodRows(WarmupRows, Len(WarmupRows))
  <2>1. PICK L \in Nat : L = Len(WarmupRows)
    BY <1>6
  <2>2. L \in 0 .. L /\ L + 1 .. L = {}
    OBVIOUS
  <2>. QED
    BY <1>7, <1>8, <2>1, <2>2 DEF GoodRows
<1>10. R \subseteq {WarmupRow(n) : n \in Nat}
  OBVIOUS
<1>. QED
  BY <1>6, <1>8, <1>9, <1>10

(* postprocess: the requests that sampled are those that are computed to     *)
(* their end; each of them grows by a token and becomes, or stays, a decode. *)
LEMMA BatchProcessed ==
    ASSUME BatchInv, Postprocess, step.logits_rows = LogitsRows(Rows), batch # <<>>
    PROVE  BatchInv'
<1>1. PICK L \in Nat : L = Len(batch) /\ DOMAIN batch = 1 .. L
  BY DEF BatchInv
<1>2. engine.phase # "warmup" /\ batch' = <<>> /\ num_prefill' = 0
  BY DEF Postprocess
<1>3. /\ Rows \in Seq(AnyRow) /\ Len(Rows) = L /\ IsPaged(Rows)
      /\ \A i \in 1 .. L : Rows[i] = RowOf(batch[i])
  BY <1>1, <1>2, RowsOfBatch
<1>4. PICK q \in Seq(1 .. L) : q = step.logits_rows
                               /\ Range(q) = {i \in 1 .. L : Ends(Rows[i])}
  BY <1>3, LogitsRowsFacts
<1> DEFINE sampled == {batch[step.logits_rows[i]] : i \in DOMAIN step.logits_rows}
<1>5. ASSUME NEW i \in 1 .. L
      PROVE  batch[i] \in sampled <=> ContextEnd(requests[batch[i]]) = requests[batch[i]].length
  <2>1. batch[i] \in Requests
    BY <1>1 DEF BatchInv
  <2>2. Ends(Rows[i]) <=> ContextEnd(requests[batch[i]]) = requests[batch[i]].length
    <3>1. ContextEnd(RowOf(batch[i])) = ContextEnd(requests[batch[i]])
      BY DEF ContextEnd, RowOf
    <3>2. Len(RowOf(batch[i]).token_ids) = requests[batch[i]].length
      BY <2>1, TokensOf
    <3>. QED
      BY <1>3, <3>1, <3>2 DEF Ends
  <2>3. i \in Range(q) => batch[i] \in sampled
    BY <1>4 DEF Range
  <2>4. batch[i] \in sampled => i \in Range(q)
    <3>1. ASSUME batch[i] \in sampled PROVE i \in Range(q)
      <4>1. PICK x \in DOMAIN q : batch[i] = batch[q[x]]
        BY <1>4, <3>1
      <4>2. q[x] \in 1 .. L
        BY <1>4
      <4>3. q[x] = i
        BY <1>1, <4>1, <4>2 DEF BatchInv, IsInjective
      <4>. QED
        BY <4>3 DEF Range
    <3>. QED
      BY <3>1
  <2>. QED
    BY <1>4, <2>2, <2>3, <2>4
<1> DEFINE Length(r) == requests[r].length + IF r \in sampled THEN 1 ELSE 0
<1>6. requests' = [r \in Requests |->
                IF r \notin Range(batch) THEN requests[r]
                ELSE [length |-> Length(r),
                      num_cached_tokens |-> ContextEnd(requests[r]),
                      num_new_tokens |-> 0,
                      block_table |-> IF Length(r) = MaxModelLen THEN <<>>
                                      ELSE requests[r].block_table]]
  BY Zenon DEF Postprocess
<1>. HIDE DEF sampled
<1>7. ASSUME NEW r \in Requests
      PROVE  requests'[r] \in RequestRecords /\ PagedContext(requests'[r]) /\ Waits(r)'
  <2>1. CASE r \notin Range(batch)
    <3>1. requests'[r] = requests[r] /\ Waits(r)
      BY <1>6, <2>1 DEF BatchInv
    <3>. QED
      BY <3>1 DEF BatchInv, Waits, Decodes
  <2>2. CASE r \in Range(batch)
    <3>1. PICK i \in 1 .. L : r = batch[i]
      BY <1>1, <2>2 DEF Range
    <3>2. BatchedRow(i) /\ requests[r] \in RequestRecords /\ PagedContext(requests[r])
      BY <1>1, <3>1 DEF BatchInv
    <3>a. requests[r].length < MaxModelLen
      BY <3>1, <3>2 DEF BatchedRow
    <3>b. requests[r].length \in 1 .. MaxModelLen - 1
      BY <3>2, <3>a, ConstantFacts DEF RequestRecords
    <3>3. PICK c \in Nat, n \in Nat, l \in 1 .. MaxModelLen - 1 :
              c = requests[r].num_cached_tokens /\ n = requests[r].num_new_tokens
              /\ l = requests[r].length
      BY <3>2, <3>b DEF RequestRecords
    <3>c. ContextEnd(requests[r]) = c + n /\ c + n \in Nat
      BY <3>3 DEF ContextEnd
    <3>d. ContextEnd(requests[r]) <= l
      BY <3>2, <3>3 DEF PagedContext
    <3>4. PICK e \in Nat : e = ContextEnd(requests[r]) /\ e <= l
      BY <3>c, <3>d, Zenon
    <3>5. PICK l1 \in 1 .. MaxModelLen :
              l1 = Length(r) /\ (e = l => l1 = l + 1) /\ (e # l => l1 = l)
      BY <1>5, <3>1, <3>3, <3>4, ConstantFacts
    <3>. HIDE DEF Length
    <3>6. PICK t : t = IF l1 = MaxModelLen THEN <<>> ELSE requests[r].block_table
      OBVIOUS
    <3>7. requests'[r] = [length |-> l1, num_cached_tokens |-> e,
                          num_new_tokens |-> 0, block_table |-> t]
      BY <1>6, <2>2, <3>4, <3>5, <3>6
    <3>8. t \in Seq(Pages)
      BY <3>2, <3>6 DEF RequestRecords
    <3>9. requests'[r] \in RequestRecords
      BY <3>7, <3>8 DEF RequestRecords
    <3>10. ContextEnd(requests'[r]) = e
      BY <3>7 DEF ContextEnd
    <3>11. PagedContext(requests'[r])
      <4>1. e <= l1
        BY <3>4, <3>5
      <4>2. l1 < MaxModelLen => Len(t) = CeilDiv(e, BlockSize)
        <5>1. l < MaxModelLen
          BY <3>3, ConstantFacts
        <5>2. Len(requests[r].block_table) = CeilDiv(e, BlockSize)
          BY <3>2, <3>3, <3>4, <5>1 DEF PagedContext
        <5>. QED
          BY <3>6, <5>2
      <4>. QED
        BY <3>7, <3>10, <4>1, <4>2 DEF PagedContext
    <3>12. l1 > PromptLen[r] => e = l1 - 1
      <4>1. CASE e = l
        BY <3>5, <4>1
      <4>2. CASE e # l
        <5>1. l1 = l /\ (l1 > PromptLen[r] <=> Decodes(r))
          BY <3>3, <3>5, <4>2 DEF Decodes
        <5>2. ~(i > num_prefill)
          BY <3>1, <3>2, <3>3, <3>4, <4>2 DEF BatchedRow
        <5>3. i <= num_prefill
          BY <1>1, <5>2 DEF BatchInv
        <5>. QED
          BY <3>1, <3>2, <5>1, <5>3 DEF BatchedRow
      <4>. QED
        BY <4>1, <4>2
    <3>13. Waits(r)'
      BY <3>7, <3>12 DEF Waits, Decodes
    <3>. QED
      BY <3>9, <3>11, <3>13
  <2>. QED
    BY <2>1, <2>2
<1>8. requests' \in [Requests -> RequestRecords]
  BY <1>6, <1>7
<1>9. /\ batch' \in Seq(Requests) /\ Len(batch') = 0 /\ IsInjective(batch')
      /\ num_prefill' \in 0 .. Len(batch')
  BY <1>2 DEF IsInjective
<1>. QED
  BY <1>7, <1>8, <1>9 DEF BatchInv

-----------------------------------------------------------------------------
(***************************************************************************)
(* What a run leaves where, from the preparation of its input to the        *)
(* sampling of its logits: the inductive invariant of the runner.           *)
(***************************************************************************)

GivenPrefills == IF engine.phase = "warmup" THEN Len(WarmupRows) ELSE num_prefill

HasRows ==
    /\ engine.phase \in {"warmup", "serving"}
    /\ engine.phase = "serving" => batch # <<>>

Running ==
    /\ HasRows
    /\ context.metadata = Metadata(Rows, GivenPrefills)
    /\ context.logits_rows = LogitsRows(Rows)

Planning ==
    /\ Running
    /\ DOMAIN context = {"metadata", "route", "logits_rows", "mode"}
    /\ DOMAIN step = {"pc", "input_ids", "positions"}

PlanMade ==
    /\ Planning
    /\ context.route = Route(context.metadata, SupportsUnifiedMixed(engine.config))

StepInv ==
    /\ step = Idle \/ step.pc \in {"prepared", "planned", "dispatched", "forwarded",
                                   "sampled", "capturing"}
    /\ step.pc # "capturing" => active_graph = None
    /\ step = Idle /\ engine.phase \in {"allocate", "capture", "serving", "broken"} =>
            context = EmptyContext
    /\ step.pc = "prepared" => Planning
    /\ step.pc \in {"planned", "dispatched"} => PlanMade
    /\ step.pc = "forwarded" => Running
    /\ step.pc = "sampled" =>
            HasRows /\ context = EmptyContext /\ step.logits_rows = LogitsRows(Rows)
    /\ step.pc = "capturing" =>
            engine.phase = "capture" /\ active_graph \in DOMAIN graph_states

(* Graph states exist for buckets only, and those of a serving engine are    *)
(* captured.                                                               *)
GraphInv ==
    /\ DOMAIN graph_states \subseteq Buckets
    /\ \A b \in DOMAIN graph_states :
        /\ "captured" \in DOMAIN graph_states[b]
        /\ engine.phase = "serving" => graph_states[b].captured = TRUE
    /\ DOMAIN kv_cache \in {{}, Slots}
    /\ started \in 0 .. MaxEngines

(* A replay that was decided for is counted as a hit before it is counted    *)
(* as a replay.                                                            *)
Pending == IF step.pc = "dispatched" /\ context.mode = "full_graph" THEN 1 ELSE 0
StatsInv ==
    /\ stats \in [replays : Nat, fallbacks : Nat, hits : Nat, misses : Nat, batches : Nat]
    /\ engine.phase = "serving" =>
        /\ stats.replays + Pending + stats.fallbacks =
                IF engine.config.policy = "none" THEN 0 ELSE stats.batches
        /\ stats.hits = stats.replays + Pending
        /\ stats.misses <= stats.fallbacks

RunnerInv == SessionInv /\ BatchInv /\ StepInv /\ GraphInv /\ StatsInv

-----------------------------------------------------------------------------
(* The progress of a run                                                   *)

(* Only an engine that warms up, captures or serves has anything under way.  *)
LEMMA NothingUnderWay ==
    ASSUME StepInv, engine.phase \notin {"warmup", "capture", "serving"}
    PROVE  step = Idle /\ active_graph = None
BY DEF StepInv, Planning, PlanMade, Running, HasRows, Idle

LEMMA StepEnds ==
    ASSUME step' = Idle, active_graph' = None,
           engine'.phase \in {"allocate", "capture", "serving", "broken"} =>
                context' = EmptyContext
    PROVE  StepInv'
BY DEF StepInv, Idle

(* The rows of a run stay what they are until it is over.                   *)
LEMMA RowsStay ==
    ASSUME UNCHANGED <<engine, batchVars>>
    PROVE  /\ Rows' = Rows /\ GivenPrefills' = GivenPrefills
           /\ HasRows' = HasRows
           /\ LogitsRows(Rows)' = LogitsRows(Rows)
           /\ Metadata(Rows, GivenPrefills)' = Metadata(Rows, GivenPrefills)
BY DEF Rows, GivenPrefills, HasRows, RowOf, batchVars

LEMMA RunStarts ==
    ASSUME HasRows, active_graph = None, StartRun(Rows, GivenPrefills)
    PROVE  StepInv'
<1>1. /\ step' = [pc |-> "prepared",
                  input_ids |-> step'.input_ids, positions |-> step'.positions]
      /\ context' = [metadata |-> Metadata(Rows, GivenPrefills), route |-> "none",
                     logits_rows |-> LogitsRows(Rows), mode |-> "eager"]
      /\ UNCHANGED <<engine, batchVars, active_graph>>
  BY DEF StartRun
<1>2. step'.pc = "prepared" /\ DOMAIN step' = {"pc", "input_ids", "positions"}
      /\ step' # Idle
  BY <1>1 DEF Idle
<1>3. /\ context'.metadata = Metadata(Rows, GivenPrefills)
      /\ context'.logits_rows = LogitsRows(Rows)
      /\ DOMAIN context' = {"metadata", "route", "logits_rows", "mode"}
  BY <1>1
<1>4. Planning'
  BY <1>1, <1>2, <1>3, RowsStay DEF Planning, Running
<1>. QED
  BY <1>1, <1>2, <1>4 DEF StepInv

LEMMA PlanIsMade ==
    ASSUME StepInv, BuildPlan
    PROVE  StepInv'
<1>1. Planning /\ active_graph = None /\ UNCHANGED <<engine, batchVars, active_graph>>
      /\ step' = [step EXCEPT !.pc = "planned"]
  BY DEF BuildPlan, StepInv
<1>2. context' = [context EXCEPT !.route =
                    Route(context.metadata, SupportsUnifiedMixed(engine.config))]
  BY DEF BuildPlan
<1>3. step'.pc = "planned" /\ DOMAIN step' = {"pc", "input_ids", "positions"}
      /\ step' # Idle
  BY <1>1 DEF Planning, Idle
<1>4. /\ context'.metadata = context.metadata
      /\ context'.logits_rows = context.logits_rows
      /\ context'.route = Route(context.metadata, SupportsUnifiedMixed(engine.config))
      /\ DOMAIN context' = {"metadata", "route", "logits_rows", "mode"}
  BY <1>1, <1>2 DEF Planning
<1>5. Planning'
  BY <1>1, <1>3, <1>4, RowsStay DEF Planning, Running
<1>6. PlanMade'
  BY <1>1, <1>4, <1>5 DEF PlanMade
<1>. QED
  BY <1>1, <1>3, <1>6 DEF StepInv

LEMMA ModeIsSelected ==
    ASSUME StepInv, SelectRuntimeMode
    PROVE  StepInv'
<1>1. PlanMade /\ active_graph = None /\ UNCHANGED <<engine, batchVars, active_graph>>
      /\ step' = [step EXCEPT !.pc = "dispatched"]
  BY DEF SelectRuntimeMode, StepInv
<1>2. PICK m : context' = [context EXCEPT !.mode = m]
  BY DEF SelectRuntimeMode
<1>3. step'.pc = "dispatched" /\ DOMAIN step' = {"pc", "input_ids", "positions"}
      /\ step' # Idle
  BY <1>1 DEF PlanMade, Planning, Idle
<1>4. /\ context'.metadata = context.metadata
      /\ context'.logits_rows = context.logits_rows
      /\ context'.route = context.route
      /\ DOMAIN context' = {"metadata", "route", "logits_rows", "mode"}
  BY <1>1, <1>2 DEF PlanMade, Planning
<1>5. Planning'
  BY <1>1, <1>3, <1>4, RowsStay DEF PlanMade, Planning, Running
<1>6. PlanMade'
  BY <1>1, <1>4, <1>5 DEF PlanMade
<1>. QED
  BY <1>1, <1>3, <1>6 DEF StepInv

LEMMA ForwardEnds ==
    ASSUME StepInv, step.pc = "dispatched", step'.pc = "forwarded", step' # Idle,
           UNCHANGED <<engine, batchVars, active_graph, context>>
    PROVE  StepInv'
<1>1. Running /\ active_graph = None
  BY DEF StepInv, PlanMade, Planning
<1>2. Running'
  BY <1>1, RowsStay DEF Running
<1>. QED
  BY <1>1, <1>2 DEF StepInv

LEMMA LogitsSampled ==
    ASSUME StepInv, Sample
    PROVE  StepInv'
<1>1. Running /\ active_graph = None /\ UNCHANGED <<engine, batchVars, active_graph>>
      /\ context' = EmptyContext
  BY DEF StepInv, Sample
<1>2. step'.pc = "sampled" /\ step'.logits_rows = context.logits_rows /\ step' # Idle
  BY DEF Sample, Idle
<1>. QED
  BY <1>1, <1>2, RowsStay DEF StepInv, Running

-----------------------------------------------------------------------------
(* The metadata and the dispatch of a run                                  *)

(* The input of a run is well formed: warmup rows have no pages, the rows of *)
(* a batch have those they need.                                           *)
LEMMA RunningRows ==
    ASSUME BatchInv, Running
    PROVE  /\ \E R : Rows \in Seq(R)
           /\ Len(Rows) # 0 /\ GoodRows(Rows, GivenPrefills)
<1>1. CASE engine.phase = "warmup"
  BY <1>1, RowsOfWarmup DEF Rows, GivenPrefills
<1>2. CASE engine.phase # "warmup"
  <2>1. batch # <<>> /\ batch \in Seq(Requests)
    BY <1>2 DEF Running, HasRows, BatchInv
  <2>2. Len(batch) # 0
    BY <2>1
  <2>. QED
    BY <1>2, <2>2, RowsOfBatch DEF GivenPrefills
<1>. QED
  BY <1>1, <1>2

LEMMA RunningAccepted ==
    ASSUME BatchInv, Running
    PROVE  Valid(context.metadata) /\ PageCountsMatch(context.metadata)
<1>1. PICK R : Rows \in Seq(R)
  BY RunningRows
<1>2. Len(Rows) # 0 /\ GoodRows(Rows, GivenPrefills)
  BY RunningRows
<1>. QED
  BY <1>1, <1>2, MetadataPasses DEF Running

(* A batch of decodes alone fits the graph of its size: its pages fit the    *)
(* page buffer, which was sized for rows of the largest length.             *)
LEMMA DecodeBatchFits ==
    ASSUME BatchInv, PlanMade, engine.phase = "serving", IsDecodeStep
    PROVE  MetadataFits(context.metadata.num_decode_seqs)
<1>1. /\ context.metadata = Metadata(Rows, num_prefill)
      /\ context.route = Route(context.metadata, SupportsUnifiedMixed(engine.config))
      /\ batch # <<>>
  BY DEF PlanMade, Planning, Running, HasRows, GivenPrefills
<1>2. num_prefill = 0 /\ BatchType(context.metadata) = "pure_decode"
  <2>1. context.metadata.num_prefill_seqs = num_prefill
    BY <1>1 DEF Metadata
  <2>2. context.metadata.num_prefill_seqs = 0 /\ BatchType(context.metadata) = "pure_decode"
    BY DEF IsDecodeStep
  <2>. QED
    BY <2>1, <2>2
<1>3. /\ Rows \in Seq(AnyRow) /\ Len(Rows) = Len(batch)
      /\ \A i \in 1 .. Len(batch) : Rows[i] = RowOf(batch[i])
      /\ GoodRows(Rows, 0) /\ IsPaged(Rows)
  BY <1>1, <1>2, RowsOfBatch
<1>4. Len(Rows) # 0
  <2>1. batch \in Seq(Requests) /\ batch # <<>>
    BY <1>1 DEF BatchInv
  <2>. QED
    BY <1>3, <2>1
<1>5. context.route = "decode"
  <2>1. context.metadata.paged
    BY <1>1, <1>3, MetadataFields
  <2>. QED
    BY <1>1, <1>2, <2>1 DEF Route
<1>6. ASSUME NEW i \in 1 .. Len(Rows)
      PROVE  Len(Rows[i].block_table) <= CeilDiv(MaxModelLen, BlockSize)
  <2>1. i \in 1 .. Len(batch) /\ Rows[i] = RowOf(batch[i])
    BY <1>3
  <2>2. Rows[i].block_table = requests[batch[i]].block_table
    BY <2>1 DEF RowOf
  <2>. QED
    BY <2>1, <2>2, PagesOfRow
<1>7. context.metadata = Metadata(Rows, 0)
  BY <1>1, <1>2
<1>8. MetadataFits(Len(Rows))
  BY <1>3, <1>4, <1>5, <1>6, <1>7, DecodeFits
<1>9. context.metadata.num_decode_seqs = Len(Rows)
  <2>1. context.metadata.num_decode_seqs = Len(Rows) - 0
    BY <1>7 DEF Metadata
  <2>2. Len(Rows) \in Nat
    BY <1>3
  <2>. QED
    BY <2>1, <2>2
<1>. QED
  BY <1>8, <1>9

LEMMA CountersFrame ==
    ASSUME StatsInv, UNCHANGED stats, Pending' = Pending,
           engine' = engine \/ engine'.phase # "serving"
    PROVE  StatsInv'
BY DEF StatsInv

LEMMA CountersReset ==
    ASSUME stats' = NoStats, Pending' = 0
    PROVE  StatsInv'
BY DEF StatsInv, NoStats

(* A graph that is found is captured and fits, so that a hit is a replay.    *)
LEMMA DispatchCounted ==
    ASSUME BatchInv, StepInv, GraphInv, StatsInv, SelectRuntimeMode
    PROVE  StatsInv'
<1> DEFINE b == context.metadata.num_decode_seqs
           graphs == engine.config.policy # "none"
           lookup == graphs /\ IsDecodeStep
           hit == lookup /\ b \in DOMAIN graph_states
           replay == hit /\ graph_states[b].captured /\ MetadataFits(b)
           Counted(x, condition) == IF condition THEN x + 1 ELSE x
<1>1. /\ context' = [context EXCEPT !.mode = IF replay THEN "full_graph" ELSE "eager"]
      /\ stats' = [stats EXCEPT !.hits = Counted(@, hit),
                                !.misses = Counted(@, lookup /\ ~hit),
                                !.fallbacks = Counted(@, graphs /\ ~replay),
                                !.batches = @ + 1]
      /\ step' = [step EXCEPT !.pc = "dispatched"]
      /\ engine' = engine /\ step.pc = "planned"
  BY DEF SelectRuntimeMode
<1>2. PlanMade
  BY <1>1 DEF StepInv
<1>3. engine.phase = "serving" => (hit <=> replay)
  BY <1>2, DecodeBatchFits DEF GraphInv
<1>4. hit => lookup /\ graphs
  OBVIOUS
<1>5. Pending = 0 /\ Pending' = IF replay THEN 1 ELSE 0
  <2>1. /\ DOMAIN context = {"metadata", "route", "logits_rows", "mode"}
        /\ DOMAIN step = {"pc", "input_ids", "positions"}
    BY <1>2 DEF PlanMade, Planning
  <2>. HIDE DEF replay
  <2>2. context'.mode = (IF replay THEN "full_graph" ELSE "eager")
        /\ step'.pc = "dispatched"
    BY <1>1, <2>1
  <2>. QED
    BY <1>1, <2>2 DEF Pending
<1>6. lookup => graphs
  OBVIOUS
<1>. HIDE DEF graphs, lookup, hit, replay
<1>7. PICK r \in Nat, f \in Nat, h \in Nat, m \in Nat, n \in Nat :
          stats = [replays |-> r, fallbacks |-> f, hits |-> h, misses |-> m, batches |-> n]
  BY DEF StatsInv
<1>8. stats' = [replays |-> r, fallbacks |-> Counted(f, graphs /\ ~replay),
                hits |-> Counted(h, hit), misses |-> Counted(m, lookup /\ ~hit),
                batches |-> n + 1]
  BY <1>1, <1>7
<1>9. stats' \in [replays : Nat, fallbacks : Nat, hits : Nat, misses : Nat, batches : Nat]
  BY <1>8
<1>10. ASSUME engine.phase = "serving"
       PROVE  /\ r + Pending' + Counted(f, graphs /\ ~replay) =
                        IF graphs THEN n + 1 ELSE 0
              /\ Counted(h, hit) = r + Pending'
              /\ Counted(m, lookup /\ ~hit) <= Counted(f, graphs /\ ~replay)
  <2>1. /\ r + f = IF graphs THEN n ELSE 0
        /\ h = r /\ m <= f
    BY <1>5, <1>7, <1>10 DEF StatsInv, graphs
  <2>2. CASE hit
    BY <1>3, <1>4, <1>5, <1>10, <2>1, <2>2
  <2>3. CASE ~hit
    BY <1>3, <1>5, <1>6, <1>10, <2>1, <2>3
  <2>. QED
    BY <2>2, <2>3
<1>11. /\ stats'.replays = r /\ stats'.fallbacks = Counted(f, graphs /\ ~replay)
       /\ stats'.hits = Counted(h, hit) /\ stats'.misses = Counted(m, lookup /\ ~hit)
       /\ stats'.batches = n + 1
  BY <1>8
<1>12. graphs <=> engine'.config.policy # "none"
  BY <1>1 DEF graphs
<1>. HIDE DEF Counted
<1>. QED
  BY <1>1, <1>9, <1>10, <1>11, <1>12 DEF StatsInv

LEMMA ReplayCounted ==
    ASSUME StatsInv, ReplayGraph
    PROVE  StatsInv'
<1>1. /\ stats' = [stats EXCEPT !.replays = @ + 1] /\ engine' = engine
      /\ Pending = 1 /\ Pending' = 0
  BY DEF ReplayGraph, Pending
<1>2. PICK r \in Nat, f \in Nat, h \in Nat, m \in Nat, n \in Nat :
          stats = [replays |-> r, fallbacks |-> f, hits |-> h, misses |-> m, batches |-> n]
  BY DEF StatsInv
<1>3. stats' = [replays |-> r + 1, fallbacks |-> f, hits |-> h, misses |-> m, batches |-> n]
  BY <1>1, <1>2
<1>. QED
  BY <1>1, <1>2, <1>3 DEF StatsInv

-----------------------------------------------------------------------------
(* The graph states                                                        *)

LEMMA LargestBatch == MaxDecodeBatch \in Nat \ {0}
<1>1. MaxNumSeqs \in Nat \ {0} /\ MaxNumBatchedTokens \in Nat \ {0}
  BY ModelRunnerAssumption
<1>. QED
  BY <1>1, MinOfTwo DEF MaxDecodeBatch

LEMMA BucketNumbers ==
    ASSUME NEW b \in Buckets
    PROVE  b \in 1 .. MaxDecodeBatch
BY LargestBatch, ModelRunnerAssumption DEF Buckets

(* Buckets are captured from the largest down: there is a largest one.      *)
LEMMA LargestUncaptured ==
    ASSUME GraphInv, Uncaptured # {}
    PROVE  Max(Uncaptured) \in DOMAIN graph_states
<1> DEFINE U == Uncaptured
           B == MaxDecodeBatch
           T == {n \in Nat : B - n \in U}
<1>1. U # {} /\ U \subseteq DOMAIN graph_states /\ \A b \in U : b \in 1 .. B
  BY BucketNumbers DEF Uncaptured, GraphInv
<1>2. B \in Nat
  BY LargestBatch
<1>. HIDE DEF U, B
<1>3. T # {}
  <2>1. PICK b \in U : b \in 1 .. B
    BY <1>1
  <2>2. B - b \in Nat /\ B - (B - b) = b
    BY <1>2, <2>1
  <2>. QED
    BY <2>1, <2>2
<1>4. PICK n \in T : \A m \in T : n <= m
  BY <1>3, Least
<1>5. B - n \in U /\ \A b \in U : b <= B - n
  <2>1. ASSUME NEW b \in U PROVE b <= B - n
    <3>1. b \in 1 .. B
      BY <1>1
    <3>2. B - b \in Nat /\ B - (B - b) = b
      BY <1>2, <3>1
    <3>3. n <= B - b
      BY <1>4, <3>2
    <3>. QED
      BY <1>2, <1>4, <3>1, <3>3
  <2>. QED
    BY <1>4, <2>1
<1>6. Max(U) \in U
  BY <1>5 DEF Max
<1>. QED
  BY <1>1, <1>6 DEF U

LEMMA StoreKeepsSlots ==
    ASSUME NEW cache, NEW ids, NEW positions, NEW slots
    PROVE  DOMAIN Store(cache, ids, positions, slots) = DOMAIN cache
BY DEF Store

LEMMA GraphsFrame ==
    ASSUME GraphInv, UNCHANGED <<graph_states, started>>,
           DOMAIN kv_cache' = DOMAIN kv_cache,
           engine'.phase = "serving" => engine.phase = "serving"
    PROVE  GraphInv'
BY DEF GraphInv, Buckets, MaxDecodeBatch

LEMMA GraphsDiscarded ==
    ASSUME GraphInv, graph_states' = NoGraphs, kv_cache' = <<>>, started' = started
    PROVE  GraphInv'
<1>1. DOMAIN graph_states' = {} /\ DOMAIN kv_cache' = {}
  BY DEF NoGraphs
<1>. QED
  BY <1>1 DEF GraphInv

LEMMA GraphsInitialized ==
    ASSUME GraphInv, InitializeGraphStates
    PROVE  GraphInv'
<1>1. /\ graph_states' = [b \in Buckets |-> NewGraphState]
      /\ engine' = engine /\ kv_cache' = kv_cache /\ started' = started
      /\ engine.phase = "allocate"
  BY DEF InitializeGraphStates
<1>2. "captured" \in DOMAIN NewGraphState
  BY DEF NewGraphState
<1>3. Buckets' = Buckets
  BY DEF Buckets, MaxDecodeBatch
<1>. QED
  BY <1>1, <1>2, <1>3 DEF GraphInv

LEMMA CacheAllocated ==
    ASSUME SessionInv, GraphInv, AllocateKvCache
    PROVE  GraphInv'
<1>1. /\ DOMAIN kv_cache' = Slots /\ graph_states' = graph_states /\ started' = started
      /\ graph_states # NoGraphs => engine'.phase # "serving"
      /\ graph_states = NoGraphs => DOMAIN graph_states = {}
  BY PhaseChange DEF AllocateKvCache, RunnerPhases, processVars, NoGraphs
<1>2. Slots' = Slots /\ Buckets' = Buckets
  BY DEF Slots, Buckets, MaxDecodeBatch
<1>. QED
  BY <1>1, <1>2 DEF GraphInv

LEMMA CaptureBegins ==
    ASSUME StepInv, GraphInv, BeginCapture
    PROVE  StepInv' /\ GraphInv'
<1>1. PICK b : b = Max(Uncaptured) /\ b \in DOMAIN graph_states
  BY LargestUncaptured DEF BeginCapture
<1>2. PICK k, i, p, s :
        graph_states' = [graph_states EXCEPT ![b] =
            [@ EXCEPT !.kernel = k, !.input_ids = i, !.positions = p, !.slot_mapping = s]]
  BY <1>1, Zenon DEF BeginCapture
<1>3. /\ active_graph' = b /\ step'.pc = "capturing" /\ step' # Idle
      /\ engine' = engine /\ engine.phase = "capture" /\ started' = started
  BY <1>1 DEF BeginCapture, Idle, processVars
<1>4. DOMAIN kv_cache' = DOMAIN kv_cache \/ DOMAIN kv_cache' = Slots
  BY DEF BeginCapture
<1>5. /\ DOMAIN graph_states' = DOMAIN graph_states
      /\ \A x \in DOMAIN graph_states : "captured" \in DOMAIN graph_states'[x]
  BY <1>2 DEF GraphInv
<1>6. StepInv'
  BY <1>1, <1>3, <1>5 DEF StepInv
<1>7. Slots' = Slots /\ Buckets' = Buckets
  BY DEF Slots, Buckets, MaxDecodeBatch
<1>. QED
  BY <1>3, <1>4, <1>5, <1>6, <1>7 DEF GraphInv

(* The last bucket to be captured makes the engine serve, with all of them.  *)
LEMMA CaptureEnds ==
    ASSUME SessionInv, StepInv, GraphInv, EndCapture
    PROVE  GraphInv'
<1>1. PICK b : b = active_graph /\ b \in DOMAIN graph_states
  BY DEF EndCapture, StepInv
<1>2. PICK h :
        graph_states' = [graph_states EXCEPT ![b] =
            [graph_states[b] EXCEPT !.captured = TRUE, !.hidden = h]]
  BY <1>1, Zenon DEF EndCapture
<1>3. engine.phase = "capture" /\ kv_cache' = kv_cache /\ started' = started
  BY DEF EndCapture, StepInv, processVars
<1>4. /\ DOMAIN graph_states' = DOMAIN graph_states
      /\ \A x \in DOMAIN graph_states : "captured" \in DOMAIN graph_states'[x]
      /\ graph_states'[b].captured = TRUE
      /\ \A x \in DOMAIN graph_states \ {b} : graph_states'[x] = graph_states[x]
  BY <1>1, <1>2 DEF GraphInv
<1>5. ASSUME engine'.phase = "serving", NEW x \in DOMAIN graph_states \ {b}
      PROVE  graph_states[x].captured = TRUE
  <2>1. Uncaptured = {b}
    BY <1>1, <1>3, <1>5 DEF EndCapture
  <2>. QED
    BY <2>1, <1>5 DEF Uncaptured, GraphInv
<1>6. Slots' = Slots /\ Buckets' = Buckets
  BY DEF Slots, Buckets, MaxDecodeBatch
<1>7. ASSUME NEW x \in DOMAIN graph_states, engine'.phase = "serving"
      PROVE  graph_states'[x].captured = TRUE
  BY <1>4, <1>5, <1>7
<1>. QED
  BY <1>3, <1>4, <1>6, <1>7 DEF GraphInv

LEMMA GraphReplayed ==
    ASSUME GraphInv, ReplayGraph
    PROVE  GraphInv'
<1>a. PICK b, g, h : /\ graph_states' = [graph_states EXCEPT ![b] = [g EXCEPT !.hidden = h]]
                     /\ g = Filled(graph_states[b])
  BY Zenon DEF ReplayGraph
<1>b. PICK k, i, p, s : g = [graph_states[b] EXCEPT !.kernel = k, !.input_ids = i, !.positions = p,
                                                    !.slot_mapping = s]
  BY <1>a, Zenon DEF Filled
<1>1. graph_states' = [graph_states EXCEPT ![b] =
            [[graph_states[b] EXCEPT !.kernel = k, !.input_ids = i, !.positions = p,
                                     !.slot_mapping = s] EXCEPT !.hidden = h]]
  BY <1>a, <1>b, Zenon
<1>2. engine' = engine /\ started' = started /\ DOMAIN kv_cache' = DOMAIN kv_cache
  BY StoreKeepsSlots DEF ReplayGraph, processVars
<1>3. DOMAIN graph_states' = DOMAIN graph_states
  BY <1>1
<1>4. ASSUME NEW x \in DOMAIN graph_states
      PROVE  /\ "captured" \in DOMAIN graph_states'[x]
             /\ graph_states'[x].captured = graph_states[x].captured
  BY <1>1, <1>4 DEF GraphInv
<1>5. Slots' = Slots /\ Buckets' = Buckets
  BY DEF Slots, Buckets, MaxDecodeBatch
<1>. QED
  BY <1>2, <1>3, <1>4, <1>5 DEF GraphInv

-----------------------------------------------------------------------------
(* The invariant is inductive                                              *)

LEMMA RunnerInit == Init => RunnerInv
<1> SUFFICES ASSUME Init PROVE RunnerInv
  OBVIOUS
<1>1. BatchInv
  BY FreshBatch DEF Init
<1>2. StepInv
  BY DEF Init, StepInv, Idle
<1>3. GraphInv
  <2>1. DOMAIN graph_states = {} /\ DOMAIN kv_cache = {} /\ started = 0
    BY DEF Init, NoGraphs
  <2>. QED
    BY <2>1, ModelRunnerAssumption DEF GraphInv
<1>4. StatsInv
  BY DEF Init, StatsInv, NoStats
<1>. QED
  BY <1>1, <1>2, <1>3, <1>4, SessionInit DEF RunnerInv

LEMMA BatchStep ==
    ASSUME RunnerInv, [Next]_vars
    PROVE  BatchInv'
<1>1. BatchInv
  BY DEF RunnerInv
<1>2. CASE UNCHANGED batchVars
  BY <1>1, <1>2, BatchFrame
<1>3. ASSUME NEW r \in Requests, NEW n \in 1 .. MaxNumBatchedTokens,
             NEW d \in Requests \cup {NoRequest}, AddRow(r, n, d)
      PROVE  BatchInv'
  BY <1>1, <1>3, BatchGrows
<1>4. CASE Postprocess
  <2>1. step.logits_rows = LogitsRows(Rows) /\ batch # <<>>
    BY <1>4 DEF Postprocess, RunnerInv, StepInv, HasRows
  <2>. QED
    BY <1>1, <1>4, <2>1, BatchProcessed
<1>5. CASE Exit \/ RunFails
  BY <1>5, BatchDiscarded DEF Exit, RunFails, Discard
<1>. QED
  BY <1>2, <1>3, <1>4, <1>5
  DEF Next, Construct, ConstructFails, Initialize, WarmupModel, WarmupEnd,
      InitializeGraphStates, AllocateKvCache, StartRun, Capture, BeginCapture,
      EndCapture, CaptureFails, Run, PrepareModelInput, BuildPlan, SelectRuntimeMode,
      RunEagerly, ReplayGraph, Sample, vars

LEMMA StageStep ==
    ASSUME RunnerInv, [Next]_vars
    PROVE  StepInv'
<1>1. StepInv /\ SessionInv /\ GraphInv
  BY DEF RunnerInv
<1>2. ASSUME NEW config \in Configs, Construct(config) \/ ConstructFails(config)
      PROVE  StepInv'
  <2>1. step = Idle /\ active_graph = None
    BY <1>1, <1>2, NothingUnderWay DEF Construct, ConstructFails
  <2>2. step' = Idle /\ active_graph' = None /\ engine'.phase \in {"warmup", "rejected"}
    BY <1>2, <2>1 DEF Construct, ConstructFails
  <2>. QED
    BY <2>2, StepEnds
<1>3. CASE WarmupModel
  <2>1. HasRows /\ active_graph = None
    BY <1>1, <1>3 DEF WarmupModel, HasRows, StepInv, Idle
  <2>2. StartRun(Rows, GivenPrefills)
    BY <1>3 DEF WarmupModel, Rows, GivenPrefills
  <2>. QED
    BY <2>1, <2>2, RunStarts
<1>4. CASE WarmupEnd
  BY <1>1, <1>4, StepEnds DEF WarmupEnd, StepInv
<1>5. CASE InitializeGraphStates \/ AllocateKvCache
  <2>1. engine.phase = "allocate"
    BY <1>5 DEF InitializeGraphStates, AllocateKvCache
  <2>2. step = Idle /\ active_graph = None /\ context = EmptyContext
    BY <1>1, <2>1, NothingUnderWay DEF StepInv
  <2>3. UNCHANGED <<step, active_graph, context>>
    BY <1>5 DEF InitializeGraphStates, AllocateKvCache
  <2>. QED
    BY <2>2, <2>3, StepEnds
<1>6. CASE BeginCapture
  BY <1>1, <1>6, CaptureBegins
<1>7. CASE EndCapture \/ CaptureFails
  BY <1>7, StepEnds DEF EndCapture, CaptureFails, Deactivated
<1>8. ASSUME NEW r \in Requests, NEW n \in 1 .. MaxNumBatchedTokens,
             NEW d \in Requests \cup {NoRequest}, AddRow(r, n, d)
      PROVE  StepInv'
  <2>1. step = Idle /\ UNCHANGED <<step, active_graph, context, engine>>
    BY <1>8 DEF AddRow, runnerVars
  <2>. QED
    BY <1>1, <2>1, StepEnds DEF StepInv, Idle
<1>9. CASE PrepareModelInput
  <2>1. HasRows /\ active_graph = None
    BY <1>1, <1>9 DEF PrepareModelInput, HasRows, StepInv, Idle
  <2>2. StartRun(Rows, GivenPrefills)
    BY <1>9 DEF PrepareModelInput, GivenPrefills
  <2>. QED
    BY <2>1, <2>2, RunStarts
<1>10. CASE BuildPlan
  BY <1>1, <1>10, PlanIsMade
<1>11. CASE SelectRuntimeMode
  BY <1>1, <1>11, ModeIsSelected
<1>12. CASE RunEagerly
  BY <1>1, <1>12, ForwardEnds DEF RunEagerly, Idle
<1>13. CASE ReplayGraph
  BY <1>1, <1>13, ForwardEnds DEF ReplayGraph, Idle
<1>14. CASE Sample
  BY <1>1, <1>14, LogitsSampled
<1>15. CASE RunFails \/ Exit
  <2>1. step' = Idle /\ active_graph' = None /\ engine'.phase = "absent"
    BY <1>15 DEF RunFails, Exit, Discard
  <2>. QED
    BY <2>1, StepEnds
<1>16. CASE Postprocess
  <2>1. step' = Idle /\ UNCHANGED <<active_graph, context>> /\ step.pc = "sampled"
    BY <1>16 DEF Postprocess
  <2>. QED
    BY <1>1, <2>1, StepEnds DEF StepInv
<1>17. CASE UNCHANGED vars
  <2>1. UNCHANGED <<engine, batchVars>> /\ UNCHANGED <<step, context, active_graph, graph_states>>
    BY <1>17 DEF vars, runnerVars
  <2>2. Running' = Running
    BY <2>1, RowsStay DEF Running
  <2>. QED
    BY <1>1, <2>1, <2>2, RowsStay DEF StepInv, Planning, PlanMade
<1>. QED
  BY <1>2, <1>3, <1>4, <1>5, <1>6, <1>7, <1>8, <1>9, <1>10, <1>11, <1>12, <1>13,
     <1>14, <1>15, <1>16, <1>17
  DEF Next, Initialize, Capture, Run

LEMMA GraphStep ==
    ASSUME RunnerInv, [Next]_vars
    PROVE  GraphInv'
<1>1. StepInv /\ SessionInv /\ GraphInv
  BY DEF RunnerInv
<1>2. ASSUME NEW config \in Configs, Construct(config) \/ ConstructFails(config)
      PROVE  GraphInv'
  <2>1. /\ UNCHANGED <<graph_states, kv_cache>> /\ started' \in 0 .. MaxEngines
        /\ engine'.phase # "serving"
    BY <1>1, <1>2, ModelRunnerAssumption DEF Construct, ConstructFails, GraphInv
  <2>2. Slots' = Slots /\ Buckets' = Buckets
    BY DEF Slots, Buckets, MaxDecodeBatch
  <2>. QED
    BY <1>1, <2>1, <2>2 DEF GraphInv
<1>3. CASE WarmupModel \/ PrepareModelInput
  BY <1>1, <1>3, GraphsFrame DEF WarmupModel, PrepareModelInput, StartRun, processVars
<1>4. CASE WarmupEnd
  <2>1. engine'.phase # "serving"
    BY <1>1, <1>4, PhaseChange DEF WarmupEnd, RunnerPhases
  <2>. QED
    BY <1>1, <1>4, <2>1, GraphsFrame DEF WarmupEnd, processVars
<1>5. CASE InitializeGraphStates
  BY <1>1, <1>5, GraphsInitialized
<1>6. CASE AllocateKvCache
  BY <1>1, <1>6, CacheAllocated
<1>7. CASE BeginCapture
  BY <1>1, <1>7, CaptureBegins
<1>8. CASE EndCapture
  BY <1>1, <1>8, CaptureEnds
<1>9. CASE CaptureFails
  <2>1. engine'.phase # "serving"
    BY <1>1, <1>9, PhaseChange DEF CaptureFails, RunnerPhases
  <2>. QED
    BY <1>1, <1>9, <2>1, GraphsFrame DEF CaptureFails, processVars
<1>10. ASSUME NEW r \in Requests, NEW n \in 1 .. MaxNumBatchedTokens,
              NEW d \in Requests \cup {NoRequest}, AddRow(r, n, d)
       PROVE  GraphInv'
  BY <1>1, <1>10, GraphsFrame DEF AddRow, processVars, runnerVars
<1>11. CASE BuildPlan \/ SelectRuntimeMode \/ Sample \/ Postprocess
  BY <1>1, <1>11, GraphsFrame DEF BuildPlan, SelectRuntimeMode, Sample, Postprocess,
                                  processVars
<1>12. CASE RunEagerly
  BY <1>1, <1>12, GraphsFrame, StoreKeepsSlots DEF RunEagerly, processVars
<1>13. CASE ReplayGraph
  BY <1>1, <1>13, GraphReplayed
<1>14. CASE RunFails \/ Exit
  BY <1>1, <1>14, GraphsDiscarded DEF RunFails, Exit, Discard
<1>15. CASE UNCHANGED vars
  BY <1>1, <1>15, GraphsFrame DEF vars, processVars, runnerVars
<1>. QED
  BY <1>2, <1>3, <1>4, <1>5, <1>6, <1>7, <1>8, <1>9, <1>10, <1>11, <1>12, <1>13,
     <1>14, <1>15
  DEF Next, Initialize, Capture, Run

LEMMA StatsStep ==
    ASSUME RunnerInv, [Next]_vars
    PROVE  StatsInv'
<1>1. StepInv /\ SessionInv /\ GraphInv /\ StatsInv /\ BatchInv
  BY DEF RunnerInv
<1>2. ASSUME NEW config \in Configs, Construct(config)
      PROVE  StatsInv'
  <2>1. engine'.phase # "serving" /\ stats' = NoStats
    BY <1>2 DEF Construct
  <2>. QED
    BY <2>1 DEF StatsInv, NoStats
<1>3. ASSUME NEW config \in Configs, ConstructFails(config)
      PROVE  StatsInv'
  <2>1. engine'.phase # "serving" /\ stats' = stats
    BY <1>3 DEF ConstructFails
  <2>. QED
    BY <1>1, <2>1 DEF StatsInv
<1>4. CASE WarmupModel \/ PrepareModelInput
  <2>1. step = Idle /\ step'.pc = "prepared" /\ engine' = engine /\ stats' = stats
    BY <1>4 DEF WarmupModel, PrepareModelInput, StartRun
  <2>2. Pending = 0 /\ Pending' = 0
    BY <2>1 DEF Pending, Idle
  <2>. QED
    BY <1>1, <2>1, <2>2, CountersFrame
<1>5. CASE WarmupEnd \/ CaptureFails
  <2>1. engine'.phase # "serving" /\ stats' = stats
    BY <1>1, <1>5, PhaseChange DEF WarmupEnd, CaptureFails, RunnerPhases
  <2>. QED
    BY <1>1, <2>1 DEF StatsInv
<1>6. CASE InitializeGraphStates \/ BeginCapture
  <2>1. engine.phase # "serving" /\ engine' = engine /\ stats' = stats
    BY <1>6 DEF InitializeGraphStates, BeginCapture
  <2>. QED
    BY <1>1, <2>1 DEF StatsInv
<1>7. CASE AllocateKvCache
  <2>1. step' = Idle
    BY <1>1, <1>7, NothingUnderWay DEF AllocateKvCache
  <2>2. Pending' = 0
    BY <2>1 DEF Pending, Idle
  <2>3. CASE graph_states = NoGraphs
    BY <1>7, <2>2, <2>3, CountersReset DEF AllocateKvCache
  <2>4. CASE graph_states # NoGraphs
    <3>1. engine'.phase # "serving" /\ stats' = stats
      BY <1>1, <1>7, <2>4, PhaseChange DEF AllocateKvCache, RunnerPhases
    <3>. QED
      BY <1>1, <3>1 DEF StatsInv
  <2>. QED
    BY <2>3, <2>4
<1>8. CASE EndCapture
  <2>1. step' = Idle /\ engine.phase = "capture"
    BY <1>1, <1>8 DEF EndCapture, StepInv
  <2>2. Pending' = 0
    BY <2>1 DEF Pending, Idle
  <2>3. CASE Uncaptured = {active_graph}
    BY <1>8, <2>2, <2>3, CountersReset DEF EndCapture
  <2>4. CASE Uncaptured # {active_graph}
    <3>1. engine'.phase # "serving" /\ stats' = stats
      BY <1>8, <2>1, <2>4 DEF EndCapture
    <3>. QED
      BY <1>1, <3>1 DEF StatsInv
  <2>. QED
    BY <2>3, <2>4
<1>9. ASSUME NEW r \in Requests, NEW n \in 1 .. MaxNumBatchedTokens,
             NEW d \in Requests \cup {NoRequest}, AddRow(r, n, d)
      PROVE  StatsInv'
  <2>1. UNCHANGED <<step, context, engine, stats>>
    BY <1>9 DEF AddRow, runnerVars
  <2>. QED
    BY <1>1, <2>1, CountersFrame DEF Pending
<1>10. CASE BuildPlan
  <2>1. /\ step.pc = "prepared" /\ step' = [step EXCEPT !.pc = "planned"]
        /\ engine' = engine /\ stats' = stats
    BY <1>10 DEF BuildPlan
  <2>2. DOMAIN step = {"pc", "input_ids", "positions"}
    BY <1>1, <2>1 DEF StepInv, Planning
  <2>3. Pending = 0 /\ Pending' = 0
    BY <2>1, <2>2 DEF Pending
  <2>. QED
    BY <1>1, <2>1, <2>3, CountersFrame
<1>11. CASE SelectRuntimeMode
  BY <1>1, <1>11, DispatchCounted
<1>12. CASE RunEagerly
  <2>1. /\ context.mode = "eager" /\ step'.pc = "forwarded"
        /\ engine' = engine /\ stats' = stats
    BY <1>12 DEF RunEagerly
  <2>2. Pending = 0 /\ Pending' = 0
    BY <2>1 DEF Pending
  <2>. QED
    BY <1>1, <2>1, <2>2, CountersFrame
<1>13. CASE ReplayGraph
  BY <1>1, <1>13, ReplayCounted
<1>14. CASE Sample
  <2>1. /\ step.pc = "forwarded" /\ step'.pc = "sampled"
        /\ engine' = engine /\ stats' = stats
    BY <1>14 DEF Sample
  <2>2. Pending = 0 /\ Pending' = 0
    BY <2>1 DEF Pending
  <2>. QED
    BY <1>1, <2>1, <2>2, CountersFrame
<1>15. CASE RunFails \/ Exit
  <2>1. engine'.phase # "serving" /\ stats' = NoStats
    BY <1>15 DEF RunFails, Exit, Discard
  <2>. QED
    BY <2>1 DEF StatsInv, NoStats
<1>16. CASE Postprocess
  <2>1. step.pc = "sampled" /\ step'.pc = "idle" /\ engine' = engine /\ stats' = stats
    BY <1>16 DEF Postprocess, Idle
  <2>2. Pending = 0 /\ Pending' = 0
    BY <2>1 DEF Pending
  <2>. QED
    BY <1>1, <2>1, <2>2, CountersFrame
<1>17. CASE UNCHANGED vars
  BY <1>1, <1>17, CountersFrame DEF vars, runnerVars, Pending
<1>. QED
  BY <1>2, <1>3, <1>4, <1>5, <1>6, <1>7, <1>8, <1>9, <1>10, <1>11, <1>12, <1>13,
     <1>14, <1>15, <1>16, <1>17
  DEF Next, Initialize, Capture, Run

LEMMA RunnerStep == RunnerInv /\ [Next]_vars => RunnerInv'
BY SessionStep, BatchStep, StageStep, GraphStep, StatsStep, Zenon DEF RunnerInv

LEMMA RunnerInvariant == Spec => []RunnerInv
BY RunnerInit, RunnerStep, PTL DEF Spec

(* The variables stay in their domains, for every batch the scheduler may    *)
(* form and every configuration.                                           *)
THEOREM RunnerTypeCorrect == Spec => []RunnerTypeOK
<1>1. RunnerInv => RunnerTypeOK
  <2> SUFFICES ASSUME RunnerInv PROVE RunnerTypeOK
    OBVIOUS
  <2>1. attempted \in BOOLEAN /\ engine.phase \in RunnerPhases /\ sessions \in Nat
    BY DEF RunnerInv, SessionInv, Engines
  <2>2. DOMAIN graph_states \subseteq 1 .. MaxDecodeBatch
    BY BucketNumbers DEF RunnerInv, GraphInv
  <2>3. active_graph \in DOMAIN graph_states \cup {None}
    BY DEF RunnerInv, StepInv
  <2>4. DOMAIN kv_cache \in {{}, Slots} /\ started \in 0 .. MaxEngines
    BY DEF RunnerInv, GraphInv
  <2>5. \A w \in DOMAIN stats : stats[w] \in Nat
    BY DEF RunnerInv, StatsInv
  <2>6. Range(batch) \subseteq Requests /\ num_prefill \in 0 .. Len(batch)
    BY DEF RunnerInv, BatchInv, Range
  <2>7. ASSUME NEW r \in Requests
        PROVE  /\ requests[r].length \in 1 .. MaxModelLen
               /\ ContextEnd(requests[r]) <= requests[r].length
               /\ requests[r].block_table \in Seq(Pages)
    BY DEF RunnerInv, BatchInv, RequestRecords, PagedContext
  <2>. QED
    BY <2>1, <2>2, <2>3, <2>4, <2>5, <2>6, <2>7 DEF RunnerTypeOK
<1>. QED
  BY <1>1, RunnerInvariant, PTL

(* The metadata of every batch passes its validation: its offsets, slots and *)
(* pages agree with the tokens of the rows.                                *)
THEOREM MetadataNeverRejected == Spec => []MetadataAccepted
<1>1. RunnerInv => MetadataAccepted
  BY RunningAccepted DEF RunnerInv, StepInv, Planning, MetadataAccepted
<1>. QED
  BY <1>1, RunnerInvariant, PTL

(* No run and no capture, finished or failed, leaves a context or an active  *)
(* graph state to the next.                                                *)
THEOREM NothingLeftBehind == Spec => []QuietWhenIdle
<1>1. RunnerInv => QuietWhenIdle
  BY DEF RunnerInv, StepInv, QuietWhenIdle, Idle
<1>. QED
  BY <1>1, RunnerInvariant, PTL

(* Every batch is counted once, and one for whose size a graph was captured  *)
(* is replayed.                                                            *)
THEOREM BatchesAccounted == Spec => []CountersAccountForBatches
<1>1. RunnerInv => CountersAccountForBatches
  <2> SUFFICES ASSUME RunnerInv, engine.phase = "serving", step = Idle
               PROVE  /\ stats.replays + stats.fallbacks =
                            IF engine.config.policy = "none" THEN 0 ELSE stats.batches
                      /\ stats.hits = stats.replays
                      /\ stats.misses <= stats.fallbacks
    BY DEF CountersAccountForBatches
  <2>1. Pending = 0
    BY DEF Pending, Idle
  <2>2. PICK r \in Nat : r = stats.replays
    BY DEF RunnerInv, StatsInv
  <2>3. r + 0 = r
    OBVIOUS
  <2>. QED
    BY <2>1, <2>2, <2>3 DEF RunnerInv, StatsInv
<1>. QED
  BY <1>1, RunnerInvariant, PTL

-----------------------------------------------------------------------------

(* Packed sequences: where FlattenSeq puts what.                            *)

(* A sequence of L sequences.                                               *)
Packs(seqs, L) ==
    /\ seqs = [i \in 1 .. L |-> seqs[i]]
    /\ \A i \in 1 .. L : \E n \in Nat : seqs[i] = [j \in 1 .. n |-> seqs[i][j]]

(* What is known of each of the sequences of a packing.                     *)
LEMMA PacksTyped ==
    ASSUME NEW seqs, NEW L \in Nat, Packs(seqs, L)
    PROVE  /\ Len(seqs) = L
           /\ \E S : seqs \in Seq(Seq(S))
           /\ \A i \in 1 .. L : /\ Len(seqs[i]) \in Nat /\ DOMAIN seqs[i] = 1 .. Len(seqs[i])
                                /\ seqs[i] = [j \in 1 .. Len(seqs[i]) |-> seqs[i][j]]
<1> DEFINE S == {seqs[u[1]][u[2]] : u \in (1 .. L) \X Nat}
<1>1. ASSUME NEW i \in 1 .. L
      PROVE  /\ seqs[i] \in Seq(S) /\ Len(seqs[i]) \in Nat /\ DOMAIN seqs[i] = 1 .. Len(seqs[i])
             /\ seqs[i] = [j \in 1 .. Len(seqs[i]) |-> seqs[i][j]]
  <2>1. PICK n \in Nat : seqs[i] = [j \in 1 .. n |-> seqs[i][j]]
    BY DEF Packs
  <2>2. ASSUME NEW j \in 1 .. n PROVE seqs[i][j] \in S
    <3>1. <<i, j>> \in (1 .. L) \X Nat
      OBVIOUS
    <3> QED  BY <3>1
  <2> HIDE DEF S
  <2>3. seqs[i] \in [1 .. n -> S]
    <3>1. [j \in 1 .. n |-> seqs[i][j]] \in [1 .. n -> S]
      BY <2>2
    <3> QED  BY <2>1, <3>1
  <2>4. seqs[i] \in Seq(S) /\ Len(seqs[i]) = n
    BY <2>3, SequenceOf
  <2> QED  BY <2>1, <2>3, <2>4
<1> HIDE DEF S
<1>2. seqs \in [1 .. L -> Seq(S)]
  <2>1. [i \in 1 .. L |-> seqs[i]] \in [1 .. L -> Seq(S)]
    BY <1>1
  <2>2. seqs = [i \in 1 .. L |-> seqs[i]]
    BY DEF Packs
  <2> QED  BY <2>1, <2>2
<1>3. seqs \in Seq(Seq(S)) /\ Len(seqs) = L
  BY <1>2, SequenceOf
<1> QED  BY <1>1, <1>3

(* Where FlattenSeq puts the elements, and that it puts nothing else.        *)
LEMMA PackedAt ==
    ASSUME NEW seqs, NEW L \in Nat, Packs(seqs, L)
    PROVE  /\ LengthsOf(seqs) \in Seq(Nat) /\ Len(LengthsOf(seqs)) = L
           /\ \A i \in 1 .. L : LengthsOf(seqs)[i] = Len(seqs[i])
           /\ Len(FlattenSeq(seqs)) \in Nat
           /\ Len(FlattenSeq(seqs)) = Offsets(LengthsOf(seqs))[L + 1]
           /\ FlattenSeq(seqs) = [t \in 1 .. Len(FlattenSeq(seqs)) |-> FlattenSeq(seqs)[t]]
           /\ \A i \in 1 .. L : \A j \in 1 .. Len(seqs[i]) :
                Offsets(LengthsOf(seqs))[i] + j \in 1 .. Len(FlattenSeq(seqs))
           /\ \A i \in 1 .. L : \A j \in 1 .. Len(seqs[i]) :
                FlattenSeq(seqs)[Offsets(LengthsOf(seqs))[i] + j] = seqs[i][j]
           /\ \A t \in 1 .. Len(FlattenSeq(seqs)) :
                \E i \in 1 .. L : \E j \in 1 .. Len(seqs[i]) :
                    t = Offsets(LengthsOf(seqs))[i] + j
<1> DEFINE O == Offsets(LengthsOf(seqs))
<1>1. PICK S : seqs \in Seq(Seq(S))
  BY PacksTyped
<1>2. /\ Len(seqs) = L
      /\ \A i \in 1 .. L : Len(seqs[i]) \in Nat
  BY PacksTyped
<1>3. /\ FlattenSeq(seqs) \in Seq(S)
      /\ LengthsOf(seqs) \in Seq(Nat) /\ Len(LengthsOf(seqs)) = L
      /\ Len(FlattenSeq(seqs)) = O[L + 1]
      /\ \A i \in 1 .. L : \A j \in 1 .. Len(seqs[i]) :
            /\ O[i] + j \in 1 .. Len(FlattenSeq(seqs))
            /\ FlattenSeq(seqs)[O[i] + j] = seqs[i][j]
  BY <1>1, <1>2, FlattenFacts
<1>4. \A i \in 1 .. L : LengthsOf(seqs)[i] = Len(seqs[i])
  BY <1>2 DEF LengthsOf
<1>5. /\ O \in [1 .. L + 1 -> Nat] /\ O[1] = 0
      /\ \A i \in 1 .. L : O[i + 1] = O[i] + Len(seqs[i])
  <2> DEFINE counts == LengthsOf(seqs)
  <2>1. counts \in Seq(Nat) /\ Len(counts) = L
    BY <1>3
  <2>2. \A i \in 1 .. L : counts[i] = Len(seqs[i])
    BY <1>4
  <2> HIDE DEF counts
  <2>3. /\ Offsets(counts) \in [1 .. L + 1 -> Nat] /\ Offsets(counts)[1] = 0
        /\ \A i \in 1 .. L : Offsets(counts)[i + 1] = Offsets(counts)[i] + counts[i]
    BY <2>1, OffsetsFacts
  <2>4. \A i \in 1 .. L : Offsets(counts)[i + 1] = Offsets(counts)[i] + Len(seqs[i])
    BY <2>2, <2>3
  <2> QED  BY <2>3, <2>4 DEF counts
<1> HIDE DEF O
<1>6. \A n \in 0 .. L : \A t \in 1 .. O[n + 1] :
            \E i \in 1 .. L : \E j \in 1 .. Len(seqs[i]) : t = O[i] + j
  <2> DEFINE G == {n \in 0 .. L : \A t \in 1 .. O[n + 1] :
                        \E i \in 1 .. L : \E j \in 1 .. Len(seqs[i]) : t = O[i] + j}
  <2>1. 0 \in G
    BY <1>5
  <2>2. ASSUME NEW n \in 1 .. L, n - 1 \in G PROVE n \in G
    <3> SUFFICES ASSUME NEW t \in 1 .. O[n + 1]
                 PROVE  \E i \in 1 .. L : \E j \in 1 .. Len(seqs[i]) : t = O[i] + j
      OBVIOUS
    <3>1. O[n] \in Nat /\ O[n + 1] = O[n] + Len(seqs[n]) /\ Len(seqs[n]) \in Nat
      BY <1>2, <1>5
    <3>2. CASE t <= O[n]
      <4>1. \A u \in 1 .. O[(n - 1) + 1] : \E i \in 1 .. L : \E j \in 1 .. Len(seqs[i]) : u = O[i] + j
        BY <2>2
      <4>2. (n - 1) + 1 = n
        OBVIOUS
      <4> QED  BY <3>1, <3>2, <4>1, <4>2
    <3>3. CASE t > O[n]
      <4>1. t - O[n] \in 1 .. Len(seqs[n]) /\ t = O[n] + (t - O[n])
        BY <3>1, <3>3
      <4> QED  BY <4>1
    <3> QED  BY <3>1, <3>2, <3>3
  <2> HIDE DEF G
  <2>3. \A n \in 0 .. L : n \in G
    BY <2>1, <2>2, Ascent
  <2> QED  BY <2>3 DEF G
<1>7. Len(FlattenSeq(seqs)) \in Nat
      /\ FlattenSeq(seqs) = [t \in 1 .. Len(FlattenSeq(seqs)) |-> FlattenSeq(seqs)[t]]
  BY <1>3
<1>8. \A t \in 1 .. Len(FlattenSeq(seqs)) :
            \E i \in 1 .. L : \E j \in 1 .. Len(seqs[i]) : t = O[i] + j
  <2>1. L \in 0 .. L
    OBVIOUS
  <2>2. \A t \in 1 .. O[L + 1] : \E i \in 1 .. L : \E j \in 1 .. Len(seqs[i]) : t = O[i] + j
    BY <1>6, <2>1, Zenon
  <2>3. O[L + 1] = Len(FlattenSeq(seqs))
    BY <1>3 DEF O
  <2> QED  BY <2>2, <2>3, Zenon
<1> QED  BY <1>3, <1>4, <1>7, <1>8 DEF O

(* s has the elements of the sequences where FlattenSeq has them.           *)
Places(seqs, L, s) ==
    \A i \in 1 .. L : \A j \in 1 .. Len(seqs[i]) :
        s[Offsets(LengthsOf(seqs))[i] + j] = seqs[i][j]

(* FlattenSeq puts every element at its place ...                           *)
LEMMA FlattenPlaces ==
    ASSUME NEW seqs, NEW L \in Nat, Packs(seqs, L)
    PROVE  Places(seqs, L, FlattenSeq(seqs))
<1>1. \A i \in 1 .. L : \A j \in 1 .. Len(seqs[i]) :
            FlattenSeq(seqs)[Offsets(LengthsOf(seqs))[i] + j] = seqs[i][j]
  BY PackedAt
<1> QED  BY <1>1 DEF Places

(* ... and is the only sequence of its length that does.                    *)
LEMMA FlattenUnique ==
    ASSUME NEW seqs, NEW L \in Nat, Packs(seqs, L), NEW s, NEW N \in Nat,
           s = [t \in 1 .. N |-> s[t]], N = Offsets(LengthsOf(seqs))[L + 1],
           Places(seqs, L, s)
    PROVE  s = FlattenSeq(seqs)
<1> DEFINE O == Offsets(LengthsOf(seqs))
           f == FlattenSeq(seqs)
<1>1. /\ f = [t \in 1 .. N |-> f[t]]
      /\ \A i \in 1 .. L : \A j \in 1 .. Len(seqs[i]) : f[O[i] + j] = seqs[i][j]
      /\ \A t \in 1 .. N : \E i \in 1 .. L : \E j \in 1 .. Len(seqs[i]) : t = O[i] + j
  <2>1. Len(f) = N
    BY PackedAt, Zenon
  <2>2. f = [t \in 1 .. Len(f) |-> f[t]]
    BY PackedAt, Zenon
  <2>3. \A i \in 1 .. L : \A j \in 1 .. Len(seqs[i]) : f[O[i] + j] = seqs[i][j]
    BY FlattenPlaces DEF Places
  <2>4. \A t \in 1 .. Len(f) : \E i \in 1 .. L : \E j \in 1 .. Len(seqs[i]) : t = O[i] + j
    BY PackedAt, Zenon
  <2> QED  BY <2>1, <2>2, <2>3, <2>4, Zenon
<1> HIDE DEF O, f
<1>2. \A t \in 1 .. N : s[t] = f[t]
  <2> TAKE t \in 1 .. N
  <2>1. PICK i \in 1 .. L : \E j \in 1 .. Len(seqs[i]) : t = O[i] + j
    BY <1>1
  <2>2. PICK j \in 1 .. Len(seqs[i]) : t = O[i] + j
    BY <2>1
  <2>3. s[O[i] + j] = seqs[i][j]
    BY Zenon DEF O, Places
  <2>4. f[O[i] + j] = seqs[i][j]
    BY <1>1
  <2> QED  BY <2>2, <2>3, <2>4
<1>3. s = [t \in 1 .. N |-> s[t]]
  OBVIOUS
<1> QED  BY <1>1, <1>2, <1>3 DEF f

-----------------------------------------------------------------------------

(* Attention through pages: what a kernel computes that knows the rows.     *)

(* The queries of a batch, row by row, put together.                        *)
LEMMA HiddenOfRows ==
    ASSUME NEW L \in Nat, NEW ids, NEW positions, NEW seen, NEW ref,
           Packs(ids, L), Packs(positions, L), Packs(seen, L), Packs(ref, L),
           \A i \in 1 .. L : /\ Len(ids[i]) = Len(ref[i]) /\ Len(positions[i]) = Len(ref[i])
                             /\ Len(seen[i]) = Len(ref[i]),
           \A i \in 1 .. L : \A j \in 1 .. Len(ref[i]) :
                ref[i][j] = [id |-> ids[i][j], position |-> positions[i][j], seen |-> seen[i][j]]
    PROVE  Hidden(FlattenSeq(ids), FlattenSeq(positions), FlattenSeq(seen)) = FlattenSeq(ref)
<1> DEFINE counts == LengthsOf(ref)
           N == Len(FlattenSeq(ref))
           h == Hidden(FlattenSeq(ids), FlattenSeq(positions), FlattenSeq(seen))
<1>1. Len(ids) = L /\ Len(positions) = L /\ Len(seen) = L /\ Len(ref) = L
  BY PacksTyped
<1>2. LengthsOf(ids) = counts /\ LengthsOf(positions) = counts /\ LengthsOf(seen) = counts
  BY <1>1 DEF LengthsOf
<1>3. N \in Nat /\ N = Offsets(counts)[L + 1]
  BY PackedAt
<1>4. Len(FlattenSeq(ids)) = Offsets(counts)[L + 1]
  <2>1. Len(FlattenSeq(ids)) = Offsets(LengthsOf(ids))[L + 1]
    BY PackedAt, Zenon
  <2> QED  BY <1>2, <2>1, Zenon
<1>5. DOMAIN FlattenSeq(ids) = 1 .. N
  <2>1. FlattenSeq(ids) = [t \in 1 .. Len(FlattenSeq(ids)) |-> FlattenSeq(ids)[t]]
    BY PackedAt, Zenon
  <2> QED  BY <1>3, <1>4, <2>1
<1>6. h = [t \in 1 .. N |-> h[t]]
  BY <1>5 DEF Hidden
<1>7. ASSUME NEW i \in 1 .. L, NEW j \in 1 .. Len(ref[i])
      PROVE  h[Offsets(counts)[i] + j] = ref[i][j]
  <2> DEFINE t == Offsets(counts)[i] + j
  <2>1. t \in 1 .. N
    BY PackedAt
  <2>a. j \in 1 .. Len(ids[i]) /\ j \in 1 .. Len(positions[i]) /\ j \in 1 .. Len(seen[i])
    OBVIOUS
  <2>c. /\ Places(ids, L, FlattenSeq(ids)) /\ Places(positions, L, FlattenSeq(positions))
        /\ Places(seen, L, FlattenSeq(seen))
    BY FlattenPlaces, Zenon
  <2>2. FlattenSeq(ids)[Offsets(LengthsOf(ids))[i] + j] = ids[i][j]
    BY <2>a, <2>c DEF Places
  <2>3. FlattenSeq(positions)[Offsets(LengthsOf(positions))[i] + j] = positions[i][j]
    BY <2>a, <2>c DEF Places
  <2>4. FlattenSeq(seen)[Offsets(LengthsOf(seen))[i] + j] = seen[i][j]
    BY <2>a, <2>c DEF Places
  <2>b. /\ FlattenSeq(ids)[t] = ids[i][j] /\ FlattenSeq(positions)[t] = positions[i][j]
        /\ FlattenSeq(seen)[t] = seen[i][j]
    BY <1>2, <2>2, <2>3, <2>4
  <2> HIDE DEF t
  <2>5. h[t] = [id |-> FlattenSeq(ids)[t], position |-> FlattenSeq(positions)[t],
                seen |-> FlattenSeq(seen)[t]]
    BY <1>5, <2>1 DEF Hidden
  <2>6. h[t] = ref[i][j]
    BY <2>b, <2>5
  <2> QED  BY <2>6 DEF t
<1> HIDE DEF h
<1>8. h = FlattenSeq(ref)
  <2>1. Places(ref, L, h)
    BY <1>7 DEF Places
  <2> QED  BY <1>3, <1>6, <2>1, FlattenUnique, Zenon
<1> QED  BY <1>8 DEF h

(* What the queries of a row see of a cache, through the pages of the row.   *)
CachedKey(cache, row, x) ==
    cache[(row.block_table[((x - 1) \div BlockSize) + 1] * BlockSize) + ((x - 1) % BlockSize)]
SeenOf(cache, row) ==
    [j \in 1 .. row.num_new_tokens |->
        [x \in 1 .. row.num_cached_tokens + j |-> CachedKey(cache, row, x)]]
SeenOfRows(cache, rows) == [i \in 1 .. Len(rows) |-> SeenOf(cache, rows[i])]

(* A kernel that knows the queries, the keys and the pages of the rows.      *)
Describes(kernel, rows) ==
    /\ DOMAIN kernel.kv_lens = 1 .. Len(rows)
    /\ \A i \in 1 .. Len(rows) :
        /\ kernel.q_indptr[i + 1] - kernel.q_indptr[i] = rows[i].num_new_tokens
        /\ kernel.kv_lens[i] = ContextEnd(rows[i])
        /\ kernel.kv_indptr[i] \in Nat
        /\ \A y \in 1 .. Len(rows[i].block_table) :
                kernel.indices[kernel.kv_indptr[i] + y] = rows[i].block_table[y]

PagedRow(row) == GoodRow(row) /\ row.block_table # <<>>

(* The page of a token of a row is in its table.                            *)
LEMMA PageInTable ==
    ASSUME NEW row, PagedRow(row), NEW p \in 0 .. ContextEnd(row) - 1
    PROVE  /\ p \div BlockSize \in Nat /\ p % BlockSize \in 0 .. BlockSize - 1
           /\ (p \div BlockSize) + 1 \in 1 .. Len(row.block_table)
           /\ DOMAIN row.block_table = 1 .. Len(row.block_table)
           /\ row.block_table[(p \div BlockSize) + 1] \in Nat
<1>1. BlockSize \in Nat \ {0} /\ ContextEnd(row) \in Nat /\ row.block_table \in Seq(Nat)
      /\ Len(row.block_table) = CeilDiv(ContextEnd(row), BlockSize)
  BY BlockSizeAssumption DEF PagedRow, GoodRow, ContextEnd
<1> DEFINE a == p \div BlockSize
           n == CeilDiv(ContextEnd(row), BlockSize)
<1>2. /\ p \in Nat /\ p < ContextEnd(row) /\ a \in Nat
      /\ p % BlockSize \in 0 .. BlockSize - 1
      /\ p = a * BlockSize + (p % BlockSize)
  <2>1. p \in Nat /\ p < ContextEnd(row)
    BY <1>1
  <2> QED  BY <1>1, <2>1, QuotientFacts
<1>3. n \in Nat /\ ContextEnd(row) <= n * BlockSize
  BY <1>1, PagesNeeded
<1>4. a < n
  <2> HIDE DEF a, n
  <2> SUFFICES ASSUME n <= a PROVE FALSE
    BY <1>2, <1>3
  <2>1. n * BlockSize <= a * BlockSize
    BY <1>1, <1>2, <1>3, ProductFacts
  <2>2. PICK N \in Nat, A \in Nat : N = n * BlockSize /\ A = a * BlockSize
    BY <1>1, <1>2, <1>3, ProductFacts
  <2>3. p = A + (p % BlockSize) /\ p % BlockSize \in Nat
    BY <1>1, <1>2, <2>2
  <2>4. A <= p
    BY <2>3
  <2>5. N <= A /\ ContextEnd(row) <= N
    BY <1>3, <2>1, <2>2
  <2> QED  BY <1>1, <1>2, <2>2, <2>4, <2>5
<1>5. a + 1 \in 1 .. Len(row.block_table)
  <2> HIDE DEF a, n
  <2>1. Len(row.block_table) = n
    BY <1>1 DEF n
  <2> QED  BY <1>2, <1>3, <1>4, <2>1
<1>6. DOMAIN row.block_table = 1 .. Len(row.block_table) /\ row.block_table[a + 1] \in Nat
  <2> HIDE DEF a, n
  <2> QED  BY <1>1, <1>5
<1> QED  BY <1>2, <1>5, <1>6

(* A kernel that describes the rows computes what their queries see.        *)
LEMMA Attends ==
    ASSUME NEW kernel, NEW rows, NEW cache, Len(rows) \in Nat,
           \A i \in 1 .. Len(rows) : PagedRow(rows[i]), Describes(kernel, rows)
    PROVE  Attend(kernel, cache) = FlattenSeq(SeenOfRows(cache, rows))
<1> DEFINE F(i) == LET queries == kernel.q_indptr[i + 1] - kernel.q_indptr[i]
                   IN  [j \in 1 .. queries |->
                            [x \in 1 .. kernel.kv_lens[i] - queries + j |->
                                KeyAt(cache, kernel, i, x)]]
<1>1. ASSUME NEW i \in 1 .. Len(rows) PROVE F(i) = SeenOf(cache, rows[i])
  <2> DEFINE row == rows[i]
  <2>1. /\ row.num_new_tokens \in Nat /\ row.num_cached_tokens \in Nat
        /\ ContextEnd(row) = row.num_cached_tokens + row.num_new_tokens
    BY DEF PagedRow, GoodRow, ContextEnd
  <2>a. row = rows[i]
    OBVIOUS
  <2>2. /\ kernel.q_indptr[i + 1] - kernel.q_indptr[i] = row.num_new_tokens
        /\ kernel.kv_lens[i] = ContextEnd(row)
    BY DEF Describes
  <2>3. ASSUME NEW j \in 1 .. row.num_new_tokens,
               NEW x \in 1 .. row.num_cached_tokens + j
        PROVE  KeyAt(cache, kernel, i, x) = CachedKey(cache, row, x)
    <3> DEFINE a == (x - 1) \div BlockSize
    <3>0. PICK c \in Nat, n \in Nat :
              c = row.num_cached_tokens /\ n = row.num_new_tokens /\ ContextEnd(row) = c + n
      BY <2>1
    <3>1. x - 1 \in 0 .. ContextEnd(row) - 1
      <4>1. j \in 1 .. n /\ x \in 1 .. c + j
        BY <3>0
      <4>2. x - 1 \in 0 .. (c + n) - 1
        BY <4>1
      <4> QED  BY <3>0, <4>2
    <3>2. a \in Nat /\ a + 1 \in 1 .. Len(row.block_table)
      BY <3>1, PageInTable
    <3> HIDE DEF a
    <3>3. kernel.indices[kernel.kv_indptr[i] + (a + 1)] = row.block_table[a + 1]
          /\ kernel.kv_indptr[i] \in Nat
      BY <3>2 DEF Describes
    <3>4. kernel.kv_indptr[i] + a + 1 = kernel.kv_indptr[i] + (a + 1)
      <4>1. PICK u \in Nat, v \in Nat : u = kernel.kv_indptr[i] /\ v = a
        BY <3>2, <3>3, Zenon
      <4>2. u + v + 1 = u + (v + 1)
        OBVIOUS
      <4> QED  BY <4>1, <4>2
    <3>5. kernel.indices[kernel.kv_indptr[i] + a + 1] = row.block_table[a + 1]
      BY <3>3, <3>4
    <3> QED  BY <3>5 DEF KeyAt, CachedKey, a
  <2>4. \A j \in 1 .. row.num_new_tokens :
            ContextEnd(row) - row.num_new_tokens + j = row.num_cached_tokens + j
    BY <2>1
  <2> HIDE DEF row
  <2> DEFINE n == row.num_new_tokens
             K(j, x) == KeyAt(cache, kernel, i, x)
             C(j, x) == CachedKey(cache, row, x)
  <2>5. F(i) = [j \in 1 .. n |->
                    [x \in 1 .. ContextEnd(row) - n + j |-> K(j, x)]]
    BY <2>2
  <2>6. SeenOf(cache, row) = [j \in 1 .. n |->
                                [x \in 1 .. row.num_cached_tokens + j |-> C(j, x)]]
    BY DEF SeenOf
  <2>7. \A j \in 1 .. n : \A x \in 1 .. row.num_cached_tokens + j : K(j, x) = C(j, x)
    BY <2>3
  <2> HIDE DEF n, K, C
  <2>8. [j \in 1 .. n |-> [x \in 1 .. ContextEnd(row) - n + j |-> K(j, x)]]
            = [j \in 1 .. n |-> [x \in 1 .. row.num_cached_tokens + j |-> C(j, x)]]
    <3>1. ASSUME NEW j \in 1 .. n
          PROVE  [x \in 1 .. ContextEnd(row) - n + j |-> K(j, x)]
                    = [x \in 1 .. row.num_cached_tokens + j |-> C(j, x)]
      BY <2>4, <2>7 DEF n
    <3> QED  BY <3>1
  <2>9. F(i) = SeenOf(cache, row)
    BY <2>5, <2>6, <2>8, Zenon
  <2> QED  BY <2>9 DEF row
<1>2. DOMAIN kernel.kv_lens = 1 .. Len(rows)
  BY DEF Describes
<1>3. Attend(kernel, cache) = FlattenSeq([i \in DOMAIN kernel.kv_lens |-> F(i)])
  BY DEF Attend
<1> HIDE DEF F
<1> QED  BY <1>1, <1>2, <1>3 DEF SeenOfRows

(* The keys of a row, counted from its pages and the fill of the last one.   *)
LEMMA KeysCounted ==
    ASSUME NEW row, PagedRow(row)
    PROVE  (Len(row.block_table) - 1) * BlockSize + (((ContextEnd(row) - 1) % BlockSize) + 1)
                = ContextEnd(row)
<1>1. PICK B \in Nat \ {0} : B = BlockSize
  BY BlockSizeAssumption
<1>2. PICK e \in Nat \ {0} : e = ContextEnd(row)
  BY DEF PagedRow, GoodRow, ContextEnd
<1>3. PICK k \in Nat : k = Len(row.block_table) /\ k = CeilDiv(e, B)
  <2>1. Len(row.block_table) \in Nat
    BY DEF PagedRow, GoodRow
  <2>2. Len(row.block_table) = CeilDiv(ContextEnd(row), BlockSize)
    BY Zenon DEF PagedRow, GoodRow
  <2> QED  BY <1>1, <1>2, <2>1, <2>2
<1>4. PICK q \in Nat, s \in 0 .. B - 1 : q = (e - 1) \div B /\ s = (e - 1) % B
  <2>1. e - 1 \in Nat
    OBVIOUS
  <2> QED  BY <2>1, <1>1, QuotientFacts
<1>5. PICK Q \in Nat : Q = q * B /\ e - 1 = Q + s /\ (q + 1) * B = Q + B
  <2>1. e - 1 \in Nat
    OBVIOUS
  <2>2. e - 1 = ((e - 1) \div B) * B + ((e - 1) % B)
    BY <2>1, QuotientFacts, Zenon
  <2>3. q * B \in Nat /\ (q + 1) * B = q * B + B
    BY <1>1, <1>4, ProductFacts
  <2>4. e - 1 = q * B + s
    BY <1>4, <2>2, Zenon
  <2> QED  BY <2>3, <2>4
<1>6. k = q + 1
  <2>1. e <= k * B /\ \A x \in Nat : x < k => x * B < e
    BY <1>1, <1>2, <1>3, PagesNeeded
  <2>2. \A x \in Nat : e <= x * B => k <= x
    BY <1>1, <1>2, <1>3, PagesNeeded
  <2>3. e <= (q + 1) * B
    BY <1>4, <1>5
  <2>4. k <= q + 1
    BY <2>2, <2>3
  <2>5. ASSUME k <= q PROVE FALSE
    <3>1. k * B <= q * B /\ k * B \in Nat
      BY <1>1, <1>3, <1>4, <2>5, ProductFacts
    <3> QED  BY <1>4, <1>5, <2>1, <3>1
  <2> QED  BY <2>4, <2>5
<1>7. k - 1 = q
  BY <1>6
<1>8. (Len(row.block_table) - 1) * BlockSize = Q
  BY <1>1, <1>3, <1>5, <1>7
<1>9. (ContextEnd(row) - 1) % BlockSize = s
  BY <1>1, <1>2, <1>4
<1>10. Q + (s + 1) = e
  BY <1>4, <1>5
<1> QED  BY <1>2, <1>8, <1>9, <1>10

(* Where the pages of the rows are in a list of pages.                      *)
Indexed(kv_indptr, indices, rows) ==
    \A i \in 1 .. Len(rows) :
        /\ kv_indptr[i] \in Nat
        /\ kv_indptr[i + 1] = kv_indptr[i] + Len(rows[i].block_table)
        /\ \A y \in 1 .. Len(rows[i].block_table) :
                indices[kv_indptr[i] + y] = rows[i].block_table[y]
Queried(q_indptr, rows) ==
    \A i \in 1 .. Len(rows) : q_indptr[i + 1] - q_indptr[i] = rows[i].num_new_tokens
LastPages(rows) == [i \in 1 .. Len(rows) |-> ((ContextEnd(rows[i]) - 1) % BlockSize) + 1]
Contexts(rows) == [i \in 1 .. Len(rows) |-> ContextEnd(rows[i])]

(* The keys counted for a row are those up to its context end.              *)
LEMMA CountedContexts ==
    ASSUME NEW rows, NEW k, NEW indices, \A i \in 1 .. Len(rows) : PagedRow(rows[i]),
           Indexed(k, indices, rows)
    PROVE  KeysOf(k, LastPages(rows)) = Contexts(rows)
<1>1. ASSUME NEW i \in 1 .. Len(rows)
      PROVE  (k[i + 1] - k[i] - 1) * BlockSize + LastPages(rows)[i] = ContextEnd(rows[i])
  <2>1. k[i + 1] - k[i] - 1 = Len(rows[i].block_table) - 1
    <3>1. k[i] \in Nat /\ k[i + 1] = k[i] + Len(rows[i].block_table)
      BY DEF Indexed
    <3>2. Len(rows[i].block_table) \in Nat
      BY DEF PagedRow, GoodRow
    <3> QED  BY <3>1, <3>2
  <2>2. (Len(rows[i].block_table) - 1) * BlockSize
            + (((ContextEnd(rows[i]) - 1) % BlockSize) + 1) = ContextEnd(rows[i])
    BY KeysCounted, Zenon
  <2>3. LastPages(rows)[i] = ((ContextEnd(rows[i]) - 1) % BlockSize) + 1
    BY DEF LastPages
  <2> QED  BY <2>1, <2>2, <2>3, Zenon
<1>2. DOMAIN LastPages(rows) = 1 .. Len(rows)
  BY DEF LastPages
<1>3. KeysOf(k, LastPages(rows))
        = [i \in 1 .. Len(rows) |-> (k[i + 1] - k[i] - 1) * BlockSize + LastPages(rows)[i]]
  BY <1>2, Zenon DEF KeysOf
<1> QED  BY <1>1, <1>3 DEF Contexts

(* A kernel with the queries, pages and contexts of rows describes them.    *)
LEMMA KernelDescribes ==
    ASSUME NEW rows, NEW q, NEW k, NEW indices, Indexed(k, indices, rows), Queried(q, rows)
    PROVE  Describes(Kernel(q, k, indices, Contexts(rows)), rows)
<1> DEFINE kernel == Kernel(q, k, indices, Contexts(rows))
<1>1. /\ kernel.q_indptr = q /\ kernel.kv_indptr = k /\ kernel.indices = indices
      /\ kernel.kv_lens = Contexts(rows)
  BY DEF Kernel
<1> HIDE DEF kernel
<1>2. Describes(kernel, rows)
  BY <1>1 DEF Describes, Indexed, Queried, Contexts
<1> QED  BY <1>2 DEF kernel

(* So does a decode kernel, which counts one query for each row.            *)
LEMMA DecodeKernelDescribes ==
    ASSUME NEW rows, NEW k, NEW indices, \A i \in 1 .. Len(rows) : PagedRow(rows[i]),
           Indexed(k, indices, rows), Len(rows) \in Nat, Len(k) = Len(rows) + 1,
           \A i \in 1 .. Len(rows) : rows[i].num_new_tokens = 1
    PROVE  Describes(DecodeKernel(k, indices, LastPages(rows)), rows)
<1> DEFINE q == [i \in 1 .. Len(k) |-> i - 1]
<1>1. Queried(q, rows)
  <2> SUFFICES ASSUME NEW i \in 1 .. Len(rows) PROVE q[i + 1] - q[i] = 1
    BY DEF Queried
  <2>1. i \in 1 .. Len(k) /\ i + 1 \in 1 .. Len(k)
    OBVIOUS
  <2> QED  BY <2>1
<1> HIDE DEF q
<1>2. Describes(Kernel(q, k, indices, Contexts(rows)), rows)
  BY <1>1, KernelDescribes
<1>3. KeysOf(k, LastPages(rows)) = Contexts(rows)
  BY CountedContexts
<1> QED  BY <1>2, <1>3 DEF DecodeKernel, q

(* The metadata of a batch that has pages describes its rows ...            *)
Described(m, rows, L, p) ==
    /\ p \in 0 .. L
    /\ \A i \in 1 .. L : PagedRow(rows[i])
    /\ \A i \in p + 1 .. L : rows[i].num_new_tokens = 1
    /\ m.num_prefill_seqs = p /\ m.num_decode_seqs = L - p
    /\ m.paged
    /\ m.query_start_loc \in [1 .. L + 1 -> Nat] /\ m.query_start_loc[1] = 0
    /\ Queried(m.query_start_loc, rows)
    /\ KvIndptr(m) \in [1 .. L + 1 -> Nat] /\ KvIndptr(m)[1] = 0
    /\ Indexed(KvIndptr(m), PageIndices(m), rows)
    /\ m.num_prefill_kv_blocks = KvIndptr(m)[p + 1]
    /\ PageIndices(m) \in Seq(Nat) /\ Len(PageIndices(m)) = KvIndptr(m)[L + 1]
    /\ LastPageLen(m) = LastPages(rows)
    /\ m.seq_lens = Contexts(rows)

(* ... with its page list and with its query starts.                        *)
LEMMA BatchDescribed ==
    ASSUME NEW R, NEW rows \in Seq(R), NEW L \in Nat, L = Len(rows), NEW p, GoodRows(rows, p),
           IsPaged(rows), NEW m, m = Metadata(rows, p)
    PROVE  Described(m, rows, L, p)
<1>1. PICK o : o = Offsets(QueryLens(rows))
  OBVIOUS
<1>2. PICK k : k = Offsets(PageCounts(rows))
  OBVIOUS
<1>3. /\ m.query_start_loc = o
      /\ m.seq_lens = [i \in DOMAIN rows |-> ContextEnd(rows[i])]
      /\ m.block_tables = Tables(rows)
      /\ m.num_prefill_kv_blocks = k[p + 1]
  BY <1>1, <1>2, MetadataFields
<1>a. m.num_prefill_seqs = p /\ m.num_decode_seqs = L - p /\ m.paged
  <2>1. /\ Metadata(rows, p).num_prefill_seqs = p
        /\ Metadata(rows, p).num_decode_seqs = Len(rows) - p
    BY DEF Metadata
  <2>2. Metadata(rows, p).paged = IsPaged(rows)
    BY MetadataFields, Zenon
  <2> QED  BY <2>1, <2>2
<1>4. DOMAIN rows = 1 .. L
  OBVIOUS
<1>5. /\ QueryLens(rows) \in Seq(Nat) /\ Len(QueryLens(rows)) = L
      /\ \A i \in 1 .. L : QueryLens(rows)[i] = rows[i].num_new_tokens
      /\ PageCounts(rows) \in Seq(Nat) /\ Len(PageCounts(rows)) = L
      /\ \A i \in 1 .. L : PageCounts(rows)[i] = Len(rows[i].block_table)
      /\ Tables(rows) \in Seq(Seq(Nat)) /\ Len(Tables(rows)) = L
      /\ LengthsOf(Tables(rows)) = PageCounts(rows)
  BY RowSums
<1>6. /\ o \in [1 .. L + 1 -> Nat] /\ o[1] = 0
      /\ \A i \in 1 .. L : o[i + 1] = o[i] + QueryLens(rows)[i]
  BY <1>1, <1>5, OffsetsFacts
<1>7. /\ k \in [1 .. L + 1 -> Nat] /\ k[1] = 0
      /\ \A i \in 1 .. L : k[i + 1] = k[i] + PageCounts(rows)[i]
  BY <1>2, <1>5, OffsetsFacts
<1>8. KvIndptr(m) = k
  <2>1. DOMAIN m.block_tables = 1 .. L /\ Len(m.block_tables) = L
    BY <1>3, <1>5
  <2>2. KvIndptr(m) = Offsets(LengthsOf(Tables(rows)))
    BY <1>3, <1>5, <2>1 DEF KvIndptr, LengthsOf
  <2> QED  BY <1>2, <1>5, <2>2
<1>9. p \in 0 .. L /\ \A i \in p + 1 .. L : rows[i].num_new_tokens = 1
  BY DEF GoodRows
<1>10. \A i \in 1 .. L : PagedRow(rows[i])
  BY DEF GoodRows, PagedRow
<1>11. Queried(o, rows)
  <2> SUFFICES ASSUME NEW i \in 1 .. L PROVE o[i + 1] - o[i] = rows[i].num_new_tokens
    BY DEF Queried
  <2>1. o[i] \in Nat /\ o[i + 1] = o[i] + rows[i].num_new_tokens
    <3>1. i \in 1 .. L + 1
      OBVIOUS
    <3>2. o[i + 1] = o[i] + QueryLens(rows)[i] /\ QueryLens(rows)[i] = rows[i].num_new_tokens
      BY <1>5, <1>6, Zenon
    <3> QED  BY <1>6, <3>1, <3>2
  <2>2. rows[i].num_new_tokens \in Nat
    BY <1>10 DEF PagedRow, GoodRow
  <2> QED  BY <2>1, <2>2
<1>12. PageIndices(m) = FlattenSeq(Tables(rows))
  BY <1>3 DEF PageIndices
<1>13. PageIndices(m) \in Seq(Nat) /\ Len(PageIndices(m)) = k[L + 1]
  <2>1. PICK t \in Seq(Seq(Nat)) : t = Tables(rows)
    BY <1>5
  <2>2. L = Len(t)
    BY <1>5, <2>1
  <2>3. FlattenSeq(t) \in Seq(Nat)
    BY <2>2, FlattenFacts, Zenon
  <2>4. Len(FlattenSeq(t)) = Offsets(LengthsOf(t))[L + 1]
    BY <2>2, FlattenFacts, Zenon
  <2> QED  BY <1>2, <1>5, <1>12, <2>1, <2>3, <2>4
<1>14. Indexed(k, PageIndices(m), rows)
  <2> SUFFICES ASSUME NEW i \in 1 .. L
               PROVE  /\ k[i] \in Nat
                      /\ k[i + 1] = k[i] + Len(rows[i].block_table)
                      /\ \A y \in 1 .. Len(rows[i].block_table) :
                              PageIndices(m)[k[i] + y] = rows[i].block_table[y]
    BY DEF Indexed
  <2>1. k[i] \in Nat /\ k[i + 1] = k[i] + Len(rows[i].block_table)
    <3>1. i \in 1 .. L + 1
      OBVIOUS
    <3>2. k[i + 1] = k[i] + PageCounts(rows)[i] /\ PageCounts(rows)[i] = Len(rows[i].block_table)
      BY <1>5, <1>7, Zenon
    <3> QED  BY <1>7, <3>1, <3>2
  <2>2. Tables(rows)[i] = rows[i].block_table
    BY <1>4 DEF Tables
  <2>3. ASSUME NEW y \in 1 .. Len(rows[i].block_table)
        PROVE  PageIndices(m)[k[i] + y] = rows[i].block_table[y]
    <3>1. PICK t \in Seq(Seq(Nat)) : t = Tables(rows) /\ Len(t) = L
      BY <1>5
    <3>2. y \in 1 .. Len(t[i])
      BY <2>2, <3>1
    <3>3. FlattenSeq(t)[Offsets(LengthsOf(t))[i] + y] = t[i][y]
      BY <3>1, <3>2, FlattenAt
    <3>4. Offsets(LengthsOf(t)) = k
      BY <1>2, <1>5, <3>1
    <3> QED  BY <1>12, <2>2, <3>1, <3>3, <3>4
  <2> QED  BY <2>1, <2>3
<1>15. m.seq_lens = Contexts(rows)
  BY <1>3, <1>4 DEF Contexts
<1>16. LastPageLen(m) = LastPages(rows)
  <2>1. DOMAIN m.seq_lens = 1 .. L /\ \A i \in 1 .. L : m.seq_lens[i] = ContextEnd(rows[i])
    BY <1>15 DEF Contexts
  <2> QED  BY <2>1 DEF LastPageLen, LastPages
<1> QED  BY <1>3, <1>a, <1>6, <1>7, <1>8, <1>9, <1>10, <1>11, <1>13, <1>14, <1>15, <1>16
         DEF Described

(* Sequences put together in one go and in parts.                           *)
Sequenced(s) == Len(s) \in Nat /\ s = [j \in 1 .. Len(s) |-> s[j]]

(* A sequence of sequences is a packing.                                    *)
LEMMA PackingOf ==
    ASSUME NEW seqs, NEW L \in Nat, seqs = [i \in 1 .. L |-> seqs[i]],
           \A i \in 1 .. L : Sequenced(seqs[i])
    PROVE  Packs(seqs, L)
BY DEF Packs, Sequenced

(* The offsets of a packing add up the lengths of its sequences.            *)
LEMMA PackedSums ==
    ASSUME NEW seqs, NEW L \in Nat, Packs(seqs, L)
    PROVE  /\ Offsets(LengthsOf(seqs)) \in [1 .. L + 1 -> Nat]
           /\ Offsets(LengthsOf(seqs))[1] = 0
           /\ \A i \in 1 .. L : Len(seqs[i]) \in Nat
           /\ \A i \in 1 .. L : Offsets(LengthsOf(seqs))[i + 1]
                                    = Offsets(LengthsOf(seqs))[i] + Len(seqs[i])
<1>1. /\ LengthsOf(seqs) \in Seq(Nat) /\ Len(LengthsOf(seqs)) = L
      /\ \A i \in 1 .. L : LengthsOf(seqs)[i] = Len(seqs[i])
  BY PackedAt
<1>2. \A i \in 1 .. L : Len(seqs[i]) \in Nat
  BY PacksTyped
<1>3. PICK c \in Seq(Nat) : c = LengthsOf(seqs) /\ Len(c) = L
  BY <1>1
<1>4. /\ Offsets(c) \in [1 .. L + 1 -> Nat] /\ Offsets(c)[1] = 0
      /\ \A i \in 1 .. L : Offsets(c)[i + 1] = Offsets(c)[i] + c[i]
  BY <1>3, OffsetsFacts
<1>5. \A i \in 1 .. L : Offsets(c)[i + 1] = Offsets(c)[i] + Len(seqs[i])
  BY <1>1, <1>3, <1>4
<1> QED  BY <1>2, <1>3, <1>4, <1>5

(* A sequence built from its parts is what FlattenSeq gives.                *)
Joins(seqs, L, s, sum) ==
    \E N \in Nat :
        /\ s = [t \in 1 .. N |-> s[t]] /\ sum[1] = 0 /\ sum[L + 1] = N
        /\ \A i \in 1 .. L : sum[i + 1] = sum[i] + Len(seqs[i])
        /\ \A i \in 1 .. L : \A j \in 1 .. Len(seqs[i]) : s[sum[i] + j] = seqs[i][j]

(* ... whatever it was built by.                                            *)
LEMMA FlattenWhole ==
    ASSUME NEW seqs, NEW L \in Nat, Packs(seqs, L), NEW s, NEW sum, Joins(seqs, L, s, sum)
    PROVE  s = FlattenSeq(seqs)
<1>a. PICK N \in Nat :
          /\ s = [t \in 1 .. N |-> s[t]] /\ sum[1] = 0 /\ sum[L + 1] = N
          /\ \A i \in 1 .. L : sum[i + 1] = sum[i] + Len(seqs[i])
          /\ \A i \in 1 .. L : \A j \in 1 .. Len(seqs[i]) : s[sum[i] + j] = seqs[i][j]
  BY Zenon DEF Joins
<1>1. PICK c \in Seq(Nat) : c = LengthsOf(seqs) /\ Len(c) = L
  BY PackedAt
<1>2. \A i \in 1 .. L : c[i] = Len(seqs[i])
  BY <1>1, PackedAt
<1>3. \A i \in 1 .. L : sum[i + 1] = sum[i] + c[i]
  BY <1>2, <1>a
<1>4. \A i \in 1 .. L + 1 : Offsets(c)[i] = sum[i]
  BY <1>1, <1>3, <1>a, OffsetsUnique
<1>5. Places(seqs, L, s)
  <2> SUFFICES ASSUME NEW i \in 1 .. L, NEW j \in 1 .. Len(seqs[i])
               PROVE  s[Offsets(LengthsOf(seqs))[i] + j] = seqs[i][j]
    BY DEF Places
  <2>1. i \in 1 .. L + 1
    OBVIOUS
  <2>2. Offsets(c)[i] = sum[i]
    BY <1>4, <2>1
  <2>3. s[sum[i] + j] = seqs[i][j]
    BY <1>a
  <2> QED  BY <1>1, <2>2, <2>3
<1>6. L + 1 \in 1 .. L + 1
  OBVIOUS
<1>7. N = Offsets(LengthsOf(seqs))[L + 1]
  BY <1>1, <1>4, <1>6, <1>a
<1>8. s = [t \in 1 .. N |-> s[t]]
  BY <1>a
<1> QED  BY <1>5, <1>7, <1>8, FlattenUnique, Zenon

(* One sequence put together is itself.                                     *)
LEMMA FlattenOne ==
    ASSUME NEW s, NEW N \in Nat, s = [t \in 1 .. N |-> s[t]]
    PROVE  FlattenSeq(<<s>>) = s
<1> DEFINE seqs == <<s>>
           sum == <<0, N>>
<1>1. Len(s) = N
  OBVIOUS
<1>2. seqs = [i \in 1 .. 1 |-> seqs[i]] /\ seqs[1] = s
  OBVIOUS
<1>3. sum[1] = 0 /\ sum[1 + 1] = N
  OBVIOUS
<1> HIDE DEF seqs, sum
<1>4. Packs(seqs, 1)
  BY <1>2 DEF Packs
<1>5. /\ \A i \in 1 .. 1 : sum[i + 1] = sum[i] + Len(seqs[i])
      /\ \A i \in 1 .. 1 : \A j \in 1 .. Len(seqs[i]) : s[sum[i] + j] = seqs[i][j]
  BY <1>1, <1>2, <1>3
<1>6. s = FlattenSeq(seqs)
  <2>1. Joins(seqs, 1, s, sum)
    BY <1>3, <1>5 DEF Joins
  <2> QED  BY <1>4, <2>1, FlattenWhole
<1> QED  BY <1>6 DEF seqs

(* Putting two parts together that were put together each is the whole.     *)
LEMMA FlattenSplit ==
    ASSUME NEW seqs, NEW L \in Nat, Packs(seqs, L), NEW n \in 0 .. L
    PROVE  FlattenSeq(<<FlattenSeq([i \in 1 .. n |-> seqs[i]]),
                        FlattenSeq([i \in 1 .. L - n |-> seqs[n + i]])>>) = FlattenSeq(seqs)
<1> DEFINE A == [i \in 1 .. n |-> seqs[i]]
           B == [i \in 1 .. L - n |-> seqs[n + i]]
<1>1. \A i \in 1 .. L : Len(seqs[i]) \in Nat /\ Sequenced(seqs[i])
  BY PacksTyped DEF Sequenced
<1>2. PICK m \in Nat : m = L - n /\ n + m = L
  <2>1. L - n \in Nat
    OBVIOUS
  <2> QED  BY <2>1
<1>3. n \in Nat /\ \A i \in 1 .. n : i \in 1 .. L
  OBVIOUS
<1>4. \A i \in 1 .. m : n + i \in 1 .. L
  BY <1>2
<1>5. /\ A = [i \in 1 .. n |-> A[i]] /\ \A i \in 1 .. n : A[i] = seqs[i]
      /\ B = [i \in 1 .. m |-> B[i]] /\ \A i \in 1 .. m : B[i] = seqs[n + i]
  BY <1>2
<1> HIDE DEF A, B
<1>6. Packs(A, n) /\ Packs(B, m)
  <2>1. \A i \in 1 .. n : Sequenced(A[i])
    BY <1>1, <1>3, <1>5
  <2>2. \A i \in 1 .. m : Sequenced(B[i])
    BY <1>1, <1>4, <1>5
  <2>3. Packs(A, n)
    BY <1>3, <1>5, <2>1, PackingOf, Zenon
  <2>4. Packs(B, m)
    BY <1>5, <2>2, PackingOf, Zenon
  <2> QED  BY <2>3, <2>4
<1>7. PICK a \in [1 .. n + 1 -> Nat] :
          /\ a = Offsets(LengthsOf(A)) /\ a[1] = 0
          /\ \A i \in 1 .. n : a[i + 1] = a[i] + Len(A[i])
  BY <1>3, <1>6, PackedSums
<1>8. PICK b \in [1 .. m + 1 -> Nat] :
          /\ b = Offsets(LengthsOf(B)) /\ b[1] = 0
          /\ \A i \in 1 .. m : b[i + 1] = b[i] + Len(B[i])
  BY <1>6, PackedSums
<1>9. PICK fA : /\ fA = FlattenSeq(A) /\ Len(fA) = a[n + 1] /\ Len(fA) \in Nat
                /\ fA = [t \in 1 .. Len(fA) |-> fA[t]]
                /\ \A i \in 1 .. n : \A j \in 1 .. Len(A[i]) : a[i] + j \in 1 .. Len(fA)
                /\ Places(A, n, fA)
  BY <1>3, <1>6, <1>7, PackedAt, FlattenPlaces, Zenon
<1>10. PICK fB : /\ fB = FlattenSeq(B) /\ Len(fB) = b[m + 1] /\ Len(fB) \in Nat
                 /\ fB = [t \in 1 .. Len(fB) |-> fB[t]]
                 /\ \A i \in 1 .. m : \A j \in 1 .. Len(B[i]) : b[i] + j \in 1 .. Len(fB)
                 /\ Places(B, m, fB)
  BY <1>6, <1>8, PackedAt, FlattenPlaces, Zenon
<1> DEFINE pair == <<fA, fB>>
<1>11. pair = [i \in 1 .. 2 |-> pair[i]] /\ pair[1] = fA /\ pair[2] = fB
  OBVIOUS
<1> HIDE DEF pair
<1>12. Packs(pair, 2)
  <2>1. \A i \in 1 .. 2 : i = 1 \/ i = 2
    OBVIOUS
  <2>2. Sequenced(fA) /\ Sequenced(fB)
    BY <1>9, <1>10 DEF Sequenced
  <2>3. \A i \in 1 .. 2 : Sequenced(pair[i])
    BY <1>11, <2>1, <2>2
  <2>4. 2 \in Nat
    OBVIOUS
  <2> QED  BY <1>11, <2>3, <2>4, PackingOf, Zenon
<1>13. PICK f : f = FlattenSeq(pair)
  OBVIOUS
<1>14. PICK c \in [1 .. 3 -> Nat] :
          c = Offsets(LengthsOf(pair)) /\ c[1] = 0 /\ c[2] = Len(fA) /\ c[3] = Len(fA) + Len(fB)
  <2>1. PICK c \in [1 .. 2 + 1 -> Nat] :
            /\ c = Offsets(LengthsOf(pair)) /\ c[1] = 0
            /\ \A i \in 1 .. 2 : c[i + 1] = c[i] + Len(pair[i])
    BY <1>12, PackedSums
  <2>2. c[1 + 1] = c[1] + Len(pair[1]) /\ c[2 + 1] = c[2] + Len(pair[2])
    BY <2>1
  <2>3. c[2] = 0 + Len(fA) /\ c[3] = c[2] + Len(fB)
    BY <1>11, <2>1, <2>2
  <2>4. c[2] = Len(fA)
    BY <1>9, <2>3
  <2>5. c \in [1 .. 3 -> Nat]
    BY <2>1
  <2> QED  BY <2>1, <2>3, <2>4, <2>5
<1>15. PICK N \in Nat : N = Len(fA) + Len(fB) /\ N = Len(f) /\ f = [t \in 1 .. N |-> f[t]]
  <2>1. /\ Len(f) \in Nat /\ Len(f) = Offsets(LengthsOf(pair))[2 + 1]
        /\ f = [t \in 1 .. Len(f) |-> f[t]]
    BY <1>12, <1>13, PackedAt
  <2> QED  BY <1>14, <2>1
<1>16. \A t \in 1 .. Len(fA) : f[t] = fA[t]
  <2>a. Places(pair, 2, f) /\ 1 \in 1 .. 2
    BY <1>12, <1>13, FlattenPlaces
  <2>1. \A j \in 1 .. Len(pair[1]) : f[c[1] + j] = pair[1][j]
    BY <1>14, <2>a DEF Places
  <2>2. ASSUME NEW t \in 1 .. Len(fA) PROVE c[1] + t = t
    BY <1>14
  <2> QED  BY <1>11, <2>1, <2>2
<1>17. \A t \in 1 .. Len(fB) : f[Len(fA) + t] = fB[t]
  <2>a. Places(pair, 2, f) /\ 2 \in 1 .. 2
    BY <1>12, <1>13, FlattenPlaces
  <2>1. \A j \in 1 .. Len(pair[2]) : f[c[2] + j] = pair[2][j]
    BY <1>14, <2>a DEF Places
  <2> QED  BY <1>11, <1>14, <2>1
<1> DEFINE sum == [i \in 1 .. L + 1 |-> IF i <= n THEN a[i] ELSE Len(fA) + b[i - n]]
<1>18. ASSUME NEW i \in 1 .. n PROVE sum[i] = a[i] /\ sum[i + 1] = a[i + 1]
  <2>1. sum[i] = a[i]
    BY <1>3
  <2>2. sum[i + 1] = a[i + 1]
    <3>1. CASE i = n
      <4>1. i + 1 \in 1 .. L + 1 /\ ~(i + 1 <= n) /\ (i + 1) - n = 1
        BY <3>1
      <4>2. sum[i + 1] = Len(fA) + b[1]
        BY <4>1
      <4> QED  BY <1>8, <1>9, <3>1, <4>2
    <3>2. CASE i # n
      <4>1. i + 1 \in 1 .. L + 1 /\ i + 1 <= n
        BY <3>2
      <4> QED  BY <4>1
    <3> QED  BY <3>1, <3>2
  <2> QED  BY <2>1, <2>2
<1>19. ASSUME NEW i \in 1 .. m
       PROVE  sum[n + i] = Len(fA) + b[i] /\ sum[(n + i) + 1] = Len(fA) + b[i + 1]
  <2>1. /\ n + i \in 1 .. L + 1 /\ ~(n + i <= n) /\ (n + i) - n = i
        /\ (n + i) + 1 \in 1 .. L + 1 /\ ~((n + i) + 1 <= n) /\ ((n + i) + 1) - n = i + 1
    BY <1>2
  <2> QED  BY <2>1
<1>20. sum[1] = 0 /\ sum[L + 1] = N
  <2>1. sum[1] = 0
    <3>1. CASE n = 0
      BY <1>7, <1>8, <1>9, <3>1
    <3>2. CASE n # 0
      <4>1. 1 \in 1 .. n
        BY <3>2
      <4> QED  BY <1>7, <1>18, <4>1
    <3> QED  BY <3>1, <3>2
  <2>2. sum[L + 1] = Len(fA) + b[m + 1]
    <3>1. L + 1 \in 1 .. L + 1 /\ ~(L + 1 <= n) /\ (L + 1) - n = m + 1
      BY <1>2
    <3> QED  BY <3>1
  <2> QED  BY <1>10, <1>15, <2>1, <2>2
<1> HIDE DEF sum
<1>21. ASSUME NEW i \in 1 .. L
       PROVE  /\ sum[i + 1] = sum[i] + Len(seqs[i])
              /\ \A j \in 1 .. Len(seqs[i]) : f[sum[i] + j] = seqs[i][j]
  <2>1. CASE i \in 1 .. n
    <3>1. A[i] = seqs[i] /\ sum[i] = a[i] /\ sum[i + 1] = a[i + 1]
          /\ a[i + 1] = a[i] + Len(A[i])
      BY <1>5, <1>7, <1>18, <2>1
    <3>2. ASSUME NEW j \in 1 .. Len(seqs[i]) PROVE f[sum[i] + j] = seqs[i][j]
      <4>1. a[i] + j \in 1 .. Len(fA)
        BY <1>9, <2>1, <3>1
      <4>2. fA[a[i] + j] = A[i][j]
        BY <1>7, <1>9, <2>1, <3>1 DEF Places
      <4>3. f[a[i] + j] = fA[a[i] + j]
        BY <1>16, <4>1
      <4> QED  BY <3>1, <4>2, <4>3
    <3> QED  BY <3>1, <3>2
  <2>2. CASE i \notin 1 .. n
    <3>1. PICK x \in 1 .. m : i = n + x
      <4>1. i - n \in 1 .. m /\ i = n + (i - n)
        BY <1>2, <2>2
      <4> QED  BY <4>1
    <3>2. B[x] = seqs[i] /\ sum[i] = Len(fA) + b[x] /\ sum[i + 1] = Len(fA) + b[x + 1]
          /\ b[x + 1] = b[x] + Len(B[x])
      BY <1>5, <1>8, <1>19, <3>1
    <3>3. b[x] \in Nat /\ Len(B[x]) \in Nat /\ Len(fA) \in Nat
      <4>1. x \in 1 .. m + 1
        OBVIOUS
      <4> QED  BY <1>1, <1>8, <1>9, <3>2, <4>1
    <3>4. ASSUME NEW j \in 1 .. Len(seqs[i]) PROVE f[sum[i] + j] = seqs[i][j]
      <4>1. b[x] + j \in 1 .. Len(fB)
        BY <1>10, <3>2
      <4>2. fB[b[x] + j] = B[x][j]
        BY <1>8, <1>10, <3>2 DEF Places
      <4>3. f[Len(fA) + (b[x] + j)] = fB[b[x] + j]
        BY <1>17, <4>1
      <4>4. sum[i] + j = Len(fA) + (b[x] + j)
        <5>1. Len(seqs[i]) \in Nat
          BY <1>1
        <5>2. j \in Nat
          BY <5>1
        <5>3. (Len(fA) + b[x]) + j = Len(fA) + (b[x] + j)
          BY <3>3, <5>2
        <5> QED  BY <3>2, <5>3, Zenon
      <4> QED  BY <3>2, <4>2, <4>3, <4>4
    <3>5. sum[i + 1] = sum[i] + Len(seqs[i])
      <4>1. PICK u \in Nat, v \in Nat, w \in Nat : u = Len(fA) /\ v = b[x] /\ w = Len(B[x])
        BY <3>3, Zenon
      <4>2. (u + v) + w = u + (v + w)
        OBVIOUS
      <4> QED  BY <3>2, <4>1, <4>2, Zenon
    <3> QED  BY <3>4, <3>5
  <2> QED  BY <2>1, <2>2
<1>22. f = FlattenSeq(seqs)
  <2>1. Joins(seqs, L, f, sum)
    BY <1>15, <1>20, <1>21 DEF Joins
  <2> QED  BY <2>1, FlattenWhole, Zenon
<1> QED  BY <1>9, <1>10, <1>13, <1>22 DEF pair, A, B

-----------------------------------------------------------------------------

(* The two parts of a split plan, and every route.                          *)

(* What the queries of the rows see is a packing, a sequence for each row.  *)
LEMMA SeenPacks ==
    ASSUME NEW rows, Len(rows) \in Nat, \A i \in 1 .. Len(rows) : PagedRow(rows[i]), NEW cache
    PROVE  Packs(SeenOfRows(cache, rows), Len(rows))
<1> DEFINE seqs == SeenOfRows(cache, rows)
           L == Len(rows)
<1>1. seqs = [i \in 1 .. L |-> seqs[i]] /\ \A i \in 1 .. L : seqs[i] = SeenOf(cache, rows[i])
  BY DEF SeenOfRows
<1>2. ASSUME NEW i \in 1 .. L PROVE Sequenced(SeenOf(cache, rows[i]))
  <2>1. PICK n \in Nat : n = rows[i].num_new_tokens
    BY DEF PagedRow, GoodRow
  <2>2. PICK s : s = SeenOf(cache, rows[i])
    OBVIOUS
  <2>3. DOMAIN s = 1 .. n /\ s = [j \in 1 .. n |-> s[j]]
    BY <2>1, <2>2 DEF SeenOf
  <2>4. Len(s) = n
    BY <2>3
  <2> QED  BY <2>2, <2>3, <2>4 DEF Sequenced
<1> HIDE DEF seqs, L
<1>3. \A i \in 1 .. L : Sequenced(seqs[i])
  BY <1>1, <1>2
<1>4. L \in Nat
  BY DEF L
<1>5. Packs(seqs, L)
  BY <1>1, <1>3, <1>4, PackingOf, Zenon
<1> QED  BY <1>5 DEF seqs, L

(* Pages are listed row after row.                                          *)
LEMMA IndexedUp ==
    ASSUME NEW rows, NEW L \in Nat, L = Len(rows), NEW k \in [1 .. L + 1 -> Nat], NEW indices,
           Indexed(k, indices, rows), \A i \in 1 .. L : PagedRow(rows[i]),
           NEW p \in 0 .. L, NEW i \in 1 .. p
    PROVE  k[i + 1] <= k[p + 1]
<1> DEFINE G == {n \in Nat : i + n <= L => k[i + 1] <= k[(i + n) + 1]}
<1>1. 0 \in G
  <2>1. i + 1 \in 1 .. L + 1 /\ (i + 0) + 1 = i + 1
    OBVIOUS
  <2> QED  BY <2>1
<1>2. PICK d \in Nat : d = p - i
  OBVIOUS
<1>3. ASSUME NEW n \in 1 .. d, n - 1 \in G PROVE n \in G
  <2>1. i + n \in 1 .. L /\ (i + (n - 1)) + 1 = i + n /\ i + (n - 1) <= L
    BY <1>2
  <2>2. k[i + 1] <= k[i + n]
    BY <1>3, <2>1
  <2>3. k[(i + n) + 1] = k[i + n] + Len(rows[i + n].block_table)
    BY <2>1 DEF Indexed
  <2>4. Len(rows[i + n].block_table) \in Nat
    BY <2>1 DEF PagedRow, GoodRow
  <2>5. k[i + n] \in Nat /\ k[i + 1] \in Nat
    <3>1. i + n \in 1 .. L + 1 /\ i + 1 \in 1 .. L + 1
      BY <2>1
    <3> QED  BY <3>1
  <2>6. k[i + 1] <= k[(i + n) + 1]
    BY <2>2, <2>3, <2>4, <2>5
  <2> QED  BY <2>6
<1>4. d \in G
  <2> HIDE DEF G
  <2>1. \A n \in 0 .. d : n \in G
    BY <1>1, <1>3, Ascent
  <2> QED  BY <2>1
<1>5. i + d = p /\ i + d <= L
  BY <1>2
<1>6. k[i + 1] <= k[(i + d) + 1]
  BY <1>4, <1>5
<1> QED  BY <1>5, <1>6

(* The pages of a later row are listed later.                               *)
LEMMA LaterRows ==
    ASSUME NEW rows, NEW L \in Nat, L = Len(rows), NEW k \in [1 .. L + 1 -> Nat], NEW indices,
           Indexed(k, indices, rows), \A i \in 1 .. L : PagedRow(rows[i]),
           NEW w \in 0 .. L, NEW i \in 1 .. w
    PROVE  k[i] <= k[w + 1]
<1>1. k[i + 1] <= k[w + 1]
  BY IndexedUp
<1>2. k[i + 1] = k[i] + Len(rows[i].block_table)
  BY DEF Indexed
<1>3. Len(rows[i].block_table) \in Nat
  BY DEF PagedRow, GoodRow
<1>4. k[i] \in Nat /\ k[i + 1] \in Nat /\ k[w + 1] \in Nat
  <2>1. i \in 1 .. L + 1 /\ i + 1 \in 1 .. L + 1 /\ w + 1 \in 1 .. L + 1
    OBVIOUS
  <2> QED  BY <2>1
<1> QED  BY <1>1, <1>2, <1>3, <1>4

(* The first n rows, and those after them.                                  *)
FirstRows(rows, n) == [i \in 1 .. n |-> rows[i]]
RestRows(rows, n) == [i \in 1 .. Len(rows) - n |-> rows[n + i]]

(* The prefill part of a split plan describes the rows of the prefills ...  *)
LEMMA PrefillPartDescribes ==
    ASSUME NEW R, NEW rows \in Seq(R), NEW L \in Nat, L = Len(rows), NEW p, GoodRows(rows, p),
           IsPaged(rows), NEW m, m = Metadata(rows, p)
    PROVE  Describes(PrefillPart(m), FirstRows(rows, p))
<1>a. Described(m, rows, L, p)
  BY BatchDescribed
<1> DEFINE A == FirstRows(rows, p)
<1>1. /\ p \in 0 .. L /\ p \in Nat
      /\ \A i \in 1 .. L : PagedRow(rows[i])
      /\ m.query_start_loc \in [1 .. L + 1 -> Nat]
      /\ Queried(m.query_start_loc, rows)
      /\ KvIndptr(m) \in [1 .. L + 1 -> Nat] /\ KvIndptr(m)[1] = 0
      /\ Indexed(KvIndptr(m), PageIndices(m), rows)
      /\ m.num_prefill_kv_blocks = KvIndptr(m)[p + 1]
      /\ PageIndices(m) \in Seq(Nat) /\ Len(PageIndices(m)) = KvIndptr(m)[L + 1]
      /\ LastPageLen(m) = LastPages(rows)
  BY <1>a DEF Described
<1>2. m.num_prefill_seqs = p
  BY <1>a DEF Described
<1>b. L + 1 \in Nat
  OBVIOUS
<1>3. PICK o \in Seq(Nat) : o = m.query_start_loc /\ Len(o) = L + 1
  <2>1. m.query_start_loc \in [1 .. L + 1 -> Nat]
    BY <1>1
  <2>2. m.query_start_loc \in Seq(Nat) /\ Len(m.query_start_loc) = L + 1
    BY <1>b, <2>1, SequenceOf, Zenon
  <2> QED  BY <2>2
<1>4. PICK k \in Seq(Nat) : k = KvIndptr(m) /\ Len(k) = L + 1
  <2>1. KvIndptr(m) \in [1 .. L + 1 -> Nat]
    BY <1>1
  <2>2. KvIndptr(m) \in Seq(Nat) /\ Len(KvIndptr(m)) = L + 1
    BY <1>b, <2>1, SequenceOf, Zenon
  <2> QED  BY <2>2
<1>5. PICK x \in Seq(Nat) : x = PageIndices(m) /\ Len(x) = k[L + 1]
  BY <1>1, <1>4
<1>6. Len(A) = p /\ \A i \in 1 .. p : A[i] = rows[i] /\ i \in 1 .. L
  BY <1>1 DEF FirstRows
<1> HIDE DEF A
<1>c. k[p + 1] \in Nat
  BY <1>1, <1>4
<1>7. PICK q : q = SubSeq(o, 1, p + 1) /\ \A i \in 1 .. p + 1 : q[i] = o[i]
  <2>1. PICK q : q = SubSeq(o, 1, p + 1)
    OBVIOUS
  <2>2. \A i \in 1 .. p + 1 : q[i] = o[i]
    BY <1>1, <2>1
  <2> QED  BY <2>1, <2>2
<1>8. PICK h : h = SubSeq(k, 1, p + 1) /\ \A i \in 1 .. p + 1 : h[i] = k[i]
  <2>1. PICK h : h = SubSeq(k, 1, p + 1)
    OBVIOUS
  <2>2. \A i \in 1 .. p + 1 : h[i] = k[i]
    BY <1>1, <2>1
  <2> QED  BY <2>1, <2>2
<1>9. PICK y : y = SubSeq(x, 1, k[p + 1]) /\ \A i \in 1 .. k[p + 1] : y[i] = x[i]
  <2>1. PICK y : y = SubSeq(x, 1, k[p + 1])
    OBVIOUS
  <2>2. \A i \in 1 .. k[p + 1] : y[i] = x[i]
    BY <1>c, <2>1
  <2> QED  BY <2>1, <2>2
<1>10. Queried(q, A)
  <2> SUFFICES ASSUME NEW i \in 1 .. p PROVE q[i + 1] - q[i] = A[i].num_new_tokens
    BY <1>6 DEF Queried
  <2>1. o[i + 1] - o[i] = rows[i].num_new_tokens
    BY <1>1, <1>3, <1>6 DEF Queried
  <2>2. i \in 1 .. p + 1 /\ i + 1 \in 1 .. p + 1
    BY <1>1
  <2> QED  BY <1>6, <1>7, <2>1, <2>2
<1>11. Indexed(h, y, A)
  <2> SUFFICES ASSUME NEW i \in 1 .. p
               PROVE  /\ h[i] \in Nat /\ h[i + 1] = h[i] + Len(A[i].block_table)
                      /\ \A z \in 1 .. Len(A[i].block_table) :
                            y[h[i] + z] = A[i].block_table[z]
    BY <1>6 DEF Indexed
  <2>1. /\ k[i] \in Nat /\ k[i + 1] = k[i] + Len(rows[i].block_table)
        /\ \A z \in 1 .. Len(rows[i].block_table) : x[k[i] + z] = rows[i].block_table[z]
    BY <1>1, <1>4, <1>5, <1>6 DEF Indexed
  <2>2. i \in 1 .. p + 1 /\ i + 1 \in 1 .. p + 1
    BY <1>1
  <2>3. h[i] = k[i] /\ h[i + 1] = k[i + 1] /\ A[i] = rows[i]
    BY <1>6, <1>8, <2>2
  <2>4. ASSUME NEW z \in 1 .. Len(rows[i].block_table)
        PROVE  y[k[i] + z] = rows[i].block_table[z]
    <3>1. k[i] + z \in 1 .. k[p + 1]
      <4>1. k[i + 1] <= k[p + 1]
        BY <1>1, <1>4, IndexedUp
      <4>2. Len(rows[i].block_table) \in Nat
        BY <1>1, <1>6 DEF PagedRow, GoodRow
      <4>3. PICK a \in Nat, b \in Nat, c \in Nat, l \in Nat :
                a = k[i] /\ b = k[i + 1] /\ c = k[p + 1] /\ l = Len(rows[i].block_table)
                /\ b = a + l
        <5>1. k[i] \in Nat /\ k[i + 1] = k[i] + Len(rows[i].block_table)
          BY <2>1
        <5>2. k[i + 1] \in Nat
          <6>1. PICK u \in Nat, v \in Nat : u = k[i] /\ v = Len(rows[i].block_table)
            BY <4>2, <5>1, Zenon
          <6>2. u + v \in Nat
            OBVIOUS
          <6> QED  BY <5>1, <6>1, <6>2, Zenon
        <5> QED  BY <1>c, <4>2, <5>1, <5>2
      <4>4. z \in 1 .. l /\ b <= c /\ b = a + l
        BY <4>1, <4>3
      <4>5. a + z \in 1 .. c
        BY <4>4
      <4> QED  BY <4>3, <4>5
    <3> QED  BY <1>9, <2>1, <3>1
  <2> QED  BY <2>1, <2>3, <2>4
<1>12. SubSeq(LastPageLen(m), 1, p) = LastPages(A)
  <2>1. PICK l : l = LastPages(rows) /\ l = [i \in 1 .. L |-> ((ContextEnd(rows[i]) - 1) % BlockSize) + 1]
    BY DEF LastPages
  <2>2. SubSeq(l, 1, p) = [i \in 1 .. p |-> l[i]]
    BY <1>1, <2>1
  <2>3. \A i \in 1 .. p : l[i] = ((ContextEnd(A[i]) - 1) % BlockSize) + 1
    BY <1>6, <2>1
  <2> QED  BY <1>1, <1>6, <2>1, <2>2, <2>3 DEF LastPages
<1>13. \A i \in 1 .. Len(A) : PagedRow(A[i])
  BY <1>1, <1>6
<1>14. KeysOf(h, LastPages(A)) = Contexts(A)
  BY <1>11, <1>13, CountedContexts
<1>15. PrefillPart(m) = Kernel(q, h, y, Contexts(A))
  BY <1>1, <1>2, <1>3, <1>4, <1>5, <1>7, <1>8, <1>9, <1>12, <1>14 DEF PrefillPart
<1>16. Describes(Kernel(q, h, y, Contexts(A)), A)
  BY <1>10, <1>11, KernelDescribes
<1> QED  BY <1>15, <1>16 DEF A

(* ... and the decode part, re-based to its own pages, the decodes.         *)
LEMMA DecodePartDescribes ==
    ASSUME NEW R, NEW rows \in Seq(R), NEW L \in Nat, L = Len(rows), NEW p, GoodRows(rows, p),
           IsPaged(rows), NEW m, m = Metadata(rows, p)
    PROVE  Describes(DecodePart(m), RestRows(rows, p))
<1> DEFINE B == RestRows(rows, p)
<1>a. Described(m, rows, L, p)
  BY BatchDescribed
<1>1. /\ p \in 0 .. L /\ p \in Nat
      /\ \A i \in 1 .. L : PagedRow(rows[i])
      /\ \A i \in p + 1 .. L : rows[i].num_new_tokens = 1
      /\ KvIndptr(m) \in [1 .. L + 1 -> Nat]
      /\ Indexed(KvIndptr(m), PageIndices(m), rows)
      /\ m.num_prefill_kv_blocks = KvIndptr(m)[p + 1]
      /\ PageIndices(m) \in Seq(Nat) /\ Len(PageIndices(m)) = KvIndptr(m)[L + 1]
      /\ LastPageLen(m) = LastPages(rows) /\ m.num_prefill_seqs = p
      /\ m.seq_lens = Contexts(rows)
  BY <1>a DEF Described
<1>2. PICK n \in Nat : n = L - p /\ p + n = L
  <2>1. L - p \in Nat /\ p + (L - p) = L
    BY <1>1
  <2> QED  BY <2>1
<1>b. L + 1 \in Nat
  OBVIOUS
<1>3. PICK k \in Seq(Nat) : k = KvIndptr(m) /\ Len(k) = L + 1
  BY <1>1, <1>b, SequenceOf, Zenon
<1>4. \A i \in 1 .. L + 1 : k[i] \in Nat
  BY <1>1, <1>3
<1>5. PICK x \in Seq(Nat) : x = PageIndices(m) /\ Len(x) = k[L + 1]
  BY <1>1, <1>3
<1>6. Len(B) = n /\ \A i \in 1 .. n : B[i] = rows[p + i] /\ p + i \in 1 .. L
  BY <1>1, <1>2 DEF RestRows
<1> HIDE DEF B
<1>7. PICK c \in Nat : c = k[p + 1]
  <2>1. p + 1 \in 1 .. L + 1
    BY <1>1
  <2> QED  BY <1>4, <2>1
<1>8. PICK h : /\ h = RowsAfter(k, p) /\ Len(h) = n + 1
               /\ \A i \in 1 .. n + 1 : h[i] = k[p + i] - c
  <2>1. PICK h : h = RowsAfter(k, p)
    OBVIOUS
  <2>2. Len(k) - p = n + 1
    BY <1>1, <1>2, <1>3
  <2>3. h = [i \in 1 .. n + 1 |-> k[p + i] - k[p + 1]]
    BY <2>1, <2>2 DEF RowsAfter
  <2>4. Len(h) = n + 1
    BY <2>3
  <2>5. \A i \in 1 .. n + 1 : h[i] = k[p + i] - c
    BY <1>7, <2>3
  <2> QED  BY <2>1, <2>4, <2>5
<1>9. PICK y : /\ y = SubSeq(x, c + 1, Len(x))
               /\ \A z \in 1 .. Len(x) - c : y[z] = x[c + z]
  <2>1. PICK y : y = SubSeq(x, c + 1, Len(x))
    OBVIOUS
  <2>2. ASSUME NEW z \in 1 .. Len(x) - c PROVE y[z] = x[c + z]
    BY <2>1
  <2> QED  BY <2>1, <2>2
<1>10. Indexed(h, y, B)
  <2> SUFFICES ASSUME NEW i \in 1 .. n
               PROVE  /\ h[i] \in Nat /\ h[i + 1] = h[i] + Len(B[i].block_table)
                      /\ \A z \in 1 .. Len(B[i].block_table) :
                            y[h[i] + z] = B[i].block_table[z]
    BY <1>6 DEF Indexed
  <2>1. p + i \in 1 .. L /\ p + i \in 1 .. L + 1 /\ (p + i) + 1 = p + (i + 1)
        /\ i \in 1 .. n + 1 /\ i + 1 \in 1 .. n + 1 /\ L + 1 \in 1 .. L + 1
        /\ p + (i + 1) \in 1 .. L + 1 /\ B[i] = rows[p + i]
    BY <1>1, <1>2, <1>6
  <2>2. /\ k[(p + i) + 1] = k[p + i] + Len(rows[p + i].block_table)
        /\ \A z \in 1 .. Len(rows[p + i].block_table) :
                x[k[p + i] + z] = rows[p + i].block_table[z]
    BY <1>1, <1>3, <1>5, <2>1 DEF Indexed
  <2>3. PICK a \in Nat, b \in Nat, e \in Nat, l \in Nat :
            /\ a = k[p + i] /\ b = k[(p + i) + 1] /\ e = Len(x)
            /\ l = Len(rows[p + i].block_table) /\ b = a + l
    <3>1. Len(rows[p + i].block_table) \in Nat
      <4>1. PagedRow(rows[p + i])
        BY <1>1, <2>1
      <4> QED  BY <4>1 DEF PagedRow, GoodRow
    <3>2. k[p + i] \in Nat
      BY <1>4, <2>1
    <3>3. k[(p + i) + 1] \in Nat
      <4>1. k[(p + i) + 1] = k[p + i] + Len(rows[p + i].block_table)
        BY <2>2
      <4>2. PICK u \in Nat, v \in Nat : u = k[p + i] /\ v = Len(rows[p + i].block_table)
        BY <3>1, <3>2, Zenon
      <4>3. u + v \in Nat
        OBVIOUS
      <4> QED  BY <4>1, <4>2, <4>3, Zenon
    <3>4. Len(x) \in Nat
      OBVIOUS
    <3> QED  BY <2>2, <3>1, <3>2, <3>3, <3>4
  <2>4. c <= a
    <3>1. CASE i = 1
      BY <1>7, <2>3, <3>1
    <3>2. CASE i # 1
      <4>1. PICK w \in Int : w = (p + i) - 1
        BY <1>1
      <4>2. w \in 0 .. L /\ p + 1 \in 1 .. w /\ w + 1 = p + i
        <5>1. p \in Nat /\ n \in Nat /\ p + n = L /\ i \in 1 .. n /\ i # 1
          BY <1>1, <1>2, <3>2
        <5> QED  BY <4>1, <5>1
      <4>3. c <= k[w + 1]
        BY <1>1, <1>3, <1>7, <4>2, LaterRows
      <4> QED  BY <2>3, <4>2, <4>3
    <3> QED  BY <3>1, <3>2
  <2>5. b <= e
    <3>1. L \in 0 .. L
      OBVIOUS
    <3>2. k[(p + i) + 1] <= k[L + 1]
      BY <1>1, <1>3, <2>1, <3>1, IndexedUp
    <3> QED  BY <1>5, <2>3, <3>2
  <2>6. h[i] = a - c /\ h[i + 1] = b - c
    BY <1>8, <2>1, <2>3
  <2>7. a - c \in Nat /\ b - c = (a - c) + l
    <3>1. b = a + l
      BY <2>3
    <3> QED  BY <2>4, <3>1
  <2>8. ASSUME NEW z \in 1 .. l PROVE y[(a - c) + z] = rows[p + i].block_table[z]
    <3>1. (a - c) + z \in 1 .. e - c /\ c + ((a - c) + z) = a + z
      <4>1. b = a + l
        BY <2>3
      <4> QED  BY <2>4, <2>5, <4>1
    <3>2. y[(a - c) + z] = x[c + ((a - c) + z)]
      BY <1>9, <2>3, <3>1
    <3> QED  BY <2>2, <2>3, <3>1, <3>2
  <2> QED  BY <2>1, <2>3, <2>6, <2>7, <2>8
<1>11. SubSeq(LastPageLen(m), p + 1, Len(m.seq_lens)) = LastPages(B)
  <2>1. PICK l : l = LastPages(rows) /\ l = [i \in 1 .. L |-> ((ContextEnd(rows[i]) - 1) % BlockSize) + 1]
    BY DEF LastPages
  <2>2. Len(m.seq_lens) = L
    BY <1>1 DEF Contexts
  <2>3. PICK s : s = SubSeq(l, p + 1, L)
    OBVIOUS
  <2>4. s = [i \in 1 .. n |-> l[p + i]]
    BY <1>1, <1>2, <2>1, <2>3
  <2>5. \A i \in 1 .. n : l[p + i] = ((ContextEnd(B[i]) - 1) % BlockSize) + 1
    BY <1>6, <2>1
  <2> QED  BY <1>1, <1>6, <2>1, <2>2, <2>3, <2>4, <2>5 DEF LastPages
<1>12. /\ \A i \in 1 .. Len(B) : PagedRow(B[i])
       /\ \A i \in 1 .. Len(B) : B[i].num_new_tokens = 1
  <2>1. ASSUME NEW i \in 1 .. n PROVE PagedRow(B[i]) /\ B[i].num_new_tokens = 1
    <3>1. p + i \in 1 .. L /\ p + i \in p + 1 .. L
      <4>1. p \in Nat /\ p + n = L
        BY <1>1, <1>2
      <4> QED  BY <4>1
    <3> QED  BY <1>1, <1>6, <3>1
  <2> QED  BY <1>6, <2>1
<1>13. DecodePart(m) = DecodeKernel(h, y, LastPages(B))
  BY <1>1, <1>3, <1>5, <1>7, <1>8, <1>9, <1>11 DEF DecodePart
<1>14. Describes(DecodeKernel(h, y, LastPages(B)), B)
  BY <1>6, <1>8, <1>10, <1>12, DecodeKernelDescribes
<1> QED  BY <1>13, <1>14 DEF B

(* What the wrappers of a route give, one after the other.                  *)
Attended(route, w, cache) ==
    FlattenSeq([i \in DOMAIN WrappersOf(route) |-> Attend(w[WrappersOf(route)[i]], cache)])

(* A route of one kernel that describes all rows computes them all.         *)
LEMMA KernelAttends ==
    ASSUME NEW rows, Len(rows) \in Nat, \A i \in 1 .. Len(rows) : PagedRow(rows[i]),
           NEW kernel, Describes(kernel, rows), NEW cache
    PROVE  FlattenSeq(<<Attend(kernel, cache)>>) = FlattenSeq(SeenOfRows(cache, rows))
<1>1. Attend(kernel, cache) = FlattenSeq(SeenOfRows(cache, rows))
  BY Attends
<1>2. Packs(SeenOfRows(cache, rows), Len(rows))
  BY SeenPacks
<1>3. PICK s : s = FlattenSeq(SeenOfRows(cache, rows))
  OBVIOUS
<1>4. Len(s) \in Nat /\ s = [t \in 1 .. Len(s) |-> s[t]]
  BY <1>2, <1>3, PackedAt
<1>5. FlattenSeq(<<s>>) = s
  BY <1>4, FlattenOne
<1> QED  BY <1>1, <1>3, <1>5

(* A route of two kernels, each for its part of the rows, does as well.     *)
LEMMA PartsAttend ==
    ASSUME NEW rows, NEW L \in Nat, L = Len(rows), \A i \in 1 .. L : PagedRow(rows[i]),
           NEW p \in 0 .. L, NEW a, Describes(a, FirstRows(rows, p)),
           NEW b, Describes(b, RestRows(rows, p)), NEW cache
    PROVE  FlattenSeq(<<Attend(a, cache), Attend(b, cache)>>)
                = FlattenSeq(SeenOfRows(cache, rows))
<1> DEFINE A == FirstRows(rows, p)
           B == RestRows(rows, p)
           seqs == SeenOfRows(cache, rows)
<1>1. p \in Nat /\ L - p \in Nat /\ p + (L - p) = L
  OBVIOUS
<1>2. Len(A) = p /\ \A i \in 1 .. p : A[i] = rows[i] /\ i \in 1 .. L
  BY <1>1 DEF FirstRows
<1>3. Len(B) = L - p /\ \A i \in 1 .. L - p : B[i] = rows[p + i] /\ p + i \in 1 .. L
  BY <1>1 DEF RestRows
<1>4. Describes(a, A) /\ Describes(b, B)
  OBVIOUS
<1>5. \A i \in 1 .. L : seqs[i] = SeenOf(cache, rows[i])
  BY DEF SeenOfRows
<1>6. Packs(seqs, L)
  BY SeenPacks
<1> HIDE DEF A, B, seqs
<1>7. \A i \in 1 .. Len(A) : PagedRow(A[i])
  BY <1>2
<1>8. \A i \in 1 .. Len(B) : PagedRow(B[i])
  BY <1>3
<1>9. Attend(a, cache) = FlattenSeq(SeenOfRows(cache, A))
  BY <1>1, <1>2, <1>4, <1>7, Attends
<1>10. Attend(b, cache) = FlattenSeq(SeenOfRows(cache, B))
  BY <1>1, <1>3, <1>4, <1>8, Attends
<1>11. SeenOfRows(cache, A) = [i \in 1 .. p |-> seqs[i]]
  <2>1. SeenOfRows(cache, A) = [i \in 1 .. p |-> SeenOf(cache, A[i])]
    BY <1>2 DEF SeenOfRows
  <2>2. \A i \in 1 .. p : SeenOf(cache, A[i]) = seqs[i]
    BY <1>2, <1>5
  <2> QED  BY <2>1, <2>2
<1>12. SeenOfRows(cache, B) = [i \in 1 .. L - p |-> seqs[p + i]]
  <2>1. SeenOfRows(cache, B) = [i \in 1 .. L - p |-> SeenOf(cache, B[i])]
    BY <1>3 DEF SeenOfRows
  <2>2. \A i \in 1 .. L - p : SeenOf(cache, B[i]) = seqs[p + i]
    BY <1>3, <1>5
  <2> QED  BY <2>1, <2>2
<1>13. FlattenSeq(<<FlattenSeq([i \in 1 .. p |-> seqs[i]]),
                    FlattenSeq([i \in 1 .. L - p |-> seqs[p + i]])>>) = FlattenSeq(seqs)
  BY <1>6, FlattenSplit, Zenon
<1> QED  BY <1>9, <1>10, <1>11, <1>12, <1>13, Zenon DEF seqs

(* Whatever the route: the kernels it plans see the keys of each row.        *)
THEOREM EveryRouteAttends ==
    ASSUME NEW R, NEW rows \in Seq(R), NEW p, GoodRows(rows, p), IsPaged(rows),
           NEW m, m = Metadata(rows, p), NEW unified, NEW route, route = Route(m, unified),
           NEW w, \A x \in DOMAIN Planned(m, route) : w[x] = Planned(m, route)[x], NEW cache
    PROVE  Attended(route, w, cache) = FlattenSeq(SeenOfRows(cache, rows))
<1>1. PICK L \in Nat : L = Len(rows)
  OBVIOUS
<1>2. Described(m, rows, L, p)
  BY <1>1, BatchDescribed
<1>3. /\ p \in 0 .. L /\ p \in Nat /\ \A i \in 1 .. L : PagedRow(rows[i])
      /\ \A i \in p + 1 .. L : rows[i].num_new_tokens = 1
      /\ m.num_prefill_seqs = p /\ m.num_decode_seqs = L - p /\ m.paged
      /\ Queried(m.query_start_loc, rows)
      /\ KvIndptr(m) \in [1 .. L + 1 -> Nat]
      /\ Indexed(KvIndptr(m), PageIndices(m), rows)
      /\ LastPageLen(m) = LastPages(rows) /\ m.seq_lens = Contexts(rows)
  BY <1>2 DEF Described
<1>4. /\ Len(rows) \in Nat /\ \A i \in 1 .. Len(rows) : PagedRow(rows[i])
      /\ KeysOf(KvIndptr(m), LastPageLen(m)) = Contexts(rows)
  BY <1>1, <1>3, CountedContexts
<1>5. route = IF BatchType(m) = "pure_prefill" THEN "prefill"
              ELSE IF BatchType(m) = "pure_decode" THEN "decode"
              ELSE IF unified THEN "mixed_unified" ELSE "mixed_split"
  BY <1>3 DEF Route
<1>6. Describes(Kernel(m.query_start_loc, KvIndptr(m), PageIndices(m), Contexts(rows)), rows)
  BY <1>3, KernelDescribes
<1>7. Describes(WholeBatch(m), rows)
  BY <1>4, <1>6 DEF WholeBatch
<1>8. Describes(UnifiedKernel(m), rows)
  BY <1>3, <1>6 DEF UnifiedKernel
<1>9. CASE route = "prefill"
  <2>1. Planned(m, route) = [prefill |-> WholeBatch(m)] /\ WrappersOf(route) = <<"prefill">>
    BY <1>9 DEF Planned, WrappersOf
  <2>2. w["prefill"] = WholeBatch(m)
    BY <2>1
  <2>3. Attended(route, w, cache) = FlattenSeq(<<Attend(WholeBatch(m), cache)>>)
    BY <2>1, <2>2 DEF Attended
  <2> QED  BY <1>4, <1>7, <2>3, KernelAttends
<1>10. CASE route = "decode"
  <2>1. /\ Planned(m, route) = [decode |-> DecodeKernel(KvIndptr(m), PageIndices(m), LastPageLen(m))]
        /\ WrappersOf(route) = <<"decode">>
    BY <1>10 DEF Planned, WrappersOf
  <2>2. PICK kernel : kernel = DecodeKernel(KvIndptr(m), PageIndices(m), LastPageLen(m))
    OBVIOUS
  <2>3. w["decode"] = kernel
    BY <2>1, <2>2
  <2>4. Attended(route, w, cache) = FlattenSeq(<<Attend(kernel, cache)>>)
    BY <2>1, <2>3 DEF Attended
  <2>5. p = 0
    BY <1>3, <1>5, <1>10 DEF BatchType
  <2>6. \A i \in 1 .. Len(rows) : rows[i].num_new_tokens = 1
    BY <1>1, <1>3, <2>5
  <2>7. PICK k : k = KvIndptr(m)
    OBVIOUS
  <2>8. Len(k) = Len(rows) + 1
    BY <1>1, <1>3, <2>7
  <2>9. Describes(DecodeKernel(k, PageIndices(m), LastPages(rows)), rows)
    BY <1>3, <1>4, <2>6, <2>7, <2>8, DecodeKernelDescribes
  <2>10. Describes(kernel, rows)
    BY <1>3, <2>2, <2>7, <2>9
  <2> QED  BY <1>4, <2>4, <2>10, KernelAttends
<1>11. CASE route = "mixed_unified"
  <2>1. Planned(m, route) = [mixed |-> UnifiedKernel(m)] /\ WrappersOf(route) = <<"mixed">>
    BY <1>11 DEF Planned, WrappersOf
  <2>2. w["mixed"] = UnifiedKernel(m)
    BY <2>1
  <2>3. Attended(route, w, cache) = FlattenSeq(<<Attend(UnifiedKernel(m), cache)>>)
    BY <2>1, <2>2 DEF Attended
  <2> QED  BY <1>4, <1>8, <2>3, KernelAttends
<1>12. CASE route = "mixed_split"
  <2>1. /\ Planned(m, route) = [prefill |-> PrefillPart(m), decode |-> DecodePart(m)]
        /\ WrappersOf(route) = <<"prefill", "decode">>
    BY <1>12 DEF Planned, WrappersOf
  <2>2. w["prefill"] = PrefillPart(m) /\ w["decode"] = DecodePart(m)
    BY <2>1
  <2>3. Attended(route, w, cache)
            = FlattenSeq(<<Attend(PrefillPart(m), cache), Attend(DecodePart(m), cache)>>)
    BY <2>1, <2>2 DEF Attended
  <2>4. Describes(PrefillPart(m), FirstRows(rows, p))
    BY <1>1, PrefillPartDescribes
  <2>5. Describes(DecodePart(m), RestRows(rows, p))
    BY <1>1, DecodePartDescribes
  <2>6. PICK a : a = PrefillPart(m)
    OBVIOUS
  <2>7. PICK b : b = DecodePart(m)
    OBVIOUS
  <2>8. Describes(a, FirstRows(rows, p)) /\ Describes(b, RestRows(rows, p))
    BY <2>4, <2>5, <2>6, <2>7
  <2>9. FlattenSeq(<<Attend(a, cache), Attend(b, cache)>>)
            = FlattenSeq(SeenOfRows(cache, rows))
    <3>1. p \in 0 .. L /\ \A i \in 1 .. L : PagedRow(rows[i])
      BY <1>3
    <3> QED  BY <1>1, <2>8, <3>1, PartsAttend
  <2> QED  BY <2>3, <2>6, <2>7, <2>9
<1> QED  BY <1>5, <1>9, <1>10, <1>11, <1>12

-----------------------------------------------------------------------------

(* The input of a batch, its reference, and the store into the cache.       *)

(* Rows with enough tokens, their packed inputs and their reference.        *)
TokenRow(row) ==
    /\ row.num_cached_tokens \in Nat /\ row.num_new_tokens \in Nat
    /\ row.token_ids \in Seq(Int) /\ ContextEnd(row) <= Len(row.token_ids)
IdLists(rows) == [i \in DOMAIN rows |-> InputIds(rows[i])]
PositionLists(rows) == [i \in DOMAIN rows |-> Positions(rows[i])]
ReferenceRow(row) ==
    [j \in 1 .. row.num_new_tokens |-> Reference(row.token_ids, row.num_cached_tokens + j)]
KeysTo(row, n) == [x \in 1 .. n |-> KeyOf(row.token_ids[x], x - 1)]
ReferenceSeen(row) ==
    [j \in 1 .. row.num_new_tokens |-> KeysTo(row, row.num_cached_tokens + j)]

(* The input of a row: its new tokens and their positions.                  *)
LEMMA InputsOfRow ==
    ASSUME NEW row, TokenRow(row)
    PROVE  /\ Len(InputIds(row)) = row.num_new_tokens
           /\ InputIds(row) = [j \in 1 .. row.num_new_tokens |-> InputIds(row)[j]]
           /\ \A j \in 1 .. row.num_new_tokens :
                InputIds(row)[j] = row.token_ids[row.num_cached_tokens + j]
           /\ Len(Positions(row)) = row.num_new_tokens
           /\ Positions(row) = [j \in 1 .. row.num_new_tokens |-> Positions(row)[j]]
           /\ \A j \in 1 .. row.num_new_tokens :
                Positions(row)[j] = row.num_cached_tokens + j - 1
<1>1. PICK c \in Nat, n \in Nat, t \in Seq(Int) :
          /\ c = row.num_cached_tokens /\ n = row.num_new_tokens /\ t = row.token_ids
          /\ c + n <= Len(t)
  BY DEF TokenRow, ContextEnd
<1>2. PICK s : s = SubSeq(t, c + 1, c + n)
  OBVIOUS
<1>3. InputIds(row) = s
  BY <1>1, <1>2 DEF InputIds, ContextEnd
<1>4. s \in Seq(Int) /\ Len(s) = n /\ \A j \in 1 .. n : s[j] = t[c + j]
  <2>1. Len(t) \in Nat /\ c + 1 \in 1 .. Len(t) + 1 /\ c + n \in 0 .. Len(t)
        /\ (c + n) - (c + 1) + 1 = n
    <3>1. PICK l \in Nat : l = Len(t)
      OBVIOUS
    <3>2. c + n <= l
      BY <1>1, <3>1
    <3>3. c + 1 \in 1 .. l + 1 /\ c + n \in 0 .. l /\ (c + n) - (c + 1) + 1 = n
      BY <3>2
    <3> QED  BY <3>1, <3>3
  <2>2. s \in Seq(Int)
    BY <1>2, <2>1
  <2>3. Len(s) = n
    BY <1>2, <2>1
  <2>4. ASSUME NEW j \in 1 .. n PROVE s[j] = t[c + j]
    <3>1. (c + 1) + j - 1 = c + j
      OBVIOUS
    <3> QED  BY <1>2, <2>1, <3>1
  <2> QED  BY <2>2, <2>3, <2>4
<1>5. s = [j \in 1 .. n |-> s[j]]
  BY <1>4
<1>6. Positions(row) = [j \in 1 .. n |-> c + j - 1]
  BY <1>1 DEF Positions
<1>7. PICK q : q = [j \in 1 .. n |-> c + j - 1]
  OBVIOUS
<1>8. Len(q) = n /\ q = [j \in 1 .. n |-> q[j]] /\ \A j \in 1 .. n : q[j] = c + j - 1
  BY <1>7
<1> QED  BY <1>1, <1>3, <1>4, <1>5, <1>6, <1>7, <1>8

(* With the keys of its own request before it, every query is computed as    *)
(* the reference has it.                                                   *)
LEMMA ReferenceOfRows ==
    ASSUME NEW rows, NEW L \in Nat, DOMAIN rows = 1 .. L,
           \A i \in 1 .. L : TokenRow(rows[i])
    PROVE  Hidden(FlattenSeq(IdLists(rows)), FlattenSeq(PositionLists(rows)),
                  FlattenSeq([i \in 1 .. L |-> ReferenceSeen(rows[i])])) = ReferenceBatch(rows)
<1> DEFINE ids == IdLists(rows)
           positions == PositionLists(rows)
           seen == [i \in 1 .. L |-> ReferenceSeen(rows[i])]
           ref == [i \in 1 .. L |-> ReferenceRow(rows[i])]
<1>1. /\ ids = [i \in 1 .. L |-> ids[i]] /\ \A i \in 1 .. L : ids[i] = InputIds(rows[i])
      /\ positions = [i \in 1 .. L |-> positions[i]]
      /\ \A i \in 1 .. L : positions[i] = Positions(rows[i])
      /\ seen = [i \in 1 .. L |-> seen[i]] /\ \A i \in 1 .. L : seen[i] = ReferenceSeen(rows[i])
      /\ ref = [i \in 1 .. L |-> ref[i]] /\ \A i \in 1 .. L : ref[i] = ReferenceRow(rows[i])
  BY DEF IdLists, PositionLists
<1>2. ReferenceBatch(rows) = FlattenSeq(ref)
  BY DEF ReferenceBatch, ReferenceRow
<1> HIDE DEF ids, positions, seen, ref
<1>3. ASSUME NEW i \in 1 .. L
      PROVE  /\ Sequenced(ids[i]) /\ Sequenced(positions[i])
             /\ Sequenced(seen[i]) /\ Sequenced(ref[i])
             /\ Len(ids[i]) = Len(ref[i]) /\ Len(positions[i]) = Len(ref[i])
             /\ Len(seen[i]) = Len(ref[i])
             /\ \A j \in 1 .. Len(ref[i]) :
                    ref[i][j] = [id |-> ids[i][j], position |-> positions[i][j],
                                 seen |-> seen[i][j]]
  <2>1. PICK row : row = rows[i]
    OBVIOUS
  <2>2. TokenRow(row)
    BY <2>1
  <2>3. PICK c \in Nat, n \in Nat : c = row.num_cached_tokens /\ n = row.num_new_tokens
    BY <2>2 DEF TokenRow
  <2>4. PICK a : a = InputIds(row)
    OBVIOUS
  <2>5. PICK b : b = Positions(row)
    OBVIOUS
  <2>6. PICK s : s = ReferenceSeen(row)
    OBVIOUS
  <2>7. PICK f : f = ReferenceRow(row)
    OBVIOUS
  <2>8. /\ Len(a) = n /\ a = [j \in 1 .. n |-> a[j]]
        /\ \A j \in 1 .. n : a[j] = row.token_ids[c + j]
        /\ Len(b) = n /\ b = [j \in 1 .. n |-> b[j]]
        /\ \A j \in 1 .. n : b[j] = c + j - 1
    BY <2>2, <2>3, <2>4, <2>5, InputsOfRow
  <2>9. s = [j \in 1 .. n |-> s[j]] /\ Len(s) = n /\ \A j \in 1 .. n : s[j] = KeysTo(row, c + j)
    BY <2>3, <2>6 DEF ReferenceSeen
  <2>10. /\ f = [j \in 1 .. n |-> f[j]] /\ Len(f) = n
         /\ \A j \in 1 .. n : f[j] = Reference(row.token_ids, c + j)
    BY <2>3, <2>7 DEF ReferenceRow
  <2>11. ASSUME NEW j \in 1 .. n
         PROVE  f[j] = [id |-> a[j], position |-> b[j], seen |-> s[j]]
    <3>1. f[j] = [id |-> row.token_ids[c + j], position |-> (c + j) - 1,
                  seen |-> KeysTo(row, c + j)]
      BY <2>10 DEF Reference, KeysTo
    <3> QED  BY <2>8, <2>9, <3>1
  <2>12. ids[i] = a /\ positions[i] = b /\ seen[i] = s /\ ref[i] = f
    BY <1>1, <2>1, <2>4, <2>5, <2>6, <2>7
  <2>13. Sequenced(a) /\ Sequenced(b) /\ Sequenced(s) /\ Sequenced(f)
    BY <2>8, <2>9, <2>10 DEF Sequenced
  <2> QED  BY <2>8, <2>9, <2>10, <2>11, <2>12, <2>13
<1>4. Packs(ids, L) /\ Packs(positions, L) /\ Packs(seen, L) /\ Packs(ref, L)
  <2>1. /\ \A i \in 1 .. L : Sequenced(ids[i])
        /\ \A i \in 1 .. L : Sequenced(positions[i])
        /\ \A i \in 1 .. L : Sequenced(seen[i])
        /\ \A i \in 1 .. L : Sequenced(ref[i])
    BY <1>3
  <2> QED  BY <1>1, <2>1, PackingOf
<1>5. Hidden(FlattenSeq(ids), FlattenSeq(positions), FlattenSeq(seen)) = FlattenSeq(ref)
  <2>1. \A i \in 1 .. L : /\ Len(ids[i]) = Len(ref[i]) /\ Len(positions[i]) = Len(ref[i])
                          /\ Len(seen[i]) = Len(ref[i])
    BY <1>3
  <2>2. \A i \in 1 .. L : \A j \in 1 .. Len(ref[i]) :
            ref[i][j] = [id |-> ids[i][j], position |-> positions[i][j], seen |-> seen[i][j]]
    BY <1>3
  <2> QED  BY <1>4, <2>1, <2>2, HiddenOfRows
<1> QED  BY <1>2, <1>5 DEF ids, positions, seen

(* The cache holds the keys of a row where its pages say.                   *)
HoldsKeys(cache, row) ==
    \A x \in 1 .. ContextEnd(row) : CachedKey(cache, row, x) = KeyOf(row.token_ids[x], x - 1)

(* A pass over a cache that holds the keys of its rows, where their pages   *)
(* say, computes the reference.                                             *)
THEOREM PagedReference ==
    ASSUME NEW rows, NEW L \in Nat, DOMAIN rows = 1 .. L, L = Len(rows),
           \A i \in 1 .. L : TokenRow(rows[i]),
           NEW cache, \A i \in 1 .. L : HoldsKeys(cache, rows[i])
    PROVE  Hidden(FlattenSeq(IdLists(rows)), FlattenSeq(PositionLists(rows)),
                  FlattenSeq(SeenOfRows(cache, rows))) = ReferenceBatch(rows)
<1>1. ASSUME NEW i \in 1 .. L PROVE SeenOf(cache, rows[i]) = ReferenceSeen(rows[i])
  <2>1. PICK row : row = rows[i]
    OBVIOUS
  <2>2. PICK c \in Nat, n \in Nat :
            c = row.num_cached_tokens /\ n = row.num_new_tokens /\ ContextEnd(row) = c + n
    BY <2>1 DEF TokenRow, ContextEnd
  <2>3. \A x \in 1 .. c + n : CachedKey(cache, row, x) = KeyOf(row.token_ids[x], x - 1)
    BY <2>1, <2>2 DEF HoldsKeys
  <2> DEFINE C(x) == CachedKey(cache, row, x)
             K(x) == KeyOf(row.token_ids[x], x - 1)
  <2>4. \A x \in 1 .. c + n : C(x) = K(x)
    BY <2>3
  <2>5. SeenOf(cache, row) = [j \in 1 .. n |-> [x \in 1 .. c + j |-> C(x)]]
    BY <2>2 DEF SeenOf
  <2>6. ReferenceSeen(row) = [j \in 1 .. n |-> [x \in 1 .. c + j |-> K(x)]]
    BY <2>2 DEF ReferenceSeen, KeysTo
  <2> HIDE DEF C, K
  <2>7. ASSUME NEW j \in 1 .. n
        PROVE  [x \in 1 .. c + j |-> C(x)] = [x \in 1 .. c + j |-> K(x)]
    <3>1. \A x \in 1 .. c + j : x \in 1 .. c + n
      OBVIOUS
    <3>2. \A x \in 1 .. c + j : C(x) = K(x)
      BY <2>4, <3>1
    <3> QED  BY <3>2
  <2> QED  BY <2>1, <2>5, <2>6, <2>7
<1>2. SeenOfRows(cache, rows) = [i \in 1 .. L |-> ReferenceSeen(rows[i])]
  BY <1>1 DEF SeenOfRows
<1> QED  BY <1>2, ReferenceOfRows

(* The page and the slot of the token at position p.                        *)
PageOf(q, p) == q.block_table[(p \div BlockSize) + 1]
SlotOf(q, p) == (PageOf(q, p) * BlockSize) + (p % BlockSize)

(* The slot that is prepared for a new token is the one it is read from.     *)
LEMMA SlotOfToken ==
    ASSUME NEW row, PagedRow(row), NEW c \in Nat, c = row.num_cached_tokens,
           NEW p \in c .. ContextEnd(row) - 1
    PROVE  /\ (p - c) + 1 \in 1 .. Len(SlotMapping(row))
           /\ SlotMapping(row)[(p - c) + 1] = SlotOf(row, p)
<1>1. PICK B \in Nat \ {0} : B = BlockSize
  BY BlockSizeAssumption
<1>2. PICK n \in Nat \ {0} : n = row.num_new_tokens
  BY DEF PagedRow, GoodRow
<1>3. PICK e \in Nat : e = c + n /\ e = ContextEnd(row)
  BY <1>2 DEF ContextEnd
<1>4. p \in Nat /\ c <= p /\ p < e /\ p \in 0 .. ContextEnd(row) - 1
  BY <1>3
<1>5. PICK a \in Nat, s \in 0 .. B - 1 : a = p \div B /\ s = p % B
  BY <1>1, <1>4, QuotientFacts
<1>6. PICK A \in Nat : A = a * B /\ p = A + s /\ (a + 1) * B = A + B
  <2>1. a * B \in Nat /\ (a + 1) * B = a * B + B
    BY <1>1, <1>5, ProductFacts
  <2>2. p = a * B + s
    <3>1. p = (p \div B) * B + (p % B)
      BY <1>1, <1>4, QuotientFacts, Zenon
    <3> QED  BY <1>5, <3>1, Zenon
  <2> QED  BY <2>1, <2>2
<1>7. PICK k \in Nat : k = Len(row.block_table)
  BY DEF PagedRow, GoodRow
<1>8. a + 1 \in 1 .. k
  <2>1. (p \div BlockSize) + 1 \in 1 .. Len(row.block_table)
    BY <1>4, PageInTable
  <2> QED  BY <1>1, <1>5, <1>7, <2>1
<1>9. PICK q \in Nat, u \in 0 .. B - 1 : q = c \div B /\ u = c % B
  BY <1>1, QuotientFacts
<1>10. PICK Q \in Nat : Q = q * B /\ c = Q + u
  <2>1. q * B \in Nat
    BY <1>1, <1>9, ProductFacts
  <2>2. c = q * B + u
    <3>1. c = (c \div B) * B + (c % B)
      BY <1>1, QuotientFacts, Zenon
    <3> QED  BY <1>9, <3>1, Zenon
  <2> QED  BY <2>1, <2>2
<1>11. q <= a
  <2> SUFFICES ASSUME a < q PROVE FALSE
    BY <1>5, <1>9
  <2>1. A + B <= Q
    BY <1>1, <1>5, <1>6, <1>9, <1>10, ProductFacts
  <2> QED  BY <1>1, <1>4, <1>5, <1>6, <1>9, <1>10, <2>1
<1>12. a + 1 \in (row.num_cached_tokens \div BlockSize) + 1 .. Len(row.block_table)
  BY <1>1, <1>5, <1>7, <1>8, <1>9, <1>11
<1>13. ((a + 1) - 1) * BlockSize = A
  BY <1>1, <1>5, <1>6
<1>14. p \in PageFirst(row, a + 1) .. PageLast(row, a + 1) - 1
  <2>1. PageFirst(row, a + 1) \in Int /\ PageFirst(row, a + 1) <= p
    <3>1. PageFirst(row, a + 1) = c \/ PageFirst(row, a + 1) = A
      BY <1>13 DEF PageFirst
    <3> QED  BY <1>4, <1>5, <1>6, <3>1
  <2>2. PageLast(row, a + 1) \in Int /\ p < PageLast(row, a + 1)
    <3>1. PageLast(row, a + 1) = e \/ PageLast(row, a + 1) = A + B
      BY <1>1, <1>3, <1>6 DEF PageLast
    <3> QED  BY <1>1, <1>4, <1>5, <1>6, <3>1
  <2> QED  BY <1>4, <2>1, <2>2
<1>15. /\ p - row.num_cached_tokens + 1 \in 1 .. row.num_new_tokens
       /\ SlotMapping(row)[p - row.num_cached_tokens + 1] =
            row.block_table[a + 1] * BlockSize + (p - ((a + 1) - 1) * BlockSize)
       /\ Len(SlotMapping(row)) = row.num_new_tokens
  BY <1>12, <1>14, SlotsOfPagedRow DEF PagedRow
<1>16. p - ((a + 1) - 1) * BlockSize = s
  BY <1>5, <1>6, <1>13
<1>17. SlotOf(row, p) = (row.block_table[a + 1] * BlockSize) + s
  BY <1>1, <1>5 DEF SlotOf, PageOf
<1> QED  BY <1>15, <1>16, <1>17

(* What the store kernel does with the rows of a batch: the tokens that are   *)
(* written to a slot, and their keys.                                      *)
Written(rows, slot) ==
    \E i \in 1 .. Len(rows) :
        \E p \in rows[i].num_cached_tokens .. ContextEnd(rows[i]) - 1 :
            SlotOf(rows[i], p) = slot
WritesOnly(rows, slot, key) ==
    \A i \in 1 .. Len(rows) :
        \A p \in rows[i].num_cached_tokens .. ContextEnd(rows[i]) - 1 :
            SlotOf(rows[i], p) = slot => KeyOf(rows[i].token_ids[p + 1], p) = key

(* After the store kernel a slot of the cache holds a key if every token    *)
(* that is written to it has that key, and one is, or the slot had it       *)
(* before: the order of the tokens does not matter.                         *)
THEOREM StoreOfRows ==
    ASSUME NEW R, NEW rows \in Seq(R), NEW p, GoodRows(rows, p), IsPaged(rows),
           \A i \in 1 .. Len(rows) : TokenRow(rows[i]),
           NEW ids, ids = FlattenSeq(IdLists(rows)),
           NEW positions, positions = FlattenSeq(PositionLists(rows)),
           NEW cache, NEW slot \in DOMAIN cache, NEW key, WritesOnly(rows, slot, key),
           cache[slot] = key \/ Written(rows, slot)
    PROVE  Store(cache, ids, positions, FlattenSeq(SlotLists(rows)))[slot] = key
<1> DEFINE slots == SlotLists(rows)
           S == FlattenSeq(slots)
<1>1. PICK L \in Nat : L = Len(rows) /\ DOMAIN rows = 1 .. L
  OBVIOUS
<1>2. \A i \in 1 .. L : PagedRow(rows[i]) /\ TokenRow(rows[i])
  BY <1>1 DEF GoodRows, PagedRow
<1>3. slots = [i \in 1 .. L |-> slots[i]] /\ \A i \in 1 .. L : slots[i] = SlotMapping(rows[i])
  BY <1>1 DEF SlotLists
<1>4. PICK a : a = IdLists(rows)
  OBVIOUS
<1>5. PICK b : b = PositionLists(rows)
  OBVIOUS
<1>6. /\ a = [i \in 1 .. L |-> a[i]] /\ \A i \in 1 .. L : a[i] = InputIds(rows[i])
      /\ b = [i \in 1 .. L |-> b[i]] /\ \A i \in 1 .. L : b[i] = Positions(rows[i])
  BY <1>1, <1>4, <1>5 DEF IdLists, PositionLists
<1> HIDE DEF slots
<1>7. ASSUME NEW i \in 1 .. L
      PROVE  /\ Sequenced(slots[i]) /\ Len(slots[i]) = rows[i].num_new_tokens
             /\ Sequenced(a[i]) /\ Len(a[i]) = rows[i].num_new_tokens
             /\ Sequenced(b[i]) /\ Len(b[i]) = rows[i].num_new_tokens
  <2>1. PICK n \in Nat : n = rows[i].num_new_tokens
    BY <1>2 DEF TokenRow
  <2>2. PICK s \in Seq(Nat) : s = SlotMapping(rows[i]) /\ Len(s) = n
    BY <1>2, <2>1, SlotsOfPagedRow DEF PagedRow
  <2>3. s = [j \in 1 .. n |-> s[j]]
    BY <2>2
  <2>4. PICK x : x = InputIds(rows[i])
    OBVIOUS
  <2>5. PICK y : y = Positions(rows[i])
    OBVIOUS
  <2>6. Len(x) = n /\ x = [j \in 1 .. n |-> x[j]] /\ Len(y) = n /\ y = [j \in 1 .. n |-> y[j]]
    BY <1>2, <2>1, <2>4, <2>5, InputsOfRow
  <2>7. Sequenced(s) /\ Sequenced(x) /\ Sequenced(y)
    BY <2>2, <2>3, <2>6 DEF Sequenced
  <2> QED  BY <1>3, <1>6, <2>1, <2>2, <2>4, <2>5, <2>6, <2>7
<1>8. Packs(slots, L) /\ Packs(a, L) /\ Packs(b, L)
  <2>1. /\ \A i \in 1 .. L : Sequenced(slots[i])
        /\ \A i \in 1 .. L : Sequenced(a[i])
        /\ \A i \in 1 .. L : Sequenced(b[i])
    BY <1>7
  <2> QED  BY <1>3, <1>6, <2>1, PackingOf
<1>9. LengthsOf(a) = LengthsOf(slots) /\ LengthsOf(b) = LengthsOf(slots)
  <2>1. Len(a) = L /\ Len(b) = L /\ Len(slots) = L
    BY <1>8, PacksTyped
  <2>2. \A i \in 1 .. L : Len(a[i]) = Len(slots[i]) /\ Len(b[i]) = Len(slots[i])
    BY <1>7
  <2> QED  BY <2>1, <2>2 DEF LengthsOf
<1>10. PICK O : O = Offsets(LengthsOf(slots))
  OBVIOUS
<1>11. \A i \in 1 .. L : \A j \in 1 .. Len(slots[i]) :
            /\ O[i] + j \in DOMAIN S /\ S[O[i] + j] = slots[i][j]
            /\ ids[O[i] + j] = a[i][j] /\ positions[O[i] + j] = b[i][j]
  <2> SUFFICES ASSUME NEW i \in 1 .. L, NEW j \in 1 .. Len(slots[i])
               PROVE  /\ O[i] + j \in DOMAIN S /\ S[O[i] + j] = slots[i][j]
                      /\ ids[O[i] + j] = a[i][j] /\ positions[O[i] + j] = b[i][j]
    OBVIOUS
  <2>1. Places(slots, L, S) /\ Places(a, L, ids) /\ Places(b, L, positions)
    BY <1>4, <1>5, <1>8, FlattenPlaces
  <2>2. j \in 1 .. Len(a[i]) /\ j \in 1 .. Len(b[i])
    BY <1>7
  <2>3. S[O[i] + j] = slots[i][j]
    BY <1>10, <2>1 DEF Places
  <2>4. ids[O[i] + j] = a[i][j]
    BY <1>9, <1>10, <2>1, <2>2 DEF Places
  <2>5. positions[O[i] + j] = b[i][j]
    BY <1>9, <1>10, <2>1, <2>2 DEF Places
  <2>6. O[i] + j \in 1 .. Len(S) /\ S = [t \in 1 .. Len(S) |-> S[t]]
    BY <1>8, <1>10, PackedAt
  <2>7. DOMAIN S = 1 .. Len(S)
    BY <2>6
  <2> QED  BY <2>3, <2>4, <2>5, <2>6, <2>7
<1>12. \A t \in DOMAIN S : \E i \in 1 .. L : \E j \in 1 .. Len(slots[i]) : t = O[i] + j
  <2>1. S = [t \in 1 .. Len(S) |-> S[t]]
    BY <1>8, PackedAt
  <2>2. DOMAIN S = 1 .. Len(S)
    BY <2>1
  <2>3. \A t \in 1 .. Len(FlattenSeq(slots)) :
            \E i \in 1 .. L : \E j \in 1 .. Len(slots[i]) :
                t = Offsets(LengthsOf(slots))[i] + j
    <3> HIDE DEF S
    <3> QED  BY <1>8, PackedAt, Zenon
  <2> QED  BY <1>10, <2>2, <2>3
<1> HIDE DEF S
\* The token behind a place of the batch.
<1>13. ASSUME NEW i \in 1 .. L, NEW j \in 1 .. Len(slots[i])
       PROVE  \E x \in rows[i].num_cached_tokens .. ContextEnd(rows[i]) - 1 :
                /\ x = rows[i].num_cached_tokens + j - 1
                /\ slots[i][j] = SlotOf(rows[i], x)
                /\ a[i][j] = rows[i].token_ids[x + 1] /\ b[i][j] = x
  <2>1. PICK c \in Nat, n \in Nat :
            c = rows[i].num_cached_tokens /\ n = rows[i].num_new_tokens
            /\ ContextEnd(rows[i]) = c + n
    BY <1>2 DEF TokenRow, ContextEnd
  <2>2. j \in 1 .. n
    BY <1>7, <2>1
  <2>3. PICK x \in c .. (c + n) - 1 : x = c + j - 1 /\ (x - c) + 1 = j /\ x + 1 = c + j
    <3>1. c + j - 1 \in c .. (c + n) - 1 /\ ((c + j - 1) - c) + 1 = j /\ (c + j - 1) + 1 = c + j
      BY <2>2
    <3> QED  BY <3>1
  <2>4. x \in c .. ContextEnd(rows[i]) - 1
    BY <2>1
  <2>5. slots[i][j] = SlotOf(rows[i], x)
    <3>1. PagedRow(rows[i]) /\ slots[i] = SlotMapping(rows[i])
      BY <1>2, <1>3
    <3>2. SlotMapping(rows[i])[(x - c) + 1] = SlotOf(rows[i], x)
      BY <2>1, <2>4, <3>1, SlotOfToken
    <3> QED  BY <2>3, <3>1, <3>2
  <2>6. a[i][j] = rows[i].token_ids[c + j] /\ b[i][j] = c + j - 1
    <3>1. TokenRow(rows[i]) /\ a[i] = InputIds(rows[i]) /\ b[i] = Positions(rows[i])
      BY <1>2, <1>6
    <3>2. /\ \A z \in 1 .. rows[i].num_new_tokens :
                InputIds(rows[i])[z] = rows[i].token_ids[rows[i].num_cached_tokens + z]
          /\ \A z \in 1 .. rows[i].num_new_tokens :
                Positions(rows[i])[z] = rows[i].num_cached_tokens + z - 1
      BY <3>1, InputsOfRow
    <3> QED  BY <2>1, <2>2, <3>1, <3>2
  <2> QED  BY <2>1, <2>3, <2>4, <2>5, <2>6
<1>14. ASSUME NEW t \in DOMAIN S, S[t] = slot PROVE KeyOf(ids[t], positions[t]) = key
  <2>0. PICK i \in 1 .. L : \E j \in 1 .. Len(slots[i]) : t = O[i] + j
    BY <1>12
  <2>1. PICK j \in 1 .. Len(slots[i]) : t = O[i] + j
    BY <2>0
  <2>2. S[t] = slots[i][j] /\ ids[t] = a[i][j] /\ positions[t] = b[i][j]
    BY <1>11, <2>1
  <2>3. PICK x \in rows[i].num_cached_tokens .. ContextEnd(rows[i]) - 1 :
            /\ slots[i][j] = SlotOf(rows[i], x)
            /\ a[i][j] = rows[i].token_ids[x + 1] /\ b[i][j] = x
    BY <1>13
  <2>4. KeyOf(rows[i].token_ids[x + 1], x) = key
    BY <1>1, <1>14, <2>2, <2>3 DEF WritesOnly
  <2> QED  BY <2>2, <2>3, <2>4
<1>15. Written(rows, slot) => \E t \in DOMAIN S : S[t] = slot
  <2> SUFFICES ASSUME Written(rows, slot) PROVE \E t \in DOMAIN S : S[t] = slot
    OBVIOUS
  <2>1. PICK i \in 1 .. L : \E x \in rows[i].num_cached_tokens .. ContextEnd(rows[i]) - 1 :
            SlotOf(rows[i], x) = slot
    BY <1>1 DEF Written
  <2>2. PICK c \in Nat : c = rows[i].num_cached_tokens
    BY <1>2 DEF TokenRow
  <2>3. PICK x \in c .. ContextEnd(rows[i]) - 1 : SlotOf(rows[i], x) = slot
    BY <2>1, <2>2
  <2>4. PICK j : j = (x - c) + 1
    OBVIOUS
  <2>5. j \in 1 .. Len(slots[i]) /\ slots[i][j] = slot
    BY <1>2, <1>3, <2>2, <2>3, <2>4, SlotOfToken
  <2>6. O[i] + j \in DOMAIN S /\ S[O[i] + j] = slot
    BY <1>11, <2>5
  <2> QED  BY <2>6
<1> DEFINE W == {j \in DOMAIN S : S[j] = slot}
<1>16. Store(cache, ids, positions, S)[slot]
            = IF W = {} THEN cache[slot]
              ELSE KeyOf(ids[CHOOSE j \in W : TRUE], positions[CHOOSE j \in W : TRUE])
  BY DEF Store
<1>17. CASE W = {}
  <2>1. ~Written(rows, slot)
    BY <1>15, <1>17
  <2>2. cache[slot] = key
    BY <2>1
  <2>3. Store(cache, ids, positions, S)[slot] = key
    BY <1>16, <1>17, <2>2
  <2> QED  BY <2>3 DEF S, slots
<1>18. CASE W # {}
  <2>1. PICK t : t = CHOOSE j \in W : TRUE
    OBVIOUS
  <2>2. t \in W
    BY <1>18, <2>1
  <2>3. KeyOf(ids[t], positions[t]) = key
    BY <1>14, <2>2
  <2>4. Store(cache, ids, positions, S)[slot] = key
    BY <1>16, <1>18, <2>1, <2>3
  <2> QED  BY <2>4 DEF S, slots
<1> QED  BY <1>17, <1>18

-----------------------------------------------------------------------------

(* What the pages of the requests hold, as requests join and finish.        *)

(* What the pages of the requests hold.  A page is in the tables of two       *)
(* requests only as the first one of both, and then their prefixes agree on  *)
(* it; a token that counts as cached is in its slot, or the batch that is     *)
(* under way will write it there.                                          *)
Unfinished(r) == requests[r].length < MaxModelLen
TokenKey(r, p) == KeyOf(Text[r][p + 1], p)
SamePage(r, d) == \A x \in 1 .. BlockSize : Text[r][x] = Text[d][x]
Apart(r, d) ==
    \A i \in 1 .. Len(requests[r].block_table) : \A j \in 1 .. Len(requests[d].block_table) :
        requests[r].block_table[i] = requests[d].block_table[j] =>
            i = j /\ (r # d => i = 1 /\ SamePage(r, d))
PagesShared ==
    /\ \A r \in Requests : Unfinished(r) \/ requests[r].block_table = <<>>
    /\ \A r, d \in Requests : Apart(r, d)

WillWrite(d, p) ==
    d \in Range(batch) /\ p \in requests[d].num_cached_tokens .. ContextEnd(requests[d]) - 1
Known(r, p) ==
    \/ kv_cache[SlotOf(requests[r], p)] = TokenKey(r, p)
    \/ \E d \in Requests : WillWrite(d, p)
                            /\ SlotOf(requests[d], p) = SlotOf(requests[r], p)
KeysStored ==
    \A r \in Requests : Unfinished(r) =>
        \A p \in 0 .. requests[r].num_cached_tokens - 1 : Known(r, p)

Holds(r) ==
    \A p \in 0 .. ContextEnd(requests[r]) - 1 :
        kv_cache[SlotOf(requests[r], p)] = TokenKey(r, p)
KeysWritten ==
    engine.phase = "serving" /\ step.pc \in {"forwarded", "sampled"} =>
        \A r \in Requests : Unfinished(r) => Holds(r)

(* The page of a position before the end e is among the pages counted for   *)
(* e.                                                                       *)
LEMMA PageIndexed ==
    ASSUME NEW e \in Nat, NEW p \in 0 .. e - 1
    PROVE  /\ p \div BlockSize \in Nat /\ p % BlockSize \in 0 .. BlockSize - 1
           /\ (p \div BlockSize) + 1 \in 1 .. CeilDiv(e, BlockSize)
<1>1. PICK B \in Nat \ {0} : B = BlockSize
  BY BlockSizeAssumption
<1>2. p \in Nat /\ p < e
  OBVIOUS
<1>3. PICK a \in Nat, s \in 0 .. B - 1 : a = p \div B /\ s = p % B
  BY <1>1, <1>2, QuotientFacts
<1>4. PICK A \in Nat : A = a * B /\ p = A + s
  <2>1. a * B \in Nat
    BY <1>1, <1>3, ProductFacts
  <2>2. p = (p \div B) * B + (p % B)
    BY <1>1, <1>2, QuotientFacts, Zenon
  <2>3. p = a * B + s
    BY <1>3, <2>2, Zenon
  <2> QED  BY <2>1, <2>3
<1>5. PICK n \in Nat : n = CeilDiv(e, B) /\ e <= n * B
  BY <1>1, PagesNeeded
<1>6. a < n
  <2> SUFFICES ASSUME n <= a PROVE FALSE
    BY <1>3, <1>5
  <2>1. PICK N \in Nat : N = n * B /\ N <= A
    BY <1>1, <1>3, <1>4, <1>5, ProductFacts
  <2> QED  BY <1>2, <1>3, <1>4, <1>5, <2>1
<1> QED  BY <1>1, <1>3, <1>5, <1>6

(* The free pages are taken once each.                                      *)
LEMMA FreePagesOnce ==
    /\ LastFirst \in Seq(Pages) /\ Len(LastFirst) = Cardinality(FreePages)
    /\ \A i \in 1 .. Len(LastFirst) : LastFirst[i] \in FreePages
    /\ \A i, j \in 1 .. Len(LastFirst) : LastFirst[i] = LastFirst[j] => i = j
<1>1. IsFiniteSet(Pages)
  BY ConstantFacts, FS_Interval DEF Pages
<1>2. FreePages \in SUBSET Pages
  BY DEF FreePages
<1>3. IsFiniteSet(FreePages)
  BY <1>1, <1>2, FS_Subset
<1>4. PICK n \in Nat : n = Cardinality(FreePages)
  BY <1>3, FS_CardinalityType
<1>5. ExistsBijection(1 .. n, FreePages)
  BY <1>3, <1>4, FS_CardinalityType
<1>6. \E f \in [1 .. n -> FreePages] : IsInjective(f)
  BY <1>5 DEF ExistsBijection, Bijection, Injection
<1>7. PICK s : s = SetToSeq(FreePages)
  OBVIOUS
<1>8. s \in [1 .. n -> FreePages] /\ IsInjective(s)
  BY <1>4, <1>6, <1>7 DEF SetToSeq
<1>9. LastFirst = [i \in 1 .. n |-> s[(n - i) + 1]]
  BY <1>7, <1>8 DEF LastFirst, Reverse
<1>10. Len(LastFirst) = n
  BY <1>4, FreePagesListed
<1>11. ASSUME NEW i \in 1 .. n PROVE LastFirst[i] \in FreePages
  <2>1. (n - i) + 1 \in 1 .. n
    OBVIOUS
  <2> QED  BY <1>8, <1>9, <2>1
<1>12. ASSUME NEW i \in 1 .. n, NEW j \in 1 .. n, LastFirst[i] = LastFirst[j] PROVE i = j
  <2>1. (n - i) + 1 \in 1 .. n /\ (n - j) + 1 \in 1 .. n
    OBVIOUS
  <2>2. s[(n - i) + 1] = s[(n - j) + 1]
    BY <1>9, <1>12
  <2>3. (n - i) + 1 = (n - j) + 1
    BY <1>8, <2>1, <2>2 DEF IsInjective
  <2> QED  BY <2>3
<1> QED  BY <1>10, <1>11, <1>12, FreePagesListed

(* How a row joins: h are the pages it has or shares, s free ones.           *)
Joined(r, n, d, c, h, s) ==
    /\ c \in Nat /\ h \in Seq(Pages) /\ s \in Seq(Pages)
    /\ \A i \in 1 .. Len(s) : s[i] \in FreePages
    /\ \A i, j \in 1 .. Len(s) : s[i] = s[j] => i = j
    /\ requests' = [requests EXCEPT ![r] =
            [length |-> requests[r].length, num_cached_tokens |-> c,
             num_new_tokens |-> n, block_table |-> h \o s]]
    /\ c + n <= requests[r].length
    /\ d = NoRequest => c = requests[r].num_cached_tokens /\ h = requests[r].block_table
    /\ d # NoRequest => /\ d \in Requests /\ Shareable(r, d)
                        /\ requests[r].num_cached_tokens = 0
                        /\ c = BlockSize /\ h = <<requests[d].block_table[1]>>

(* The pages that are taken for a request are free and differ.              *)
LEMMA SomeFreePages ==
    ASSUME NEW m \in Int, m <= Len(LastFirst)
    PROVE  /\ SubSeq(LastFirst, 1, m) \in Seq(Pages)
           /\ \A i \in 1 .. Len(SubSeq(LastFirst, 1, m)) :
                SubSeq(LastFirst, 1, m)[i] \in FreePages
           /\ \A i, j \in 1 .. Len(SubSeq(LastFirst, 1, m)) :
                SubSeq(LastFirst, 1, m)[i] = SubSeq(LastFirst, 1, m)[j] => i = j
<1>1. PICK z \in Seq(Pages) : z = LastFirst
  BY FreePagesOnce
<1>2. PICK k \in Nat : k = Len(z) /\ m <= k
  BY <1>1
<1>3. PICK s : s = SubSeq(z, 1, m)
  OBVIOUS
<1>4. CASE m < 1
  <2>1. s = <<>>
    BY <1>3, <1>4
  <2> QED  BY <1>1, <1>3, <2>1
<1>5. CASE m >= 1
  <2>1. s \in Seq(Pages) /\ Len(s) = m /\ \A i \in 1 .. m : s[i] = z[i] /\ i \in 1 .. k
    BY <1>2, <1>3, <1>5
  <2>2. /\ \A i \in 1 .. k : z[i] \in FreePages
        /\ \A i, j \in 1 .. k : z[i] = z[j] => i = j
    BY <1>1, <1>2, FreePagesOnce
  <2> QED  BY <1>1, <1>3, <2>1, <2>2
<1> QED  BY <1>4, <1>5

Replaced(f, r, c, n, t) ==
    [f EXCEPT ![r] = [length |-> f[r].length, num_cached_tokens |-> c, num_new_tokens |-> n,
                      block_table |-> t]]
Rewritten(f, r, c, n, t) ==
    [f EXCEPT ![r] =
        [@ EXCEPT !.num_cached_tokens = c, !.num_new_tokens = n, !.block_table = t]]

(* A request record says which cached tokens and which table it was given.  *)
LEMMA JoinedFields ==
    ASSUME NEW f \in [Requests -> RequestRecords], NEW r \in Requests, NEW c, NEW n, NEW t,
           NEW e, NEW u, Replaced(f, r, c, n, t) = Rewritten(f, r, e, n, u)
    PROVE  c = e /\ t = u
<1>1. PICK q \in RequestRecords : q = f[r]
  OBVIOUS
<1>2. PICK g : g = Replaced(f, r, c, n, t)
  OBVIOUS
<1>3. g[r].num_cached_tokens = c /\ g[r].block_table = t
  BY <1>2 DEF Replaced
<1>4. Updated(q, e, n, u) = RequestOf(q.length, e, n, u)
  BY RecordUpdated
<1>5. g[r] = Updated(q, e, n, u)
  BY <1>1, <1>2 DEF Updated, Rewritten
<1> QED  BY <1>3, <1>4, <1>5 DEF RequestOf

(* Every way to add a row to the batch is a joining of this form.           *)
LEMMA RowJoins ==
    ASSUME BatchInv, NEW r \in Requests, NEW n \in 1 .. MaxNumBatchedTokens,
           NEW d \in Requests \cup {NoRequest}, AddRow(r, n, d)
    PROVE  \E c, h, s : Joined(r, n, d, c, h, s)
<1>1. PICK c \in Nat, t \in Seq(Pages) :
          /\ requests' = [requests EXCEPT ![r] =
                [length |-> requests[r].length, num_cached_tokens |-> c,
                 num_new_tokens |-> n, block_table |-> t]]
          /\ c + n <= requests[r].length
          /\ Len(t) = CeilDiv(c + n, BlockSize)
  BY RowAdded
<1>2. PICK q \in RequestRecords : q = requests[r]
  BY DEF BatchInv
<1> DEFINE shared == IF d = NoRequest THEN <<>> ELSE <<requests[d].block_table[1]>>
           h == requests[r].block_table \o shared
           cached == requests[r].num_cached_tokens + Len(shared) * BlockSize
           more == CeilDiv(cached + n, BlockSize) - Len(h)
           s == SubSeq(LastFirst, 1, more)
<1>3. /\ more <= Cardinality(FreePages)
      /\ requests' = [requests EXCEPT ![r] =
            [@ EXCEPT !.num_cached_tokens = cached, !.num_new_tokens = n,
                      !.block_table = h \o s]]
      /\ d # NoRequest => Shareable(r, d)
      /\ r \notin Range(batch) /\ q.length < MaxModelLen
  BY <1>2, Zenon DEF AddRow
<1>4. /\ q.block_table \in Seq(Pages) /\ q.num_cached_tokens \in Nat
      /\ q.num_new_tokens = 0 /\ PagedContext(q)
  BY <1>2, <1>3 DEF RequestRecords, BatchInv, Waits
<1>a. /\ d = NoRequest => shared = <<>>
      /\ d # NoRequest => shared = <<requests[d].block_table[1]>>
  OBVIOUS
<1> HIDE DEF shared
<1>b. h = q.block_table \o shared /\ cached = q.num_cached_tokens + Len(shared) * BlockSize
  BY <1>2
<1>5. CASE d = NoRequest
  <2>1. shared = <<>>
    BY <1>5, <1>a
  <2>2. h = q.block_table /\ cached = q.num_cached_tokens
    <3>1. Len(<<>>) * BlockSize = 0
      BY ConstantFacts
    <3>2. q.block_table \o <<>> = q.block_table
      BY <1>4
    <3>3. h = q.block_table \o <<>> /\ cached = q.num_cached_tokens + Len(<<>>) * BlockSize
      BY <1>b, <2>1
    <3>4. cached = q.num_cached_tokens + 0
      BY <3>1, <3>3
    <3> QED  BY <1>4, <3>2, <3>3, <3>4
  <2>3. h \in Seq(Pages)
    BY <1>4, <2>2
  <2> HIDE DEF h, cached, more
  <2>4. c = cached /\ t = h \o s
    <3> HIDE DEF s
    <3>1. requests \in [Requests -> RequestRecords]
      BY DEF BatchInv
    <3>2. Replaced(requests, r, c, n, t) = Rewritten(requests, r, cached, n, h \o s)
      BY <1>1, <1>3 DEF Replaced, Rewritten
    <3>3. PICK z : z = h \o s
      OBVIOUS
    <3>4. PICK e : e = cached
      OBVIOUS
    <3>5. Replaced(requests, r, c, n, t) = Rewritten(requests, r, e, n, z)
      BY <3>2, <3>3, <3>4
    <3>6. c = e /\ t = z
      BY <3>1, <3>5, JoinedFields
    <3> QED  BY <3>3, <3>4, <3>6
  <2>5. more \in Int /\ more <= Len(LastFirst)
    <3>1. Len(h) \in Nat /\ CeilDiv(c + n, BlockSize) \in Nat
      BY <1>1, <2>3
    <3> QED  BY <1>3, <2>4, <3>1, FreePagesOnce DEF more
  <2>6. /\ s \in Seq(Pages) /\ \A i \in 1 .. Len(s) : s[i] \in FreePages
        /\ \A i, j \in 1 .. Len(s) : s[i] = s[j] => i = j
    BY <2>5, SomeFreePages
  <2> HIDE DEF s
  <2>7. Joined(r, n, d, c, h, s)
    BY <1>1, <1>2, <1>5, <2>2, <2>3, <2>4, <2>6 DEF Joined
  <2> QED  BY <2>7
<1>6. CASE d # NoRequest
  <2>1. /\ d \in Requests /\ Shareable(r, d)
        /\ q.block_table = <<>> /\ requests[d].block_table # <<>>
    BY <1>2, <1>3, <1>6 DEF Shareable
  <2>2. PICK g \in Pages : g = requests[d].block_table[1]
    <3>1. requests[d].block_table \in Seq(Pages)
      BY <2>1 DEF BatchInv, RequestRecords
    <3> QED  BY <2>1, <3>1
  <2>3. shared = <<g>> /\ h = <<g>> /\ h \in Seq(Pages)
    <3>1. shared = <<g>>
      BY <1>6, <1>a, <2>2
    <3>2. h = <<>> \o <<g>>
      BY <1>b, <2>1, <3>1
    <3>3. <<>> \o <<g>> = <<g>> /\ <<g>> \in Seq(Pages)
      OBVIOUS
    <3> QED  BY <3>1, <3>2, <3>3
  <2>4. q.num_cached_tokens = 0
    <3>1. PICK c0 \in Nat : c0 = q.num_cached_tokens
      BY <1>4
    <3>2. ContextEnd(q) = c0 /\ 0 = CeilDiv(c0, BlockSize)
      BY <1>3, <1>4, <2>1, <3>1 DEF PagedContext, ContextEnd
    <3>3. c0 <= CeilDiv(c0, BlockSize) * BlockSize
      BY ConstantFacts, PagesNeeded, Zenon
    <3>4. c0 <= 0 * BlockSize
      BY <3>2, <3>3, Zenon
    <3>5. 0 * BlockSize = 0
      BY ConstantFacts
    <3> QED  BY <3>1, <3>4, <3>5
  <2>5. cached = BlockSize
    <3>1. Len(<<g>>) = 1 /\ 0 + 1 * BlockSize = BlockSize
      BY ConstantFacts
    <3> QED  BY <1>b, <2>3, <2>4, <3>1
  <2>6. h = <<requests[d].block_table[1]>>
    BY <2>2, <2>3
  <2> HIDE DEF h, cached, more
  <2>7. c = cached /\ t = h \o s
    <3> HIDE DEF s
    <3>1. requests \in [Requests -> RequestRecords]
      BY DEF BatchInv
    <3>2. Replaced(requests, r, c, n, t) = Rewritten(requests, r, cached, n, h \o s)
      BY <1>1, <1>3 DEF Replaced, Rewritten
    <3>3. PICK z : z = h \o s
      OBVIOUS
    <3>4. PICK e : e = cached
      OBVIOUS
    <3>5. Replaced(requests, r, c, n, t) = Rewritten(requests, r, e, n, z)
      BY <3>2, <3>3, <3>4
    <3>6. c = e /\ t = z
      BY <3>1, <3>5, JoinedFields
    <3> QED  BY <3>3, <3>4, <3>6
  <2>8. more \in Int /\ more <= Len(LastFirst)
    <3>1. Len(h) \in Nat /\ CeilDiv(c + n, BlockSize) \in Nat
      BY <1>1, <2>3
    <3> QED  BY <1>3, <2>7, <3>1, FreePagesOnce DEF more
  <2>9. /\ s \in Seq(Pages) /\ \A i \in 1 .. Len(s) : s[i] \in FreePages
        /\ \A i, j \in 1 .. Len(s) : s[i] = s[j] => i = j
    BY <2>8, SomeFreePages
  <2> HIDE DEF s
  <2>10. Joined(r, n, d, c, h, s)
    BY <1>1, <1>2, <1>6, <2>1, <2>3, <2>4, <2>5, <2>6, <2>7, <2>9 DEF Joined
  <2> QED  BY <2>10
<1> QED  BY <1>5, <1>6

(* Who may share the first page has the same tokens in it, all of them      *)
(* computed.                                                                *)
LEMMA PrefixAgrees ==
    ASSUME BatchInv, NEW r \in Requests, NEW d \in Requests, Shareable(r, d)
    PROVE  SamePage(r, d) /\ SamePage(d, r) /\ ContextEnd(requests[d]) >= BlockSize
<1>1. PICK a \in Seq(Int) : a = Text[r] /\ Len(a) = MaxModelLen
  BY ModelRunnerAssumption
<1>2. PICK b \in Seq(Int) : b = Text[d] /\ Len(b) = MaxModelLen
  BY ModelRunnerAssumption
<1>3. /\ SubSeq(b, 1, BlockSize) = SubSeq(a, 1, BlockSize)
      /\ requests[r].length > BlockSize /\ ContextEnd(requests[d]) >= BlockSize
  BY <1>1, <1>2 DEF Shareable
<1>4. PICK B \in Nat \ {0} : B = BlockSize /\ B <= MaxModelLen
  <2>1. requests[r].length \in 1 .. MaxModelLen
    BY DEF BatchInv, RequestRecords
  <2> QED  BY <1>3, <2>1, ConstantFacts
<1>5. ASSUME NEW x \in 1 .. B PROVE a[x] = b[x]
  <2>1. SubSeq(a, 1, B)[x] = a[x] /\ SubSeq(b, 1, B)[x] = b[x]
    BY <1>1, <1>2, <1>4
  <2> QED  BY <1>3, <1>4, <2>1
<1> QED  BY <1>1, <1>2, <1>3, <1>4, <1>5 DEF SamePage

(* Adding a row shares nothing but a first page with the same tokens ...    *)
LEMMA PagesGrow ==
    ASSUME BatchInv, PagesShared, NEW r \in Requests, NEW n \in 1 .. MaxNumBatchedTokens,
           NEW d \in Requests \cup {NoRequest}, AddRow(r, n, d)
    PROVE  PagesShared'
<1>1. PICK c, h, s : Joined(r, n, d, c, h, s)
  BY RowJoins
<1>2. /\ h \in Seq(Pages) /\ s \in Seq(Pages) /\ requests \in [Requests -> RequestRecords]
      /\ \A i \in 1 .. Len(s) : s[i] \in FreePages
      /\ \A i, j \in 1 .. Len(s) : s[i] = s[j] => i = j
      /\ d = NoRequest => h = requests[r].block_table
      /\ d # NoRequest => d \in Requests /\ Shareable(r, d) /\ h = <<requests[d].block_table[1]>>
  BY <1>1 DEF Joined, BatchInv
<1>3. /\ requests'[r].length = requests[r].length /\ requests'[r].block_table = h \o s
      /\ \A x \in Requests \ {r} : requests'[x] = requests[x]
  BY <1>1, <1>2 DEF Joined
<1>4. PICK H \in Nat, S \in Nat : H = Len(h) /\ S = Len(s)
  BY <1>2
<1>5. PICK t : t = h \o s
  OBVIOUS
<1>6. /\ Len(t) = H + S /\ \A i \in 1 .. H : t[i] = h[i]
      /\ \A i \in 1 .. S : t[H + i] = s[i]
  BY <1>2, <1>4, <1>5
<1>7. ASSUME NEW i \in 1 .. H + S, ~(i \in 1 .. H)
      PROVE  \E j \in 1 .. S : i = H + j /\ t[i] = s[j] /\ t[i] \in FreePages
  <2>1. i - H \in 1 .. S /\ i = H + (i - H)
    BY <1>7
  <2>2. t[i] = s[i - H] /\ s[i - H] \in FreePages
    BY <1>2, <1>4, <1>6, <2>1
  <2> QED  BY <2>1, <2>2
<1>8. ASSUME NEW x \in Requests
      PROVE  /\ requests[x].block_table \in Seq(Pages) /\ Len(requests[x].block_table) \in Nat
             /\ \A j \in 1 .. Len(requests[x].block_table) :
                    requests[x].block_table[j] \notin FreePages
  <2>1. PICK u \in Seq(Pages) : u = requests[x].block_table
    BY <1>2 DEF RequestRecords
  <2>2. \A j \in 1 .. Len(u) : u[j] \in Range(u)
    BY DEF Range
  <2>3. \A j \in 1 .. Len(u) : u[j] \notin FreePages
    BY <2>1, <2>2 DEF FreePages
  <2> QED  BY <2>1, <2>3
\* The pages it starts with are in the same place of a table, and what other
\* tables share with it is the first one.
<1>9. ASSUME NEW i \in 1 .. H, NEW y \in Requests, NEW j \in 1 .. Len(requests[y].block_table),
             h[i] = requests[y].block_table[j]
      PROVE  i = j /\ (r # y => i = 1 /\ SamePage(r, y) /\ SamePage(y, r))
  <2>1. CASE d = NoRequest
    <3>1. i \in 1 .. Len(requests[r].block_table) /\ h[i] = requests[r].block_table[i]
      BY <1>2, <1>4, <2>1
    <3>2. Apart(r, y)
      BY DEF PagesShared
    <3>3. i = j /\ (r # y => i = 1 /\ SamePage(r, y))
      BY <1>9, <3>1, <3>2 DEF Apart
    <3> QED  BY <3>3 DEF SamePage
  <2>2. CASE d # NoRequest
    <3>1. d \in Requests /\ h = <<requests[d].block_table[1]>> /\ requests[d].block_table # <<>>
          /\ requests[r].block_table = <<>> /\ SamePage(r, d)
      BY <1>2, <2>2, PrefixAgrees DEF Shareable
    <3>2. i = 1 /\ h[1] = requests[d].block_table[1]
      BY <1>4, <3>1
    <3>3. 1 \in 1 .. Len(requests[d].block_table)
      BY <1>8, <3>1
    <3>4. Apart(d, y)
      BY <3>1 DEF PagesShared
    <3>5. 1 = j /\ (d # y => SamePage(d, y))
      BY <1>9, <3>2, <3>3, <3>4 DEF Apart
    <3>6. r # y => SamePage(r, y) /\ SamePage(y, r)
      BY <3>1, <3>5 DEF SamePage
    <3> QED  BY <3>2, <3>5, <3>6
  <2> QED  BY <2>1, <2>2
<1>10. ASSUME NEW i \in 1 .. H PROVE h[i] \notin FreePages
  <2>1. CASE d = NoRequest
    BY <1>2, <1>4, <1>8, <2>1
  <2>2. CASE d # NoRequest
    <3>1. d \in Requests /\ h = <<requests[d].block_table[1]>> /\ requests[d].block_table # <<>>
      BY <1>2, <2>2 DEF Shareable
    <3>2. i = 1 /\ 1 \in 1 .. Len(requests[d].block_table)
      BY <1>4, <1>8, <3>1
    <3> QED  BY <1>8, <3>1, <3>2
  <2> QED  BY <2>1, <2>2
\* The new table against another one, and against itself.
<1>11. ASSUME NEW y \in Requests \ {r}, NEW i \in 1 .. H + S,
              NEW j \in 1 .. Len(requests[y].block_table),
              t[i] = requests[y].block_table[j]
       PROVE  i = j /\ i = 1 /\ SamePage(r, y) /\ SamePage(y, r)
  <2>1. i \in 1 .. H
    BY <1>7, <1>8, <1>11
  <2> QED  BY <1>6, <1>9, <1>11, <2>1
<1>12. ASSUME NEW i \in 1 .. H + S, NEW j \in 1 .. H + S, t[i] = t[j] PROVE i = j
  <2>1. CASE i \in 1 .. H /\ j \in 1 .. H
    <3>1. h[i] = h[j]
      BY <1>6, <1>12, <2>1
    <3>2. CASE d = NoRequest
      BY <1>2, <1>4, <1>9, <2>1, <3>1, <3>2
    <3>3. CASE d # NoRequest
      <4>1. h = <<requests[d].block_table[1]>>
        BY <1>2, <3>3
      <4>2. H = 1
        BY <1>4, <4>1
      <4> QED  BY <2>1, <4>2
    <3> QED  BY <3>2, <3>3
  <2>2. CASE ~(i \in 1 .. H) /\ ~(j \in 1 .. H)
    <3>1. PICK a \in 1 .. S : i = H + a /\ t[i] = s[a]
      BY <1>7, <2>2
    <3>2. PICK b \in 1 .. S : j = H + b /\ t[j] = s[b]
      BY <1>7, <2>2
    <3>3. a = b
      BY <1>2, <1>4, <1>12, <3>1, <3>2
    <3> QED  BY <3>1, <3>2, <3>3
  <2>3. CASE i \in 1 .. H /\ ~(j \in 1 .. H)
    BY <1>6, <1>7, <1>10, <1>12, <2>3
  <2>4. CASE ~(i \in 1 .. H) /\ j \in 1 .. H
    BY <1>6, <1>7, <1>10, <1>12, <2>4
  <2> QED  BY <2>1, <2>2, <2>3, <2>4
<1>13. ASSUME NEW x \in Requests, NEW y \in Requests PROVE Apart(x, y)'
  <2> SUFFICES ASSUME NEW i \in 1 .. Len(requests'[x].block_table),
                      NEW j \in 1 .. Len(requests'[y].block_table),
                      requests'[x].block_table[i] = requests'[y].block_table[j]
               PROVE  i = j /\ (x # y => i = 1 /\ SamePage(x, y))
    BY DEF Apart, SamePage
  <2>1. CASE x = r /\ y = r
    <3>1. i \in 1 .. H + S /\ j \in 1 .. H + S /\ t[i] = t[j]
      BY <1>3, <1>5, <1>6, <2>1
    <3> QED  BY <1>12, <2>1, <3>1
  <2>2. CASE x = r /\ y # r
    <3>1. i \in 1 .. H + S /\ j \in 1 .. Len(requests[y].block_table)
          /\ t[i] = requests[y].block_table[j]
      BY <1>3, <1>5, <1>6, <2>2
    <3> QED  BY <1>11, <2>2, <3>1
  <2>3. CASE x # r /\ y = r
    <3>1. j \in 1 .. H + S /\ i \in 1 .. Len(requests[x].block_table)
          /\ t[j] = requests[x].block_table[i]
      BY <1>3, <1>5, <1>6, <2>3
    <3> QED  BY <1>11, <2>3, <3>1
  <2>4. CASE x # r /\ y # r
    <3>1. Apart(x, y)
      BY DEF PagesShared
    <3> QED  BY <1>3, <2>4, <3>1 DEF Apart
  <2> QED  BY <2>1, <2>2, <2>3, <2>4
<1>14. ASSUME NEW x \in Requests PROVE Unfinished(x)' \/ requests'[x].block_table = <<>>
  <2>1. CASE x = r
    <3>1. requests[r].length < MaxModelLen
      BY DEF AddRow
    <3> QED  BY <1>3, <2>1, <3>1 DEF Unfinished
  <2>2. CASE x # r
    BY <1>3, <2>2 DEF PagesShared, Unfinished
  <2> QED  BY <2>1, <2>2
<1> QED  BY <1>13, <1>14 DEF PagesShared

(* What is known of a request in every reachable state.                     *)
LEMMA RequestFacts ==
    ASSUME BatchInv, NEW y \in Requests
    PROVE  /\ requests[y] \in RequestRecords
           /\ requests[y].num_cached_tokens \in Nat /\ requests[y].num_new_tokens \in Nat
           /\ requests[y].block_table \in Seq(Pages) /\ Len(requests[y].block_table) \in Nat
           /\ ContextEnd(requests[y]) \in Nat
           /\ ContextEnd(requests[y])
                = requests[y].num_cached_tokens + requests[y].num_new_tokens
           /\ requests[y].num_cached_tokens <= ContextEnd(requests[y])
           /\ ContextEnd(requests[y]) <= requests[y].length
           /\ requests[y].length \in 1 .. MaxModelLen
           /\ Unfinished(y) => Len(requests[y].block_table)
                                = CeilDiv(ContextEnd(requests[y]), BlockSize)
           /\ y \notin Range(batch) => requests[y].num_new_tokens = 0
<1>1. requests[y] \in RequestRecords /\ PagedContext(requests[y])
      /\ (y \notin Range(batch) => Waits(y))
  BY DEF BatchInv
<1> QED  BY <1>1 DEF RequestRecords, PagedContext, ContextEnd, Unfinished, Waits

(* The token at p has a page, and a slot of the cache.                      *)
LEMMA SlotOfRequest ==
    ASSUME BatchInv, NEW y \in Requests, Unfinished(y),
           NEW p \in 0 .. ContextEnd(requests[y]) - 1
    PROVE  /\ p \div BlockSize \in Nat /\ p % BlockSize \in 0 .. BlockSize - 1
           /\ (p \div BlockSize) + 1 \in 1 .. Len(requests[y].block_table)
           /\ PageOf(requests[y], p) \in Pages
           /\ SlotOf(requests[y], p) \in Slots
<1>1. PICK e \in Nat : e = ContextEnd(requests[y])
                       /\ Len(requests[y].block_table) = CeilDiv(e, BlockSize)
  BY RequestFacts
<1>2. /\ p \div BlockSize \in Nat /\ p % BlockSize \in 0 .. BlockSize - 1
      /\ (p \div BlockSize) + 1 \in 1 .. CeilDiv(e, BlockSize)
  BY <1>1, PageIndexed
<1>3. PICK t \in Seq(Pages) : t = requests[y].block_table
  BY RequestFacts
<1>4. PICK g \in Pages : g = PageOf(requests[y], p)
  <2>1. (p \div BlockSize) + 1 \in 1 .. Len(t)
    BY <1>1, <1>2, <1>3
  <2> QED  BY <1>3, <2>1 DEF PageOf
<1>a. PICK B \in Nat \ {0} : B = BlockSize
  BY ConstantFacts
<1>5. PICK s \in 0 .. B - 1 : B = BlockSize /\ s = p % BlockSize
  BY <1>2, <1>a
<1>6. g \in Nat /\ g + 1 <= NumPages
  BY ConstantFacts DEF Pages
<1>7. PICK G \in Nat, N \in Nat : G = g * B /\ N = NumPages * B /\ G + B <= N
  BY <1>5, <1>6, ConstantFacts, ProductFacts
<1>8. G + s \in 0 .. N - 1
  BY <1>5, <1>7
<1>9. SlotOf(requests[y], p) = G + s
  BY <1>4, <1>5, <1>7 DEF SlotOf
<1> QED  BY <1>1, <1>2, <1>4, <1>5, <1>7, <1>8, <1>9 DEF Slots

(* ... and what counts as cached stays stored, or is written by the batch.  *)
LEMMA KeysGrow ==
    ASSUME BatchInv, PagesShared, KeysStored,
           NEW r \in Requests, NEW n \in 1 .. MaxNumBatchedTokens,
           NEW d \in Requests \cup {NoRequest}, AddRow(r, n, d)
    PROVE  KeysStored'
<1>1. PICK c, h, s : Joined(r, n, d, c, h, s)
  BY RowJoins
<1>2. /\ c \in Nat /\ h \in Seq(Pages) /\ s \in Seq(Pages)
      /\ requests \in [Requests -> RequestRecords]
      /\ d = NoRequest => c = requests[r].num_cached_tokens /\ h = requests[r].block_table
      /\ d # NoRequest => /\ d \in Requests /\ Shareable(r, d)
                          /\ c = BlockSize /\ h = <<requests[d].block_table[1]>>
  BY <1>1 DEF Joined, BatchInv
<1>3. /\ requests'[r].length = requests[r].length /\ requests'[r].block_table = h \o s
      /\ requests'[r].num_cached_tokens = c
      /\ \A x \in Requests \ {r} : requests'[x] = requests[x]
  BY <1>1, <1>2 DEF Joined
<1>4. /\ batch' = Append(batch, r) /\ kv_cache' = kv_cache /\ r \notin Range(batch)
      /\ requests[r].length < MaxModelLen
  BY DEF AddRow, runnerVars
<1>5. Range(batch') = Range(batch) \cup {r}
  BY <1>4, AppendRange DEF BatchInv
\* What is known of a token stays known, also for a request that shares it.
<1>6. ASSUME NEW y \in Requests, NEW p, Known(y, p), NEW z \in Requests,
             SlotOf(requests'[z], p) = SlotOf(requests[y], p), TokenKey(z, p) = TokenKey(y, p)
      PROVE  Known(z, p)'
  <2>1. CASE kv_cache[SlotOf(requests[y], p)] = TokenKey(y, p)
    BY <1>4, <1>6, <2>1 DEF Known, TokenKey
  <2>2. ASSUME NEW e \in Requests, WillWrite(e, p),
               SlotOf(requests[e], p) = SlotOf(requests[y], p)
        PROVE  Known(z, p)'
    <3>1. e # r /\ requests'[e] = requests[e]
      BY <1>3, <1>4, <2>2 DEF WillWrite
    <3>2. WillWrite(e, p)'
      BY <1>5, <2>2, <3>1 DEF WillWrite
    <3>3. SlotOf(requests'[e], p) = SlotOf(requests'[z], p)
      BY <1>6, <2>2, <3>1
    <3> QED  BY <3>2, <3>3 DEF Known
  <2> QED  BY <1>6, <2>1, <2>2 DEF Known
<1>7. ASSUME NEW y \in Requests, Unfinished(y)', NEW p \in 0 .. requests'[y].num_cached_tokens - 1
      PROVE  Known(y, p)'
  <2>1. CASE y # r
    <3>1. requests'[y] = requests[y]
      BY <1>3, <2>1
    <3>2. Known(y, p)
      BY <1>7, <3>1 DEF KeysStored, Unfinished
    <3> QED  BY <1>6, <3>1, <3>2
  <2>2. CASE y = r /\ d = NoRequest
    <3>1. Unfinished(r) /\ p \in 0 .. requests[r].num_cached_tokens - 1
          /\ h = requests[r].block_table
      BY <1>2, <1>3, <1>4, <1>7, <2>2 DEF Unfinished
    <3>2. p \in 0 .. ContextEnd(requests[r]) - 1
      <4>1. PICK a \in Nat, b \in Nat :
                a = requests[r].num_cached_tokens /\ b = ContextEnd(requests[r]) /\ a <= b
        BY RequestFacts
      <4> QED  BY <3>1, <4>1
    <3>3. (p \div BlockSize) + 1 \in 1 .. Len(h)
      BY <3>1, <3>2, SlotOfRequest
    <3>4. (h \o s)[(p \div BlockSize) + 1] = h[(p \div BlockSize) + 1]
      BY <1>2, <3>3
    <3>5. SlotOf(requests'[r], p) = SlotOf(requests[r], p)
      BY <1>3, <3>1, <3>4 DEF SlotOf, PageOf
    <3>6. Known(r, p)
      BY <3>1 DEF KeysStored
    <3> QED  BY <1>6, <2>2, <3>5, <3>6
  <2>3. CASE y = r /\ d # NoRequest
    <3>1. /\ d \in Requests /\ Shareable(r, d) /\ c = BlockSize
          /\ h = <<requests[d].block_table[1]>> /\ d # r /\ requests[d].block_table # <<>>
      BY <1>2, <2>3 DEF Shareable
    <3>2. SamePage(r, d) /\ ContextEnd(requests[d]) >= BlockSize
      BY <3>1, PrefixAgrees
    <3>3. p \in 0 .. BlockSize - 1
      BY <1>3, <1>7, <2>3, <3>1
    <3>4. p \div BlockSize = 0
      <4>1. PICK B \in Nat \ {0} : B = BlockSize
        BY ConstantFacts
      <4>2. p \in 0 .. B - 1 /\ 0 * B + p = p
        BY <3>3, <4>1
      <4>3. (0 * B + p) \div B = 0
        BY <4>1, <4>2, QuotientUnique
      <4> QED  BY <4>1, <4>2, <4>3
    <3>5. (h \o s)[1] = requests[d].block_table[1]
      <4>1. h = <<requests[d].block_table[1]>> /\ Len(h) = 1
        BY <3>1
      <4>2. (h \o s)[1] = h[1]
        BY <1>2, <4>1
      <4> QED  BY <4>1, <4>2
    <3>6. SlotOf(requests'[r], p) = SlotOf(requests[d], p)
      <4>1. PageOf(requests'[r], p) = PageOf(requests[d], p)
        <5>1. (p \div BlockSize) + 1 = 1
          BY <3>4
        <5>2. requests'[r].block_table[1] = requests[d].block_table[1]
          BY <1>3, <3>5
        <5> QED  BY <5>1, <5>2, Zenon DEF PageOf
      <4> QED  BY <4>1 DEF SlotOf
    <3>7. TokenKey(r, p) = TokenKey(d, p)
      <4>1. p + 1 \in 1 .. BlockSize
        BY <3>3, ConstantFacts
      <4> QED  BY <3>2, <4>1 DEF SamePage, TokenKey
    <3>8. Unfinished(d)
      BY <3>1 DEF PagesShared
    <3>9. CASE p < requests[d].num_cached_tokens
      <4>1. p \in 0 .. requests[d].num_cached_tokens - 1
        BY <3>1, <3>3, <3>9, ConstantFacts, RequestFacts
      <4>2. Known(d, p)
        BY <3>1, <3>8, <4>1 DEF KeysStored
      <4> QED  BY <1>6, <2>3, <3>1, <3>6, <3>7, <4>2
    <3>10. CASE ~(p < requests[d].num_cached_tokens)
      <4>1. PICK a \in Nat, b \in Nat, m \in Nat :
                /\ a = requests[d].num_cached_tokens /\ b = ContextEnd(requests[d])
                /\ m = requests[d].num_new_tokens /\ b = a + m
        BY <3>1, RequestFacts
      <4>2. p \in a .. b - 1
        BY <3>2, <3>3, <3>10, <4>1, ConstantFacts
      <4>3. d \in Range(batch)
        <5>1. m # 0
          BY <4>1, <4>2
        <5> QED  BY <3>1, <4>1, <5>1, RequestFacts
      <4>4. WillWrite(d, p)
        BY <4>1, <4>2, <4>3 DEF WillWrite
      <4>5. Known(d, p)
        BY <3>1, <4>4 DEF Known
      <4> QED  BY <1>6, <2>3, <3>1, <3>6, <3>7, <4>5
    <3> QED  BY <3>9, <3>10
  <2> QED  BY <2>1, <2>2, <2>3
<1> QED  BY <1>7 DEF KeysStored

(* Without tables or batch there is nothing to hold.                        *)
LEMMA FreshKeys ==
    ASSUME requests = Fresh
    PROVE  PagesShared /\ KeysStored
<1>1. ASSUME NEW r \in Requests
      PROVE  /\ requests[r].block_table = <<>> /\ requests[r].num_cached_tokens = 0
  BY DEF Fresh
<1>2. PagesShared
  BY <1>1 DEF PagesShared, Apart
<1>3. KeysStored
  BY <1>1 DEF KeysStored
<1> QED  BY <1>2, <1>3

(* Steps that leave the requests and the batch alone.                       *)
LEMMA KeysFrame ==
    ASSUME UNCHANGED <<requests, batch>>
    PROVE  /\ PagesShared => PagesShared'
           /\ kv_cache' = kv_cache /\ KeysStored => KeysStored'
           /\ \A r \in Requests : Unfinished(r)' = Unfinished(r)
           /\ kv_cache' = kv_cache => \A r \in Requests : Holds(r)' = Holds(r)
<1>1. PagesShared => PagesShared'
  BY DEF PagesShared, Apart, Unfinished
<1>2. kv_cache' = kv_cache /\ KeysStored => KeysStored'
  BY DEF KeysStored, Known, Unfinished, WillWrite
<1>3. \A r \in Requests : Unfinished(r)' = Unfinished(r)
  BY DEF Unfinished
<1>4. kv_cache' = kv_cache => \A r \in Requests : Holds(r)' = Holds(r)
  BY DEF Holds
<1> QED  BY <1>1, <1>2, <1>3, <1>4

(* What the batch computed counts as cached.                                *)
LEMMA KeysProcessed ==
    ASSUME BatchInv, PagesShared, KeysWritten, Postprocess
    PROVE  PagesShared' /\ KeysStored'
<1>1. /\ engine.phase = "serving" /\ step.pc = "sampled" /\ kv_cache' = kv_cache
      /\ batch' = <<>>
  BY DEF Postprocess
<1>2. ASSUME NEW y \in Requests
      PROVE  \/ /\ y \notin Range(batch) /\ requests'[y] = requests[y]
             \/ /\ y \in Range(batch)
                /\ requests'[y].num_cached_tokens = ContextEnd(requests[y])
                /\ requests'[y].length \in {requests[y].length, requests[y].length + 1}
                /\ requests'[y].block_table \in {<<>>, requests[y].block_table}
                /\ requests'[y].length = MaxModelLen => requests'[y].block_table = <<>>
                /\ requests'[y].length # MaxModelLen =>
                        requests'[y].block_table = requests[y].block_table
  <2>1. requests[y].length \in Nat
    BY RequestFacts
  <2>2. CASE y \notin Range(batch)
    <3>1. requests'[y] = requests[y]
      BY <2>2 DEF Postprocess
    <3> QED  BY <2>2, <3>1
  <2>3. CASE y \in Range(batch)
    <3> DEFINE sampled == {batch[step.logits_rows[i]] : i \in DOMAIN step.logits_rows}
               more == IF y \in sampled THEN 1 ELSE 0
    <3>1. requests'[y] = [length |-> requests[y].length + more,
                          num_cached_tokens |-> ContextEnd(requests[y]),
                          num_new_tokens |-> 0,
                          block_table |-> IF requests[y].length + more = MaxModelLen THEN <<>>
                                          ELSE requests[y].block_table]
      BY <2>3 DEF Postprocess
    <3>2. more \in {0, 1}
      OBVIOUS
    <3> HIDE DEF more
    <3>3. requests'[y].length = requests[y].length + more
      BY <3>1
    <3>4. requests'[y].length \in {requests[y].length, requests[y].length + 1}
      BY <2>1, <3>2, <3>3
    <3> QED  BY <2>3, <3>1, <3>3, <3>4
  <2> QED  BY <2>2, <2>3
<1>3. ASSUME NEW y \in Requests
      PROVE  /\ Unfinished(y)' \/ requests'[y].block_table = <<>>
             /\ requests'[y].block_table \in {<<>>, requests[y].block_table}
             /\ Unfinished(y)' => /\ Unfinished(y)
                                  /\ requests'[y].block_table = requests[y].block_table
                                  /\ requests'[y].num_cached_tokens = ContextEnd(requests[y])
  <2>1. /\ requests[y].length \in 1 .. MaxModelLen /\ MaxModelLen \in Nat
        /\ requests[y].num_cached_tokens \in Nat
    BY ConstantFacts, RequestFacts
  <2>2. CASE y \notin Range(batch)
    <3>1. requests'[y] = requests[y] /\ requests[y].num_new_tokens = 0
      BY <1>2, <2>2, RequestFacts
    <3>2. ContextEnd(requests[y]) = requests[y].num_cached_tokens
      BY <2>1, <3>1 DEF ContextEnd
    <3>3. Unfinished(y) \/ requests[y].block_table = <<>>
      BY DEF PagesShared
    <3> QED  BY <3>1, <3>2, <3>3 DEF Unfinished
  <2>3. CASE y \in Range(batch)
    <3>1. PICK i \in 1 .. Len(batch) : y = batch[i]
      BY <2>3 DEF Range, BatchInv
    <3>2. requests[y].length < MaxModelLen
      BY <3>1 DEF BatchInv, BatchedRow
    <3>3. PICK l \in Nat : l = requests[y].length /\ l < MaxModelLen
      BY <2>1, <3>2
    <3>4. PICK k : k = requests'[y].length
      OBVIOUS
    <3>5. k \in {l, l + 1}
      BY <1>2, <2>3, <3>3, <3>4
    <3>6. k < MaxModelLen \/ k = MaxModelLen
      <4>1. MaxModelLen \in Nat
        BY <2>1
      <4> QED  BY <3>3, <3>5, <4>1
    <3> QED  BY <1>2, <2>1, <2>3, <3>2, <3>4, <3>6 DEF Unfinished
  <2> QED  BY <2>2, <2>3
<1>4. PagesShared'
  <2>1. ASSUME NEW x \in Requests, NEW y \in Requests PROVE Apart(x, y)'
    <3>1. Apart(x, y)
      BY DEF PagesShared
    <3> SUFFICES ASSUME NEW i \in 1 .. Len(requests'[x].block_table),
                        NEW j \in 1 .. Len(requests'[y].block_table),
                        requests'[x].block_table[i] = requests'[y].block_table[j]
                 PROVE  i = j /\ (x # y => i = 1 /\ SamePage(x, y))
      BY DEF Apart, SamePage
    <3>2. requests'[x].block_table # <<>> /\ requests'[y].block_table # <<>>
      OBVIOUS
    <3>3. /\ requests'[x].block_table = requests[x].block_table
          /\ requests'[y].block_table = requests[y].block_table
      BY <1>3, <3>2
    <3> QED  BY <3>1, <3>3 DEF Apart
  <2> QED  BY <1>3, <2>1 DEF PagesShared
<1>5. KeysStored'
  <2> SUFFICES ASSUME NEW y \in Requests, Unfinished(y)',
                      NEW p \in 0 .. requests'[y].num_cached_tokens - 1
               PROVE  kv_cache'[SlotOf(requests'[y], p)] = TokenKey(y, p)
    BY DEF KeysStored, Known, TokenKey
  <2>1. /\ Unfinished(y) /\ p \in 0 .. ContextEnd(requests[y]) - 1
        /\ requests'[y].block_table = requests[y].block_table
    BY <1>3
  <2>2. Holds(y)
    BY <1>1, <2>1 DEF KeysWritten
  <2>3. kv_cache[SlotOf(requests[y], p)] = TokenKey(y, p)
    BY <2>1, <2>2 DEF Holds
  <2> QED  BY <1>1, <2>1, <2>3 DEF SlotOf, PageOf
<1> QED  BY <1>4, <1>5

-----------------------------------------------------------------------------

(* What the steps of a run hand to each other.                              *)

(* What passes from one step of a run to the next: a backend, a cache with a  *)
(* life of its own, the packed input, the planned wrappers, the graph that   *)
(* was found.                                                              *)
EngineInv ==
    engine.phase \in {"warmup", "allocate", "capture", "serving"} =>
        /\ "config" \in DOMAIN engine
        /\ Backend(engine.config) \in {"flashattention", "flashinfer"}

CacheInv ==
    /\ engine.phase \in {"absent", "rejected", "warmup", "allocate"} => DOMAIN kv_cache = {}
    /\ engine.phase \in {"capture", "serving"} => DOMAIN kv_cache = Slots
    /\ engine.phase # "serving" => requests = Fresh

InputInv ==
    step.pc \in {"prepared", "planned", "dispatched"} =>
        /\ step.input_ids = FlattenSeq(IdLists(Rows))
        /\ step.positions = FlattenSeq(PositionLists(Rows))

PlannedBy(w, m, route) == \A x \in DOMAIN Planned(m, route) : w[x] = Planned(m, route)[x]
WrapperInv ==
    /\ DOMAIN wrappers = {"prefill", "decode", "mixed"}
    /\ step.pc \in {"planned", "dispatched"} /\ Backend(engine.config) = "flashinfer" =>
            PlannedBy(wrappers, context.metadata, context.route)

StateFields == {"captured", "kernel", "input_ids", "positions", "slot_mapping", "hidden"}
ReplayInv ==
    /\ \A b \in DOMAIN graph_states : DOMAIN graph_states[b] = StateFields
    /\ step.pc = "dispatched" /\ context.mode = "full_graph" =>
            /\ context.route = "decode"
            /\ context.metadata.num_decode_seqs \in DOMAIN graph_states

FlowInv == EngineInv /\ CacheInv /\ InputInv /\ WrapperInv /\ ReplayInv
KeysInv == PagesShared /\ KeysStored /\ KeysWritten

(* A backend that is selected is one of the two.                            *)
LEMMA BackendUsable ==
    ASSUME NEW config \in Configs, Backend(config) # NoBackend
    PROVE  Backend(config) \in {"flashattention", "flashinfer"}
<1>1. /\ config.attention_backend \in {"auto", "flashattention", "flashinfer"}
      /\ config.usable \subseteq {"flashattention", "flashinfer"}
  BY ModelRunnerAssumption
<1> QED  BY <1>1 DEF Backend, NoBackend

(* A change of phase keeps the configuration of the engine.                 *)
LEMMA EngineKept ==
    ASSUME SessionInv, EngineInv, NEW p \in RunnerPhases, engine' = [engine EXCEPT !.phase = p],
           engine.phase \in {"warmup", "allocate", "capture", "serving"}
    PROVE  EngineInv'
<1>1. engine'.config = engine.config /\ "config" \in DOMAIN engine'
  BY DEF EngineInv
<1> QED  BY <1>1 DEF EngineInv, Backend, NoBackend

(* Every step keeps the backend of a running engine.                        *)
LEMMA EngineStep ==
    ASSUME SessionInv, StepInv, EngineInv, [Next]_vars
    PROVE  EngineInv'
<1>1. ASSUME NEW config \in Configs, Construct(config) PROVE EngineInv'
  <2>1. engine'.config = config /\ "config" \in DOMAIN engine' /\ Backend(config) # NoBackend
    BY <1>1 DEF Construct
  <2> QED  BY <2>1, BackendUsable DEF EngineInv, Backend, NoBackend
<1>2. ASSUME NEW config \in Configs, ConstructFails(config) PROVE EngineInv'
  BY <1>2 DEF ConstructFails, EngineInv
<1>3. CASE WarmupEnd
  BY <1>3, EngineKept DEF WarmupEnd, RunnerPhases
<1>4. CASE AllocateKvCache
  <2>1. PICK p \in RunnerPhases : engine' = [engine EXCEPT !.phase = p]
    BY <1>4 DEF AllocateKvCache, RunnerPhases
  <2> QED  BY <1>4, <2>1, EngineKept DEF AllocateKvCache
<1>5. CASE EndCapture
  <2>1. engine.phase = "capture"
    BY <1>5 DEF EndCapture, StepInv
  <2>2. CASE Uncaptured = {active_graph}
    BY <1>5, <2>1, <2>2, EngineKept DEF EndCapture, RunnerPhases
  <2>3. CASE Uncaptured # {active_graph}
    BY <1>5, <2>3 DEF EndCapture, EngineInv, Backend, NoBackend
  <2> QED  BY <2>2, <2>3
<1>6. CASE CaptureFails
  <2>1. engine'.phase = "broken"
    BY <1>6, PhaseChange DEF CaptureFails, RunnerPhases
  <2> QED  BY <2>1 DEF EngineInv
<1>7. CASE RunFails \/ Exit
  BY <1>7 DEF RunFails, Exit, Discard, EngineInv
<1>8. ASSUME engine' = engine PROVE EngineInv'
  BY <1>8 DEF EngineInv, Backend, NoBackend
<1>9. ASSUME NEW r \in Requests, NEW n \in 1 .. MaxNumBatchedTokens,
             NEW d \in Requests \cup {NoRequest}, AddRow(r, n, d)
      PROVE  EngineInv'
  BY <1>8, <1>9 DEF AddRow, runnerVars
<1>10. CASE \/ WarmupModel \/ InitializeGraphStates \/ BeginCapture \/ PrepareModelInput
            \/ BuildPlan \/ SelectRuntimeMode \/ RunEagerly \/ ReplayGraph \/ Sample
            \/ Postprocess \/ UNCHANGED vars
  BY <1>8, <1>10
  DEF WarmupModel, InitializeGraphStates, StartRun, BeginCapture, PrepareModelInput, BuildPlan,
      SelectRuntimeMode, RunEagerly, ReplayGraph, Sample, Postprocess, runnerVars, vars
<1> QED
  BY <1>1, <1>2, <1>3, <1>4, <1>5, <1>6, <1>7, <1>9, <1>10
  DEF Next, Initialize, Capture, Run

(* Every step keeps the cache to the phases that have one.                  *)
LEMMA CacheStep ==
    ASSUME SessionInv, StepInv, CacheInv, [Next]_vars
    PROVE  CacheInv'
<1>0. Slots' = Slots /\ Fresh' = Fresh /\ DOMAIN <<>> = {}
  BY DEF Slots, Fresh
<1>1. ASSUME NEW config \in Configs, Construct(config) \/ ConstructFails(config)
      PROVE  CacheInv'
  BY <1>0, <1>1 DEF Construct, ConstructFails, CacheInv, batchVars
<1>3. CASE WarmupEnd
  <2>1. engine'.phase = "allocate"
    BY <1>3, PhaseChange DEF WarmupEnd, RunnerPhases
  <2> QED  BY <1>0, <1>3, <2>1 DEF WarmupEnd, CacheInv, batchVars
<1>4. CASE AllocateKvCache
  <2>1. engine'.phase \in {"serving", "capture"}
    BY <1>4, PhaseChange DEF AllocateKvCache, RunnerPhases
  <2> QED  BY <1>0, <1>4, <2>1 DEF AllocateKvCache, CacheInv, batchVars
<1>5. CASE EndCapture
  <2>1. engine.phase = "capture"
    BY <1>5 DEF EndCapture, StepInv
  <2>2. engine'.phase \in {"serving", "capture"}
    BY <1>5, <2>1, PhaseChange DEF EndCapture, RunnerPhases
  <2> QED  BY <1>0, <1>5, <2>1, <2>2 DEF EndCapture, CacheInv, batchVars
<1>6. CASE CaptureFails
  <2>1. engine'.phase = "broken" /\ engine.phase = "capture"
    BY <1>6, PhaseChange DEF CaptureFails, StepInv, RunnerPhases
  <2> QED  BY <1>0, <1>6, <2>1 DEF CaptureFails, CacheInv, batchVars
<1>7. CASE RunFails \/ Exit
  BY <1>0, <1>7 DEF RunFails, Exit, Discard, CacheInv
<1>8. CASE BeginCapture
  <2>1. engine.phase = "capture" /\ engine' = engine /\ requests' = requests
        /\ (kv_cache' = kv_cache \/ DOMAIN kv_cache' = Slots)
    BY <1>8 DEF BeginCapture, batchVars
  <2> QED  BY <1>0, <2>1 DEF CacheInv
<1>9. CASE RunEagerly \/ ReplayGraph
  <2>1. engine' = engine /\ requests' = requests /\ DOMAIN kv_cache' = DOMAIN kv_cache
    BY <1>9, StoreKeepsSlots DEF RunEagerly, ReplayGraph, batchVars
  <2> QED  BY <1>0, <2>1 DEF CacheInv
<1>10. ASSUME UNCHANGED <<engine, kv_cache>>, engine.phase = "serving" \/ requests' = requests
       PROVE  CacheInv'
  BY <1>0, <1>10 DEF CacheInv
<1>11. ASSUME NEW r \in Requests, NEW n \in 1 .. MaxNumBatchedTokens,
              NEW d \in Requests \cup {NoRequest}, AddRow(r, n, d)
       PROVE  CacheInv'
  BY <1>10, <1>11 DEF AddRow, runnerVars
<1>12. CASE \/ WarmupModel \/ InitializeGraphStates \/ PrepareModelInput
            \/ BuildPlan \/ SelectRuntimeMode \/ Sample \/ Postprocess \/ UNCHANGED vars
  BY <1>10, <1>12
  DEF WarmupModel, InitializeGraphStates, StartRun, PrepareModelInput, BuildPlan,
      SelectRuntimeMode, Sample, Postprocess, runnerVars, batchVars, vars
<1> QED
  BY <1>1, <1>3, <1>4, <1>5, <1>6, <1>7, <1>8, <1>9, <1>11, <1>12
  DEF Next, Initialize, Capture, Run

(* Steps after which no input is under way.                                 *)
NoInput == step.pc \notin {"prepared", "planned", "dispatched"}
(* Only these steps leave an input under way.                               *)
LEMMA InputLeft ==
    ASSUME SessionInv, StepInv, [Next]_vars,
           ~(WarmupModel \/ PrepareModelInput \/ BuildPlan \/ SelectRuntimeMode
                \/ UNCHANGED vars)
    PROVE  NoInput'
<1>1. (step = Idle => NoInput) /\ (step' = Idle => NoInput')
  BY DEF NoInput, Idle
<1>2. ASSUME NEW config \in Configs, Construct(config) \/ ConstructFails(config)
      PROVE  NoInput'
  <2>1. step = Idle /\ step' = step
    BY <1>2, NothingUnderWay DEF Construct, ConstructFails
  <2> QED  BY <1>1, <2>1
<1>3. CASE InitializeGraphStates \/ AllocateKvCache
  <2>1. step = Idle /\ step' = step
    BY <1>3, NothingUnderWay DEF InitializeGraphStates, AllocateKvCache
  <2> QED  BY <1>1, <2>1
<1>4. ASSUME NEW r \in Requests, NEW n \in 1 .. MaxNumBatchedTokens,
             NEW d \in Requests \cup {NoRequest}, AddRow(r, n, d)
      PROVE  NoInput'
  BY <1>1, <1>4 DEF AddRow, runnerVars
<1>5. CASE WarmupEnd \/ EndCapture \/ CaptureFails \/ RunFails \/ Exit \/ Postprocess
  BY <1>1, <1>5 DEF WarmupEnd, EndCapture, CaptureFails, RunFails, Exit, Postprocess
<1>6. CASE BeginCapture \/ RunEagerly \/ ReplayGraph \/ Sample
  BY <1>6 DEF BeginCapture, RunEagerly, ReplayGraph, Sample, NoInput
<1> QED
  BY <1>2, <1>3, <1>4, <1>5, <1>6
  DEF Next, Initialize, Capture, Run

(* A run starts with the packed tokens and positions of its rows.           *)
LEMMA InputPrepared ==
    ASSUME NEW prefills, StartRun(Rows, prefills)
    PROVE  InputInv'
<1>1. /\ step'.input_ids = FlattenSeq(IdLists(Rows))
      /\ step'.positions = FlattenSeq(PositionLists(Rows))
  BY DEF StartRun, IdLists, PositionLists
<1>2. Rows' = Rows
  BY RowsStay DEF StartRun
<1> QED  BY <1>1, <1>2 DEF InputInv

(* The input stays that of the rows until it is used.                       *)
LEMMA InputStep ==
    ASSUME SessionInv, StepInv, InputInv, [Next]_vars
    PROVE  InputInv'
<1>1. CASE WarmupModel
  <2>1. Rows = WarmupRows
    BY <1>1 DEF WarmupModel, Rows
  <2>2. StartRun(Rows, Len(WarmupRows))
    BY <1>1, <2>1 DEF WarmupModel
  <2> QED  BY <2>2, InputPrepared
<1>2. CASE PrepareModelInput
  BY <1>2, InputPrepared DEF PrepareModelInput
<1>3. CASE BuildPlan \/ SelectRuntimeMode
  <2>1. PICK pc : step' = [step EXCEPT !.pc = pc]
    BY <1>3 DEF BuildPlan, SelectRuntimeMode
  <2>2. step'.input_ids = step.input_ids /\ step'.positions = step.positions
        /\ step.pc \in {"prepared", "planned"}
    BY <1>3, <2>1 DEF StepInv, Planning, PlanMade, BuildPlan, SelectRuntimeMode
  <2>3. Rows' = Rows
    BY <1>3, RowsStay DEF BuildPlan, SelectRuntimeMode
  <2> QED  BY <2>2, <2>3 DEF InputInv
<1>4. CASE UNCHANGED vars
  <2>1. Rows' = Rows /\ step' = step
    BY <1>4, RowsStay DEF vars, runnerVars
  <2> QED  BY <2>1 DEF InputInv
<1>5. CASE NoInput'
  BY <1>5 DEF NoInput, InputInv
<1> QED  BY <1>1, <1>2, <1>3, <1>4, <1>5, InputLeft

Routes == {"warmup", "prefill", "decode", "mixed_unified", "mixed_split"}
WrapperNames == {"prefill", "decode", "mixed"}

(* A route plans wrappers that exist.                                       *)
LEMMA PlannedWrappers ==
    ASSUME NEW m, NEW unified
    PROVE  /\ Route(m, unified) \in Routes
           /\ DOMAIN Planned(m, Route(m, unified)) \subseteq WrapperNames
<1>1. PICK r : r = Route(m, unified)
  OBVIOUS
<1>2. r \in Routes
  BY <1>1 DEF Route, Routes
<1>3. DOMAIN Planned(m, r) \subseteq WrapperNames
  <2>1. CASE r = "warmup"
    BY <2>1 DEF Planned
  <2>2. CASE r = "prefill"
    BY <2>2 DEF Planned, WrapperNames
  <2>3. CASE r = "decode"
    BY <2>3 DEF Planned, WrapperNames
  <2>4. CASE r = "mixed_unified"
    BY <2>4 DEF Planned, WrapperNames
  <2>5. CASE r = "mixed_split"
    BY <2>5 DEF Planned, WrapperNames
  <2> QED  BY <1>2, <2>1, <2>2, <2>3, <2>4, <2>5 DEF Routes
<1> QED  BY <1>1, <1>2, <1>3

(* The wrappers stay as they were planned until the forward pass.           *)
LEMMA WrapperStep ==
    ASSUME SessionInv, StepInv, WrapperInv, [Next]_vars
    PROVE  WrapperInv'
<1>0. DOMAIN wrappers = WrapperNames
  BY DEF WrapperInv, WrapperNames
<1>1. ASSUME NEW w, wrappers' = UpdatedWrappers(w) PROVE DOMAIN wrappers' = WrapperNames
  BY <1>0, <1>1 DEF UpdatedWrappers
<1>2. DOMAIN wrappers' = WrapperNames
  <2>1. ASSUME wrappers' = wrappers PROVE DOMAIN wrappers' = WrapperNames
    BY <1>0, <2>1
  <2>2. ASSUME NEW r \in Requests, NEW n \in 1 .. MaxNumBatchedTokens,
               NEW d \in Requests \cup {NoRequest}, AddRow(r, n, d)
        PROVE  wrappers' = wrappers
    BY <2>2 DEF AddRow, runnerVars
  <2>3. ASSUME NEW config \in Configs, Construct(config) \/ ConstructFails(config)
        PROVE  wrappers' = wrappers
    BY <2>3 DEF Construct, ConstructFails
  <2>4. CASE \/ WarmupModel \/ InitializeGraphStates \/ AllocateKvCache \/ EndCapture
             \/ CaptureFails \/ PrepareModelInput \/ SelectRuntimeMode \/ RunEagerly
             \/ ReplayGraph \/ Sample \/ WarmupEnd \/ Postprocess \/ UNCHANGED vars
    <3>1. wrappers' = wrappers
      BY <2>4
      DEF WarmupModel, InitializeGraphStates, AllocateKvCache, EndCapture, CaptureFails,
          PrepareModelInput, StartRun, SelectRuntimeMode, RunEagerly, ReplayGraph, Sample,
          WarmupEnd, Postprocess, runnerVars, vars
    <3> QED  BY <2>1, <3>1
  <2>5. CASE RunFails \/ Exit
    BY <2>5 DEF RunFails, Exit, Discard, NoWrappers, WrapperNames
  <2>6. CASE BeginCapture
    BY <1>1, <2>6 DEF BeginCapture
  <2>7. CASE BuildPlan
    BY <1>0, <1>1, <2>7 DEF BuildPlan
  <2> QED
    BY <2>1, <2>2, <2>3, <2>4, <2>5, <2>6, <2>7 DEF Next, Initialize, Capture, Run
<1>3. ASSUME step'.pc \in {"planned", "dispatched"}, Backend(engine'.config) = "flashinfer"
      PROVE  PlannedBy(wrappers', context'.metadata, context'.route)
  <2>1. CASE BuildPlan
    <3>1. PICK m : m = context.metadata
      OBVIOUS
    <3>2. PICK route : route = Route(m, SupportsUnifiedMixed(engine.config))
      OBVIOUS
    <3>3. engine' = engine /\ Planning
      BY <2>1 DEF BuildPlan, StepInv
    <3>4. context' = [context EXCEPT !.route = route] /\ wrappers' = UpdatedWrappers(Planned(m, route))
      BY <1>3, <2>1, <3>1, <3>2, <3>3 DEF BuildPlan
    <3>5. context'.metadata = m /\ context'.route = route
      BY <3>1, <3>3, <3>4 DEF Planning
    <3>6. DOMAIN Planned(m, route) \subseteq DOMAIN wrappers
      BY <1>0, <3>2, PlannedWrappers
    <3>7. PICK w : w = Planned(m, route)
      OBVIOUS
    <3>8. ASSUME NEW x \in DOMAIN w PROVE wrappers'[x] = w[x]
      BY <3>4, <3>6, <3>7 DEF UpdatedWrappers
    <3> QED  BY <3>5, <3>7, <3>8 DEF PlannedBy
  <2>2. CASE SelectRuntimeMode
    <3>1. engine' = engine /\ wrappers' = wrappers /\ step.pc = "planned" /\ PlanMade
      BY <2>2 DEF SelectRuntimeMode, StepInv
    <3>2. PICK z : context' = [context EXCEPT !.mode = z]
      BY <2>2 DEF SelectRuntimeMode
    <3>3. context'.metadata = context.metadata /\ context'.route = context.route
      BY <3>1, <3>2 DEF PlanMade, Planning
    <3> QED  BY <1>3, <3>1, <3>3 DEF WrapperInv
  <2>3. CASE UNCHANGED vars
    BY <1>3, <2>3 DEF WrapperInv, vars, runnerVars
  <2>4. CASE WarmupModel \/ PrepareModelInput
    BY <1>3, <2>4 DEF WarmupModel, PrepareModelInput, StartRun
  <2>5. CASE NoInput'
    BY <1>3, <2>5 DEF NoInput
  <2> QED  BY <2>1, <2>2, <2>3, <2>4, <2>5, InputLeft
<1>4. WrapperInv' <=> /\ DOMAIN wrappers' = WrapperNames
                      /\ step'.pc \in {"planned", "dispatched"} /\ Backend(engine'.config) = "flashinfer" =>
                            PlannedBy(wrappers', context'.metadata, context'.route)
  BY DEF WrapperInv, WrapperNames, Backend, NoBackend, PlannedBy
<1> QED  BY <1>2, <1>3, <1>4

Shaped(states) == \A b \in DOMAIN states : DOMAIN states[b] = StateFields

(* Graph states keep their buffers, whatever is written to them.            *)
LEMMA ShapeStep ==
    ASSUME Shaped(graph_states), [Next]_vars
    PROVE  Shaped(graph_states')
<1>1. ASSUME graph_states' = graph_states PROVE Shaped(graph_states')
  BY <1>1
<1>2. ASSUME NEW r \in Requests, NEW n \in 1 .. MaxNumBatchedTokens,
             NEW d \in Requests \cup {NoRequest}, AddRow(r, n, d)
      PROVE  graph_states' = graph_states
  BY <1>2 DEF AddRow, runnerVars
<1>3. ASSUME NEW config \in Configs, Construct(config) \/ ConstructFails(config)
      PROVE  graph_states' = graph_states
  BY <1>3 DEF Construct, ConstructFails
<1>4. CASE \/ WarmupModel \/ AllocateKvCache \/ CaptureFails \/ PrepareModelInput
           \/ BuildPlan \/ SelectRuntimeMode \/ RunEagerly \/ Sample
           \/ WarmupEnd \/ Postprocess \/ UNCHANGED vars
  <2>1. graph_states' = graph_states
    BY <1>4
    DEF WarmupModel, AllocateKvCache, CaptureFails, PrepareModelInput, StartRun, BuildPlan,
        SelectRuntimeMode, RunEagerly, Sample, WarmupEnd, Postprocess, runnerVars, vars
  <2> QED  BY <1>1, <2>1
<1>5. CASE RunFails \/ Exit
  <2>1. DOMAIN graph_states' = {}
    BY <1>5 DEF RunFails, Exit, Discard, NoGraphs
  <2> QED  BY <2>1 DEF Shaped
<1>6. CASE InitializeGraphStates
  <2>1. DOMAIN NewGraphState = StateFields
    BY DEF NewGraphState, StateFields
  <2>2. graph_states' = [b \in Buckets |-> NewGraphState]
    BY <1>6 DEF InitializeGraphStates
  <2> QED  BY <2>1, <2>2 DEF Shaped
<1>7. CASE BeginCapture
  <2>1. PICK b : b = Max(Uncaptured)
    OBVIOUS
  <2>2. PICK k, i, p, s :
          graph_states' = [graph_states EXCEPT ![b] =
              [@ EXCEPT !.kernel = k, !.input_ids = i, !.positions = p, !.slot_mapping = s]]
    BY <1>7, <2>1, Zenon DEF BeginCapture
  <2> QED  BY <2>2 DEF Shaped
<1>8. CASE EndCapture
  <2>1. PICK b, h :
          graph_states' = [graph_states EXCEPT ![b] =
              [graph_states[b] EXCEPT !.captured = TRUE, !.hidden = h]]
    BY <1>8, Zenon DEF EndCapture
  <2> QED  BY <2>1 DEF Shaped
<1>9. CASE ReplayGraph
  <2>1. PICK b, g, h : /\ graph_states' = [graph_states EXCEPT ![b] = [g EXCEPT !.hidden = h]]
                       /\ g = Filled(graph_states[b])
    BY <1>9, Zenon DEF ReplayGraph
  <2>2. PICK k, i, p, s : g = [graph_states[b] EXCEPT !.kernel = k, !.input_ids = i,
                                                      !.positions = p, !.slot_mapping = s]
    BY <2>1, Zenon DEF Filled
  <2> QED  BY <2>1, <2>2 DEF Shaped
<1> QED
  BY <1>1, <1>2, <1>3, <1>4, <1>5, <1>6, <1>7, <1>8, <1>9 DEF Next, Initialize, Capture, Run

(* A replay that was dispatched has a graph for the size of its batch.      *)
LEMMA ReplayStep ==
    ASSUME SessionInv, StepInv, ReplayInv, [Next]_vars
    PROVE  ReplayInv'
<1>1. Shaped(graph_states')
  BY ShapeStep DEF ReplayInv, Shaped
<1>2. ASSUME step'.pc = "dispatched", context'.mode = "full_graph"
      PROVE  /\ context'.route = "decode"
             /\ context'.metadata.num_decode_seqs \in DOMAIN graph_states'
  <2>1. CASE SelectRuntimeMode
    <3>1. PICK b : b = context.metadata.num_decode_seqs
      OBVIOUS
    <3>2. PICK z \in BOOLEAN : z = ( /\ engine.config.policy # "none" /\ IsDecodeStep
                                     /\ b \in DOMAIN graph_states
                                     /\ graph_states[b].captured /\ MetadataFits(b))
      OBVIOUS
    <3>3. context' = [context EXCEPT !.mode = IF z THEN "full_graph" ELSE "eager"]
      BY <2>1, <3>1, <3>2 DEF SelectRuntimeMode
    <3>4. PlanMade /\ graph_states' = graph_states
      BY <2>1 DEF SelectRuntimeMode, StepInv
    <3>5. /\ context'.metadata = context.metadata /\ context'.route = context.route
          /\ context'.mode = IF z THEN "full_graph" ELSE "eager"
      BY <3>3, <3>4 DEF PlanMade, Planning
    <3>6. z
      BY <1>2, <3>5
    <3>7. b \in DOMAIN graph_states /\ context.route = "decode"
      BY <3>2, <3>6 DEF MetadataFits, BackendMetadataFits
    <3> QED  BY <3>1, <3>4, <3>5, <3>7
  <2>2. CASE UNCHANGED vars
    BY <1>2, <2>2 DEF ReplayInv, vars, runnerVars
  <2>3. CASE WarmupModel \/ PrepareModelInput
    BY <1>2, <2>3 DEF WarmupModel, PrepareModelInput, StartRun
  <2>4. CASE BuildPlan
    <3>1. step' = [step EXCEPT !.pc = "planned"] /\ "pc" \in DOMAIN step
      BY <2>4 DEF BuildPlan, StepInv, Planning
    <3> QED  BY <1>2, <3>1
  <2>5. CASE NoInput'
    BY <1>2, <2>5 DEF NoInput
  <2> QED  BY <2>1, <2>2, <2>3, <2>4, <2>5, InputLeft
<1>3. ReplayInv' <=> /\ Shaped(graph_states')
                     /\ step'.pc = "dispatched" /\ context'.mode = "full_graph" =>
                            /\ context'.route = "decode"
                            /\ context'.metadata.num_decode_seqs \in DOMAIN graph_states'
  BY DEF ReplayInv, Shaped
<1> QED  BY <1>1, <1>2, <1>3

(* What passes between the steps holds in every reachable state.            *)
LEMMA FlowStep ==
    ASSUME RunnerInv, FlowInv, [Next]_vars
    PROVE  FlowInv'
<1>1. SessionInv /\ StepInv /\ EngineInv /\ CacheInv /\ InputInv /\ WrapperInv /\ ReplayInv
  BY DEF RunnerInv, FlowInv
<1>2. EngineInv' /\ CacheInv' /\ InputInv' /\ WrapperInv' /\ ReplayInv'
  BY <1>1, EngineStep, CacheStep, InputStep, WrapperStep, ReplayStep
<1> QED  BY <1>2 DEF FlowInv

LEMMA FlowInit == Init => FlowInv
<1> SUFFICES ASSUME Init PROVE FlowInv
  OBVIOUS
<1>1. EngineInv /\ CacheInv
  BY DEF Init, EngineInv, CacheInv
<1>2. InputInv
  BY DEF Init, InputInv, Idle
<1>3. WrapperInv /\ ReplayInv
  BY DEF Init, WrapperInv, ReplayInv, Idle, NoWrappers, NoGraphs
<1> QED  BY <1>1, <1>2, <1>3 DEF FlowInv

-----------------------------------------------------------------------------

(* The forward pass: what it stores, what it reads, what it computes.       *)

(* A slot belongs to one token: another request has it only if its first     *)
(* page is shared, and then for the same token at the same position.        *)
LEMMA SlotsApart ==
    ASSUME BatchInv, PagesShared,
           NEW r \in Requests, Unfinished(r), NEW p \in 0 .. ContextEnd(requests[r]) - 1,
           NEW d \in Requests, Unfinished(d), NEW t \in 0 .. ContextEnd(requests[d]) - 1,
           SlotOf(requests[r], p) = SlotOf(requests[d], t)
    PROVE  TokenKey(r, p) = TokenKey(d, t)
<1>1. PICK B \in Nat \ {0} : B = BlockSize
  BY ConstantFacts
<1>2. PICK a \in Nat, s \in 0 .. B - 1 : a = p \div B /\ s = p % B
  BY <1>1, SlotOfRequest
<1>3. PICK b \in Nat, u \in 0 .. B - 1 : b = t \div B /\ u = t % B
  BY <1>1, SlotOfRequest
<1>4. /\ a + 1 \in 1 .. Len(requests[r].block_table)
      /\ b + 1 \in 1 .. Len(requests[d].block_table)
  BY <1>1, <1>2, <1>3, SlotOfRequest
<1>5. PICK g \in Nat : g = PageOf(requests[r], p)
  <2>1. PageOf(requests[r], p) \in Pages
    BY SlotOfRequest
  <2> QED  BY <2>1, ConstantFacts DEF Pages
<1>6. PICK h \in Nat : h = PageOf(requests[d], t)
  <2>1. PageOf(requests[d], t) \in Pages
    BY SlotOfRequest
  <2> QED  BY <2>1, ConstantFacts DEF Pages
<1>7. g * B + s = h * B + u
  BY <1>1, <1>2, <1>3, <1>5, <1>6 DEF SlotOf
<1>8. g = h /\ s = u
  <2>1. (g * B + s) \div B = g /\ (g * B + s) % B = s
    BY QuotientUnique
  <2>2. (h * B + u) \div B = h /\ (h * B + u) % B = u
    BY QuotientUnique
  <2> QED  BY <1>7, <2>1, <2>2
<1>9. requests[r].block_table[a + 1] = requests[d].block_table[b + 1]
  BY <1>1, <1>2, <1>3, <1>5, <1>6, <1>8 DEF PageOf
<1>10. a + 1 = b + 1 /\ (r # d => a + 1 = 1 /\ SamePage(r, d))
  <2>1. Apart(r, d)
    BY DEF PagesShared
  <2> QED  BY <1>4, <1>9, <2>1 DEF Apart
<1>11. p \in Nat /\ t \in Nat
  OBVIOUS
<1>12. PICK A \in Nat : A = a * B /\ p = A + s /\ t = A + s
  <2>1. a * B \in Nat
    BY ProductFacts
  <2>2. p = (p \div B) * B + (p % B) /\ t = (t \div B) * B + (t % B)
    BY <1>11, QuotientFacts, Zenon
  <2>3. a = b
    BY <1>10
  <2> QED  BY <1>2, <1>3, <1>8, <2>1, <2>2, <2>3
<1>13. p = t
  BY <1>12
<1>14. CASE r = d
  BY <1>13, <1>14
<1>15. CASE r # d
  <2>1. a = 0 /\ SamePage(r, d)
    BY <1>10, <1>15
  <2>2. A = 0
    BY <1>12, <2>1
  <2>3. p + 1 \in 1 .. BlockSize
    BY <1>1, <1>12, <2>2
  <2>4. Text[r][p + 1] = Text[d][p + 1]
    BY <2>1, <2>3 DEF SamePage
  <2> QED  BY <1>13, <2>4 DEF TokenKey
<1> QED  BY <1>14, <1>15

(* The rows of a batch that is served.                                      *)
LEMMA ServedRow ==
    ASSUME BatchInv, NEW i \in 1 .. Len(batch)
    PROVE  /\ batch[i] \in Requests /\ Unfinished(batch[i])
           /\ TokenRow(RowOf(batch[i]))
           /\ RowOf(batch[i]).num_cached_tokens = requests[batch[i]].num_cached_tokens
           /\ RowOf(batch[i]).num_new_tokens = requests[batch[i]].num_new_tokens
           /\ ContextEnd(RowOf(batch[i])) = ContextEnd(requests[batch[i]])
           /\ \A p : SlotOf(RowOf(batch[i]), p) = SlotOf(requests[batch[i]], p)
           /\ \A p \in 0 .. ContextEnd(requests[batch[i]]) - 1 :
                KeyOf(RowOf(batch[i]).token_ids[p + 1], p) = TokenKey(batch[i], p)
<1>1. PICK r \in Requests : r = batch[i]
  BY DEF BatchInv
<1>2. Unfinished(r)
  BY <1>1 DEF BatchInv, BatchedRow, Unfinished
<1>3. PICK c \in Nat, n \in Nat, l \in Nat :
          /\ c = requests[r].num_cached_tokens /\ n = requests[r].num_new_tokens
          /\ l = requests[r].length /\ ContextEnd(requests[r]) = c + n /\ c + n <= l
  <2>1. /\ requests[r].num_cached_tokens \in Nat /\ requests[r].num_new_tokens \in Nat
        /\ ContextEnd(requests[r]) = requests[r].num_cached_tokens + requests[r].num_new_tokens
        /\ ContextEnd(requests[r]) <= requests[r].length
        /\ requests[r].length \in 1 .. MaxModelLen
    BY RequestFacts, Zenon
  <2>2. requests[r].length \in Nat
    BY <2>1
  <2> QED  BY <2>1, <2>2
<1>4. /\ RowOf(r).num_cached_tokens = c /\ RowOf(r).num_new_tokens = n
      /\ RowOf(r).block_table = requests[r].block_table
  BY <1>3 DEF RowOf
<1>5. ContextEnd(RowOf(r)) = c + n
  BY <1>4 DEF ContextEnd
<1>6. TokenRow(RowOf(r))
  BY <1>3, <1>4, <1>5, TokensOf DEF TokenRow
<1>7. \A p : SlotOf(RowOf(r), p) = SlotOf(requests[r], p)
  BY <1>4 DEF SlotOf, PageOf
<1>8. ASSUME NEW p \in 0 .. ContextEnd(requests[r]) - 1
      PROVE  KeyOf(RowOf(r).token_ids[p + 1], p) = TokenKey(r, p)
  <2>1. p + 1 \in 1 .. l
    <3>1. p \in 0 .. (c + n) - 1 /\ c + n <= l
      BY <1>3
    <3> QED  BY <3>1
  <2>2. RowOf(r).token_ids[p + 1] = Text[r][p + 1]
    BY <1>3, <2>1, TokensOf
  <2> QED  BY <2>2 DEF TokenKey
<1> QED  BY <1>1, <1>2, <1>3, <1>4, <1>5, <1>6, <1>7, <1>8

(* ... are the rows of its requests, and satisfy what metadata asks for.    *)
LEMMA ServedRows ==
    ASSUME BatchInv, engine.phase = "serving", batch # <<>>
    PROVE  /\ Rows \in Seq(AnyRow) /\ Len(Rows) = Len(batch) /\ DOMAIN Rows = 1 .. Len(Rows)
           /\ Len(batch) \in Nat
           /\ GivenPrefills = num_prefill /\ GoodRows(Rows, num_prefill) /\ IsPaged(Rows)
           /\ \A i \in 1 .. Len(Rows) : /\ i \in 1 .. Len(batch) /\ Rows[i] = RowOf(batch[i])
                                        /\ TokenRow(Rows[i])
<1>1. engine.phase # "warmup"
  OBVIOUS
<1>2. /\ Rows \in Seq(AnyRow) /\ Len(Rows) = Len(batch)
      /\ \A i \in 1 .. Len(batch) : Rows[i] = RowOf(batch[i])
      /\ GoodRows(Rows, num_prefill) /\ IsPaged(Rows)
  BY <1>1, RowsOfBatch
<1>3. DOMAIN Rows = 1 .. Len(Rows) /\ Len(batch) \in Nat
  BY <1>2 DEF BatchInv
<1>4. \A i \in 1 .. Len(batch) : TokenRow(RowOf(batch[i]))
  BY ServedRow
<1>5. GivenPrefills = num_prefill
  BY <1>1 DEF GivenPrefills
<1> QED  BY <1>2, <1>3, <1>4, <1>5

(* After the store kernel every token that is computed is in its slot.       *)
LEMMA KeysForwarded ==
    ASSUME BatchInv, PagesShared, KeysStored, engine.phase = "serving", batch # <<>>,
           DOMAIN kv_cache = Slots,
           kv_cache' = Store(kv_cache, FlattenSeq(IdLists(Rows)),
                             FlattenSeq(PositionLists(Rows)), FlattenSeq(SlotLists(Rows))),
           UNCHANGED <<requests, batch>>
    PROVE  \A r \in Requests : Unfinished(r) => Holds(r)'
<1>1. PICK rows : rows = Rows
  OBVIOUS
<1>2. /\ rows \in Seq(AnyRow) /\ Len(rows) = Len(batch) /\ Len(batch) \in Nat
      /\ GoodRows(rows, num_prefill) /\ IsPaged(rows)
      /\ \A i \in 1 .. Len(rows) : /\ i \in 1 .. Len(batch) /\ rows[i] = RowOf(batch[i])
                                   /\ TokenRow(rows[i])
  BY <1>1, ServedRows
<1> SUFFICES ASSUME NEW r \in Requests, Unfinished(r),
                      NEW p \in 0 .. ContextEnd(requests[r]) - 1
               PROVE  kv_cache'[SlotOf(requests[r], p)] = TokenKey(r, p)
  BY DEF Holds, TokenKey
<1>4. PICK slot : slot = SlotOf(requests[r], p)
  OBVIOUS
<1>5. PICK key : key = TokenKey(r, p)
  OBVIOUS
<1>6. slot \in DOMAIN kv_cache
  BY <1>4, SlotOfRequest
<1>7. WritesOnly(rows, slot, key)
  <2> SUFFICES ASSUME NEW i \in 1 .. Len(rows),
                      NEW t \in rows[i].num_cached_tokens .. ContextEnd(rows[i]) - 1,
                      SlotOf(rows[i], t) = slot
               PROVE  KeyOf(rows[i].token_ids[t + 1], t) = key
    BY DEF WritesOnly
  <2>1. PICK d : d = batch[i]
    OBVIOUS
  <2>2. i \in 1 .. Len(batch) /\ rows[i] = RowOf(d)
    BY <1>2, <2>1
  <2>3. /\ d \in Requests /\ Unfinished(d)
        /\ RowOf(d).num_cached_tokens = requests[d].num_cached_tokens
        /\ ContextEnd(RowOf(d)) = ContextEnd(requests[d])
        /\ \A x : SlotOf(RowOf(d), x) = SlotOf(requests[d], x)
        /\ \A x \in 0 .. ContextEnd(requests[d]) - 1 :
                KeyOf(RowOf(d).token_ids[x + 1], x) = TokenKey(d, x)
    BY <2>1, <2>2, ServedRow
  <2>4. PICK c \in Nat, e \in Nat :
            c = requests[d].num_cached_tokens /\ e = ContextEnd(requests[d])
    BY <2>3, RequestFacts
  <2>5. t \in c .. e - 1
    BY <2>2, <2>3, <2>4
  <2>6. t \in 0 .. ContextEnd(requests[d]) - 1
    BY <2>4, <2>5
  <2>7. SlotOf(requests[r], p) = SlotOf(requests[d], t)
    BY <1>4, <2>2, <2>3
  <2>8. TokenKey(r, p) = TokenKey(d, t)
    BY <2>3, <2>6, <2>7, SlotsApart
  <2> QED  BY <1>5, <2>2, <2>3, <2>6, <2>8
<1>8. ASSUME NEW d \in Range(batch), NEW t \in requests[d].num_cached_tokens .. ContextEnd(requests[d]) - 1,
             SlotOf(requests[d], t) = slot
      PROVE  Written(rows, slot)
  <2>1. PICK i \in 1 .. Len(batch) : d = batch[i]
    BY DEF Range, BatchInv
  <2>2. i \in 1 .. Len(rows) /\ rows[i] = RowOf(d)
    BY <1>2, <2>1
  <2>3. /\ RowOf(d).num_cached_tokens = requests[d].num_cached_tokens
        /\ ContextEnd(RowOf(d)) = ContextEnd(requests[d])
        /\ SlotOf(RowOf(d), t) = SlotOf(requests[d], t)
    BY <2>1, ServedRow
  <2>4. /\ t \in rows[i].num_cached_tokens .. ContextEnd(rows[i]) - 1
        /\ SlotOf(rows[i], t) = slot
    BY <1>8, <2>2, <2>3
  <2> QED  BY <2>2, <2>4 DEF Written
<1>9. kv_cache[slot] = key \/ Written(rows, slot)
  <2>1. PICK c \in Nat, n \in Nat, e \in Nat :
            /\ c = requests[r].num_cached_tokens /\ n = requests[r].num_new_tokens
            /\ e = ContextEnd(requests[r]) /\ e = c + n
    BY RequestFacts
  <2>2. CASE p < c
    <3>1. p \in 0 .. c - 1
      BY <2>1, <2>2
    <3>2. Known(r, p)
      BY <2>1, <3>1 DEF KeysStored
    <3>3. \/ kv_cache[slot] = key
          \/ \E d \in Requests : WillWrite(d, p) /\ SlotOf(requests[d], p) = slot
      BY <1>4, <1>5, <3>2 DEF Known
    <3> QED  BY <1>8, <3>3 DEF WillWrite
  <2>3. CASE p >= c
    <3>1. n # 0
      BY <2>1, <2>3
    <3>2. r \in Range(batch)
      BY <2>1, <3>1, RequestFacts
    <3>3. p \in requests[r].num_cached_tokens .. ContextEnd(requests[r]) - 1
      BY <2>1, <2>3
    <3> QED  BY <1>4, <1>8, <3>2, <3>3
  <2> QED  BY <2>1, <2>2, <2>3
<1>10. Store(kv_cache, FlattenSeq(IdLists(rows)), FlattenSeq(PositionLists(rows)),
             FlattenSeq(SlotLists(rows)))[slot] = key
  <2>1. \A i \in 1 .. Len(rows) : TokenRow(rows[i])
    BY <1>2
  <2> QED  BY <1>2, <1>6, <1>7, <1>9, <2>1, StoreOfRows
<1> QED  BY <1>1, <1>4, <1>5, <1>10

(* Two kernels that always describe a batch: that of unified attention, and,  *)
(* for a batch of decodes, that of the decode wrapper and of a graph.       *)
LEMMA UnifiedAttends ==
    ASSUME NEW R, NEW rows \in Seq(R), NEW p, GoodRows(rows, p), IsPaged(rows),
           NEW m, m = Metadata(rows, p), NEW cache
    PROVE  Attend(UnifiedKernel(m), cache) = FlattenSeq(SeenOfRows(cache, rows))
<1>1. PICK L \in Nat : L = Len(rows)
  OBVIOUS
<1>2. Described(m, rows, L, p)
  BY <1>1, BatchDescribed
<1>3. /\ \A i \in 1 .. Len(rows) : PagedRow(rows[i])
      /\ Queried(m.query_start_loc, rows)
      /\ Indexed(KvIndptr(m), PageIndices(m), rows) /\ m.seq_lens = Contexts(rows)
  BY <1>1, <1>2 DEF Described
<1>4. Describes(Kernel(m.query_start_loc, KvIndptr(m), PageIndices(m), Contexts(rows)), rows)
  BY <1>3, KernelDescribes
<1>5. PICK kernel : kernel = UnifiedKernel(m)
  OBVIOUS
<1>6. Describes(kernel, rows)
  BY <1>3, <1>4, <1>5 DEF UnifiedKernel
<1>7. Attend(kernel, cache) = FlattenSeq(SeenOfRows(cache, rows))
  BY <1>1, <1>3, <1>6, Attends
<1> QED  BY <1>5, <1>7

LEMMA DecodeAttends ==
    ASSUME NEW R, NEW rows \in Seq(R), NEW p, GoodRows(rows, p), IsPaged(rows),
           NEW m, m = Metadata(rows, p), NEW unified, Route(m, unified) = "decode", NEW cache
    PROVE  Attend(DecodeKernel(KvIndptr(m), PageIndices(m), LastPageLen(m)), cache)
                = FlattenSeq(SeenOfRows(cache, rows))
<1>1. PICK L \in Nat : L = Len(rows)
  OBVIOUS
<1>2. Described(m, rows, L, p)
  BY <1>1, BatchDescribed
<1>3. /\ \A i \in 1 .. L : PagedRow(rows[i])
      /\ \A i \in p + 1 .. L : rows[i].num_new_tokens = 1
      /\ m.num_prefill_seqs = p /\ m.paged
      /\ KvIndptr(m) \in [1 .. L + 1 -> Nat]
      /\ Indexed(KvIndptr(m), PageIndices(m), rows) /\ LastPageLen(m) = LastPages(rows)
  BY <1>2 DEF Described
<1>4. p = 0
  BY <1>3 DEF Route, BatchType
<1>5. \A i \in 1 .. Len(rows) : rows[i].num_new_tokens = 1
  BY <1>1, <1>3, <1>4
<1>6. PICK k : k = KvIndptr(m)
  OBVIOUS
<1>7. Len(k) = Len(rows) + 1
  BY <1>1, <1>3, <1>6
<1>8. PICK kernel : kernel = DecodeKernel(KvIndptr(m), PageIndices(m), LastPageLen(m))
  OBVIOUS
<1>9. Describes(kernel, rows)
  BY <1>1, <1>3, <1>5, <1>6, <1>7, <1>8, DecodeKernelDescribes
<1>10. Attend(kernel, cache) = FlattenSeq(SeenOfRows(cache, rows))
  BY <1>1, <1>3, <1>9, Attends
<1> QED  BY <1>8, <1>10

(* Without a cache a query sees the keys of the same pass.                  *)
CachelessRows(S, o, ids, positions) ==
    FlattenSeq([i \in S |->
        [j \in 1 .. o[i + 1] - o[i] |->
            [x \in 1 .. j |-> KeyOf(ids[o[i] + x], positions[o[i] + x])]]])

(* Attention without a cache, as in memory warmup, lets each query see the  *)
(* tokens of its own row up to itself.                                      *)
THEOREM CachelessAttends ==
    ASSUME NEW R, NEW rows \in Seq(R), NEW L \in Nat, L = Len(rows), NEW p, GoodRows(rows, p),
           \A i \in 1 .. L : TokenRow(rows[i]) /\ rows[i].num_cached_tokens = 0,
           NEW m, m = Metadata(rows, p),
           NEW ids, ids = FlattenSeq(IdLists(rows)),
           NEW positions, positions = FlattenSeq(PositionLists(rows))
    PROVE  AttendCacheless(m, ids, positions)
                = FlattenSeq([i \in 1 .. L |-> ReferenceSeen(rows[i])])
<1>1. DOMAIN rows = 1 .. L
  OBVIOUS
<1>2. PICK O : O = Offsets(QueryLens(rows))
  OBVIOUS
<1>3. m.query_start_loc = O /\ m.seq_lens = [i \in DOMAIN rows |-> ContextEnd(rows[i])]
  BY <1>2, MetadataFields
<1>4. DOMAIN m.seq_lens = 1 .. L
  BY <1>1, <1>3
<1>5. PICK a : a = IdLists(rows)
  OBVIOUS
<1>6. PICK b : b = PositionLists(rows)
  OBVIOUS
<1>7. /\ a = [i \in 1 .. L |-> a[i]] /\ \A i \in 1 .. L : a[i] = InputIds(rows[i])
      /\ b = [i \in 1 .. L |-> b[i]] /\ \A i \in 1 .. L : b[i] = Positions(rows[i])
  BY <1>1, <1>5, <1>6 DEF IdLists, PositionLists
<1>8. ASSUME NEW i \in 1 .. L
      PROVE  /\ Sequenced(a[i]) /\ Len(a[i]) = rows[i].num_new_tokens
             /\ Sequenced(b[i]) /\ Len(b[i]) = rows[i].num_new_tokens
  <2>1. PICK n \in Nat : n = rows[i].num_new_tokens
    BY DEF TokenRow
  <2>2. PICK x : x = InputIds(rows[i])
    OBVIOUS
  <2>3. PICK y : y = Positions(rows[i])
    OBVIOUS
  <2>4. Len(x) = n /\ x = [j \in 1 .. n |-> x[j]] /\ Len(y) = n /\ y = [j \in 1 .. n |-> y[j]]
    BY <2>1, <2>2, <2>3, InputsOfRow
  <2> QED  BY <1>7, <2>1, <2>2, <2>3, <2>4 DEF Sequenced
<1>9. Packs(a, L) /\ Packs(b, L)
  <2>1. /\ \A i \in 1 .. L : Sequenced(a[i])
        /\ \A i \in 1 .. L : Sequenced(b[i])
    BY <1>8
  <2> QED  BY <1>7, <2>1, PackingOf
<1>10. LengthsOf(a) = QueryLens(rows) /\ LengthsOf(b) = QueryLens(rows)
  <2>1. Len(a) = L /\ Len(b) = L
    BY <1>9, PacksTyped
  <2>2. QueryLens(rows) = [i \in 1 .. L |-> rows[i].num_new_tokens]
    BY <1>1 DEF QueryLens
  <2> QED  BY <1>8, <2>1, <2>2 DEF LengthsOf
<1>11. Places(a, L, ids) /\ Places(b, L, positions)
  BY <1>5, <1>6, <1>9, FlattenPlaces
<1>12. ASSUME NEW i \in 1 .. L
       PROVE  O[i + 1] - O[i] = rows[i].num_new_tokens
  <2>1. PICK q : q = QueryLens(rows)
    OBVIOUS
  <2>2. q \in Seq(Nat) /\ Len(q) = L /\ q[i] = rows[i].num_new_tokens
    BY <1>1, <2>1, RowSums
  <2>3. O \in [1 .. L + 1 -> Nat] /\ O[i + 1] = O[i] + q[i]
    BY <1>2, <2>1, <2>2, OffsetsFacts
  <2>4. O[i] \in Nat /\ q[i] \in Nat
    <3>1. i \in 1 .. L + 1
      OBVIOUS
    <3>2. O[i] \in Nat
      BY <2>3, <3>1
    <3> QED  BY <2>2, <3>2
  <2> QED  BY <2>2, <2>3, <2>4
<1> DEFINE K(i, x) == KeyOf(ids[O[i] + x], positions[O[i] + x])
           seen(i) == [j \in 1 .. O[i + 1] - O[i] |-> [x \in 1 .. j |-> K(i, x)]]
<1>13. ASSUME NEW i \in 1 .. L PROVE seen(i) = ReferenceSeen(rows[i])
  <2>1. PICK n \in Nat : n = rows[i].num_new_tokens
    BY DEF TokenRow
  <2> DEFINE row == rows[i]
             T(x) == KeyOf(row.token_ids[x], x - 1)
  <2>2. ASSUME NEW x \in 1 .. n PROVE K(i, x) = T(x)
    <3>1. x \in 1 .. Len(a[i]) /\ x \in 1 .. Len(b[i])
      BY <1>8, <2>1
    <3>2. ids[O[i] + x] = a[i][x]
      BY <1>2, <1>10, <1>11, <3>1 DEF Places
    <3>3. positions[O[i] + x] = b[i][x]
      BY <1>2, <1>10, <1>11, <3>1 DEF Places
    <3>4. a[i][x] = row.token_ids[0 + x] /\ b[i][x] = 0 + x - 1
      <4>1. TokenRow(row) /\ row.num_cached_tokens = 0
        OBVIOUS
      <4>2. /\ \A j \in 1 .. row.num_new_tokens :
                  InputIds(row)[j] = row.token_ids[row.num_cached_tokens + j]
            /\ \A j \in 1 .. row.num_new_tokens :
                  Positions(row)[j] = row.num_cached_tokens + j - 1
        BY <4>1, InputsOfRow
      <4> QED  BY <1>7, <2>1, <4>1, <4>2
    <3>5. 0 + x = x /\ 0 + x - 1 = x - 1
      OBVIOUS
    <3> QED  BY <3>2, <3>3, <3>4, <3>5
  <2>3. O[i + 1] - O[i] = n
    BY <1>12, <2>1
  <2>4. ReferenceSeen(row) = [j \in 1 .. n |-> [x \in 1 .. 0 + j |-> T(x)]]
    BY <2>1 DEF ReferenceSeen, KeysTo
  <2>5. seen(i) = [j \in 1 .. n |-> [x \in 1 .. j |-> K(i, x)]]
    BY <2>3
  <2> HIDE DEF K, T, seen, row
  <2>6. ASSUME NEW j \in 1 .. n
        PROVE  [x \in 1 .. j |-> K(i, x)] = [x \in 1 .. 0 + j |-> T(x)]
    <3>1. 0 + j = j /\ \A x \in 1 .. j : x \in 1 .. n
      OBVIOUS
    <3>2. \A x \in 1 .. j : K(i, x) = T(x)
      BY <2>2, <3>1
    <3> QED  BY <3>1, <3>2
  <2>7. seen(i) = ReferenceSeen(row)
    BY <2>4, <2>5, <2>6
  <2> QED  BY <2>7 DEF row
<1>14. AttendCacheless(m, ids, positions) = FlattenSeq([i \in 1 .. L |-> seen(i)])
  <2>1. AttendCacheless(m, ids, positions)
            = CachelessRows(DOMAIN m.seq_lens, m.query_start_loc, ids, positions)
    BY DEF AttendCacheless, CachelessRows
  <2>2. AttendCacheless(m, ids, positions) = CachelessRows(1 .. L, O, ids, positions)
    BY <1>3, <1>4, <2>1
  <2> QED  BY <2>2 DEF CachelessRows
<1> HIDE DEF seen
<1>15. [i \in 1 .. L |-> seen(i)] = [i \in 1 .. L |-> ReferenceSeen(rows[i])]
  BY <1>13
<1> QED  BY <1>14, <1>15

(* Rows of memory warmup have nothing cached.                               *)
LEMMA WarmupTokens ==
    ASSUME NEW n \in Nat
    PROVE  /\ TokenRow(WarmupRow(n)) /\ WarmupRow(n).num_cached_tokens = 0
<1>1. PICK s : s = [i \in 1 .. n |-> 0]
  OBVIOUS
<1>2. s \in Seq(Int) /\ Len(s) = n
  BY <1>1
<1>3. WarmupRow(n) = [token_ids |-> s, num_cached_tokens |-> 0, num_new_tokens |-> n,
                      block_table |-> <<>>]
  BY <1>1 DEF WarmupRow
<1>4. PICK row : row = WarmupRow(n)
  OBVIOUS
<1>5. /\ row.token_ids = s /\ row.num_cached_tokens = 0 /\ row.num_new_tokens = n
  BY <1>3, <1>4
<1>6. ContextEnd(row) = n
  BY <1>5 DEF ContextEnd
<1>7. TokenRow(row)
  BY <1>2, <1>5, <1>6 DEF TokenRow
<1> QED  BY <1>4, <1>5, <1>7

(* A cache without slots is the empty one.                                  *)
LEMMA EmptyCache ==
    ASSUME NEW cache, cache = [x \in DOMAIN cache |-> cache[x]], DOMAIN cache = {}
    PROVE  cache = <<>>
<1>1. cache \in [1 .. 0 -> {}]
  OBVIOUS
<1>2. cache \in Seq({}) /\ Len(cache) = 0
  BY <1>1
<1> QED  BY <1>2

(* The state in which a forward pass begins.                                *)
LEMMA Dispatched ==
    ASSUME RunnerInv, FlowInv, step.pc = "dispatched"
    PROVE  /\ BatchInv /\ active_graph = None
           /\ context.metadata = Metadata(Rows, GivenPrefills)
           /\ context.route = Route(context.metadata, SupportsUnifiedMixed(engine.config))
           /\ engine.phase = "warmup" \/ (engine.phase = "serving" /\ batch # <<>>)
           /\ Backend(engine.config) \in {"flashattention", "flashinfer"}
           /\ step.input_ids = FlattenSeq(IdLists(Rows))
           /\ step.positions = FlattenSeq(PositionLists(Rows))
           /\ context.metadata.slot_mapping = FlattenSeq(SlotLists(Rows))
           /\ context.metadata.paged = IsPaged(Rows)
           /\ Backend(engine.config) = "flashinfer" =>
                PlannedBy(wrappers, context.metadata, context.route)
<1>1. BatchInv /\ StepInv /\ EngineInv /\ InputInv /\ WrapperInv
  BY DEF RunnerInv, FlowInv
<1>2. PlanMade /\ active_graph = None
  BY <1>1 DEF StepInv
<1>3. HasRows /\ context.metadata = Metadata(Rows, GivenPrefills)
  BY <1>2 DEF PlanMade, Planning, Running
<1>4. context.route = Route(context.metadata, SupportsUnifiedMixed(engine.config))
  BY <1>2 DEF PlanMade
<1>5. engine.phase \in {"warmup", "serving"} /\ (engine.phase = "serving" => batch # <<>>)
  BY <1>3 DEF HasRows
<1>6. Backend(engine.config) \in {"flashattention", "flashinfer"}
  BY <1>1, <1>5 DEF EngineInv
<1>7. /\ step.input_ids = FlattenSeq(IdLists(Rows))
      /\ step.positions = FlattenSeq(PositionLists(Rows))
  BY <1>1 DEF InputInv
<1>8. /\ context.metadata.slot_mapping = FlattenSeq(SlotLists(Rows))
      /\ context.metadata.paged = IsPaged(Rows)
  <2>1. PICK rows : rows = Rows
    OBVIOUS
  <2>2. PICK p : p = GivenPrefills
    OBVIOUS
  <2>3. PICK m : m = Metadata(rows, p)
    OBVIOUS
  <2>4. m.slot_mapping = FlattenSeq(SlotLists(rows)) /\ m.paged = IsPaged(rows)
    BY <2>3, MetadataFields
  <2> QED  BY <1>3, <2>1, <2>2, <2>3, <2>4
<1>9. Backend(engine.config) = "flashinfer" =>
            PlannedBy(wrappers, context.metadata, context.route)
  BY <1>1 DEF WrapperInv
<1> QED  BY <1>1, <1>2, <1>3, <1>4, <1>5, <1>6, <1>7, <1>8, <1>9

(* Memory warmup: no pages, no cache, and attention over the rows as they    *)
(* are.                                                                    *)
LEMMA WarmupForward ==
    ASSUME RunnerInv, FlowInv, engine.phase = "warmup", RunEagerly
    PROVE  step'.hidden = ReferenceBatch(Rows)
<1>1. step.pc = "dispatched"
  BY DEF RunEagerly
<1> DEFINE m == context.metadata
           ids == step.input_ids
           positions == step.positions
           cache == Store(kv_cache, ids, positions, m.slot_mapping)
<1>2. /\ active_graph = None /\ m = Metadata(Rows, GivenPrefills) /\ m.paged = IsPaged(Rows)
      /\ context.route = Route(m, SupportsUnifiedMixed(engine.config))
      /\ Backend(engine.config) \in {"flashattention", "flashinfer"}
      /\ ids = FlattenSeq(IdLists(Rows)) /\ positions = FlattenSeq(PositionLists(Rows))
  BY <1>1, Dispatched
<1>3. Rows = WarmupRows /\ GivenPrefills = Len(WarmupRows)
  BY DEF Rows, GivenPrefills
<1>4. context.route = "warmup"
  <2>1. ~m.paged
    BY <1>2, <1>3, RowsOfWarmup
  <2> HIDE DEF m
  <2> QED  BY <1>2, <2>1 DEF Route
<1>5. cache = <<>>
  <2>1. DOMAIN kv_cache = {}
    BY DEF FlowInv, CacheInv
  <2>2. PICK c : c = cache
    OBVIOUS
  <2>3. c = [x \in DOMAIN c |-> c[x]] /\ DOMAIN c = {}
    BY <2>1, <2>2 DEF Store
  <2>4. c = <<>>
    BY <2>3, EmptyCache
  <2> QED  BY <2>2, <2>4
<1>6. step'.hidden = Hidden(ids, positions, IF Backend(engine.config) = "flashattention"
                                            THEN FlashAttentionForward(m, cache)
                                            ELSE FlashInferForward(m, cache))
  BY DEF RunEagerly
<1> HIDE DEF m, ids, positions, cache
<1>7. FlashAttentionForward(m, cache) = AttendCacheless(m, ids, positions)
  BY <1>4 DEF FlashAttentionForward, ids, positions
<1>8. FlashInferForward(m, cache) = AttendCacheless(m, ids, positions)
  BY <1>2, <1>5 DEF FlashInferForward, ids, positions
<1>9. step'.hidden = Hidden(ids, positions, AttendCacheless(m, ids, positions))
  BY <1>6, <1>7, <1>8, Zenon
<1>10. PICK rows : rows = WarmupRows
  OBVIOUS
<1>11. /\ rows \in Seq({WarmupRow(n) : n \in Nat}) /\ GoodRows(rows, Len(rows))
  BY <1>10, RowsOfWarmup
<1>12. PICK L \in Nat : L = Len(rows) /\ DOMAIN rows = 1 .. L
  BY <1>11
<1>13. \A i \in 1 .. L : TokenRow(rows[i]) /\ rows[i].num_cached_tokens = 0
  <2> SUFFICES ASSUME NEW i \in 1 .. L
               PROVE  TokenRow(rows[i]) /\ rows[i].num_cached_tokens = 0
    OBVIOUS
  <2>1. rows[i] \in {WarmupRow(n) : n \in Nat}
    BY <1>11, <1>12
  <2>2. PICK n \in Nat : rows[i] = WarmupRow(n)
    BY <2>1
  <2> QED  BY <2>2, WarmupTokens
<1>14. AttendCacheless(m, ids, positions) = FlattenSeq([i \in 1 .. L |-> ReferenceSeen(rows[i])])
  <2>1. m = Metadata(rows, L) /\ GoodRows(rows, L)
    BY <1>2, <1>3, <1>10, <1>11, <1>12
  <2>2. ids = FlattenSeq(IdLists(rows)) /\ positions = FlattenSeq(PositionLists(rows))
    BY <1>2, <1>3, <1>10
  <2> QED  BY <1>11, <1>12, <1>13, <2>1, <2>2, CachelessAttends
<1>15. Hidden(FlattenSeq(IdLists(rows)), FlattenSeq(PositionLists(rows)),
              FlattenSeq([i \in 1 .. L |-> ReferenceSeen(rows[i])])) = ReferenceBatch(rows)
  <2>1. \A i \in 1 .. L : TokenRow(rows[i])
    BY <1>13
  <2> QED  BY <1>12, <2>1, ReferenceOfRows
<1>16. Rows = rows /\ ids = FlattenSeq(IdLists(rows)) /\ positions = FlattenSeq(PositionLists(rows))
  BY <1>2, <1>3, <1>10
<1> QED  BY <1>9, <1>14, <1>15, <1>16

(* What the kernels read once the cache holds the keys of the rows.          *)
LEMMA HeldReference ==
    ASSUME BatchInv, engine.phase = "serving", batch # <<>>,
           NEW cache, \A i \in 1 .. Len(batch) : \A p \in 0 .. ContextEnd(requests[batch[i]]) - 1 :
                cache[SlotOf(requests[batch[i]], p)] = TokenKey(batch[i], p)
    PROVE  Hidden(FlattenSeq(IdLists(Rows)), FlattenSeq(PositionLists(Rows)),
                  FlattenSeq(SeenOfRows(cache, Rows))) = ReferenceBatch(Rows)
<1>1. PICK rows : rows = Rows
  OBVIOUS
<1>2. PICK L \in Nat : L = Len(rows) /\ L = Len(batch) /\ DOMAIN rows = 1 .. L
  BY <1>1, ServedRows
<1>3. \A i \in 1 .. L : rows[i] = RowOf(batch[i]) /\ TokenRow(rows[i])
  BY <1>1, <1>2, ServedRows
<1>4. ASSUME NEW i \in 1 .. L PROVE HoldsKeys(cache, rows[i])
  <2>1. PICK r : r = batch[i]
    OBVIOUS
  <2>2. PICK e \in Nat : e = ContextEnd(requests[r])
    BY <1>2, <2>1, ServedRow, RequestFacts
  <2>3. ContextEnd(rows[i]) = e
    BY <1>2, <1>3, <2>1, <2>2, ServedRow
  <2> SUFFICES ASSUME NEW x \in 1 .. e
               PROVE  CachedKey(cache, rows[i], x) = KeyOf(rows[i].token_ids[x], x - 1)
    BY <2>3 DEF HoldsKeys
  <2>4. PICK p \in 0 .. e - 1 : p = x - 1 /\ p + 1 = x
    <3>1. x - 1 \in 0 .. e - 1 /\ (x - 1) + 1 = x
      OBVIOUS
    <3> QED  BY <3>1
  <2>5. CachedKey(cache, rows[i], x) = cache[SlotOf(RowOf(r), p)]
    BY <1>3, <2>1, <2>4 DEF CachedKey, SlotOf, PageOf
  <2>6. SlotOf(RowOf(r), p) = SlotOf(requests[r], p)
        /\ KeyOf(RowOf(r).token_ids[p + 1], p) = TokenKey(r, p)
    BY <1>2, <2>1, <2>2, ServedRow
  <2>7. cache[SlotOf(requests[r], p)] = TokenKey(r, p)
    BY <1>2, <2>1, <2>2
  <2> QED  BY <1>3, <2>1, <2>4, <2>5, <2>6, <2>7
<1>5. \A i \in 1 .. L : TokenRow(rows[i])
  BY <1>3
<1>6. Hidden(FlattenSeq(IdLists(rows)), FlattenSeq(PositionLists(rows)),
             FlattenSeq(SeenOfRows(cache, rows))) = ReferenceBatch(rows)
  BY <1>2, <1>4, <1>5, PagedReference
<1> QED  BY <1>1, <1>6

(* A forward pass, eager or replayed: the stored batch, and what was read.   *)
LEMMA EagerForward ==
    ASSUME RunnerInv, FlowInv, engine.phase = "serving", RunEagerly
    PROVE  /\ kv_cache' = Store(kv_cache, FlattenSeq(IdLists(Rows)),
                                FlattenSeq(PositionLists(Rows)), FlattenSeq(SlotLists(Rows)))
           /\ step'.hidden = Hidden(FlattenSeq(IdLists(Rows)), FlattenSeq(PositionLists(Rows)),
                                    FlattenSeq(SeenOfRows(kv_cache', Rows)))
<1>1. step.pc = "dispatched" /\ engine.phase # "warmup"
  BY DEF RunEagerly
<1> DEFINE m == context.metadata
           ids == step.input_ids
           positions == step.positions
           cache == Store(kv_cache, ids, positions, m.slot_mapping)
<1>2. /\ active_graph = None /\ m = Metadata(Rows, GivenPrefills) /\ m.paged = IsPaged(Rows)
      /\ context.route = Route(m, SupportsUnifiedMixed(engine.config))
      /\ Backend(engine.config) \in {"flashattention", "flashinfer"}
      /\ ids = FlattenSeq(IdLists(Rows)) /\ positions = FlattenSeq(PositionLists(Rows))
      /\ m.slot_mapping = FlattenSeq(SlotLists(Rows))
      /\ Backend(engine.config) = "flashinfer" => PlannedBy(wrappers, m, context.route)
      /\ BatchInv /\ batch # <<>>
  BY <1>1, Dispatched
<1>3. /\ Rows \in Seq(AnyRow) /\ GoodRows(Rows, GivenPrefills) /\ IsPaged(Rows)
  BY <1>2, ServedRows
<1>4. kv_cache' = cache
      /\ step'.hidden = Hidden(ids, positions, IF Backend(engine.config) = "flashattention"
                                               THEN FlashAttentionForward(m, cache)
                                               ELSE FlashInferForward(m, cache))
  BY DEF RunEagerly
<1>5. cache # <<>>
  <2>1. DOMAIN kv_cache = Slots
    BY DEF FlowInv, CacheInv
  <2>2. DOMAIN cache = Slots
    BY <2>1, StoreKeepsSlots
  <2>3. 0 \in Slots
    <3>1. PICK N \in Nat \ {0} : N = NumPages
      BY ConstantFacts
    <3>2. PICK B \in Nat \ {0} : B = BlockSize
      BY ConstantFacts
    <3>3. N * B \in Nat \ {0}
      OBVIOUS
    <3> QED  BY <3>1, <3>2, <3>3 DEF Slots
  <2> HIDE DEF cache
  <2>4. DOMAIN <<>> = {}
    OBVIOUS
  <2> QED  BY <2>2, <2>3, <2>4
<1>6. PICK rows : rows = Rows
  OBVIOUS
<1>7. PICK g : g = GivenPrefills
  OBVIOUS
<1>8. rows \in Seq(AnyRow) /\ GoodRows(rows, g) /\ IsPaged(rows) /\ m = Metadata(rows, g)
  BY <1>2, <1>3, <1>6, <1>7
<1>9. PICK c : c = cache
  OBVIOUS
<1>10. PICK t : t = context.route
  OBVIOUS
<1>a. PICK u : u = SupportsUnifiedMixed(engine.config)
  OBVIOUS
<1>b. kv_cache' = c /\ c = Store(kv_cache, FlattenSeq(IdLists(Rows)),
                                 FlattenSeq(PositionLists(Rows)), FlattenSeq(SlotLists(Rows)))
  BY <1>2, <1>4, <1>9
<1> HIDE DEF m, ids, positions, cache
<1>c. ASSUME step'.hidden = Hidden(ids, positions, FlattenSeq(SeenOfRows(c, rows)))
      PROVE  step'.hidden = Hidden(FlattenSeq(IdLists(Rows)), FlattenSeq(PositionLists(Rows)),
                                   FlattenSeq(SeenOfRows(kv_cache', Rows)))
  BY <1>2, <1>6, <1>b, <1>c
<1>11. CASE Backend(engine.config) = "flashattention"
  <2>1. t # "warmup"
    BY <1>2, <1>3, <1>10 DEF Route
  <2>2. FlashAttentionForward(m, cache) = Attend(UnifiedKernel(m), c)
    BY <1>9, <1>10, <2>1 DEF FlashAttentionForward
  <2>3. Attend(UnifiedKernel(m), c) = FlattenSeq(SeenOfRows(c, rows))
    BY <1>8, UnifiedAttends
  <2>4. step'.hidden = Hidden(ids, positions, FlattenSeq(SeenOfRows(c, rows)))
    BY <1>4, <1>11, <2>2, <2>3
  <2> QED  BY <1>b, <1>c, <2>4
<1>12. CASE Backend(engine.config) = "flashinfer"
  <2>1. PICK w : w = wrappers
    OBVIOUS
  <2>2. FlashInferForward(m, cache) = Attended(t, w, c)
    BY <1>2, <1>5, <1>9, <1>10, <2>1 DEF FlashInferForward, Attended
  <2>3. \A x \in DOMAIN Planned(m, t) : w[x] = Planned(m, t)[x]
    BY <1>2, <1>10, <1>12, <2>1 DEF PlannedBy
  <2>4. Attended(t, w, c) = FlattenSeq(SeenOfRows(c, rows))
    <3>1. PICK k : k = m
      OBVIOUS
    <3>2. t = Route(k, u) /\ k = Metadata(rows, g)
      BY <1>2, <1>8, <1>10, <1>a, <3>1
    <3>3. \A x \in DOMAIN Planned(k, t) : w[x] = Planned(k, t)[x]
      BY <2>3, <3>1
    <3> QED  BY <1>8, <3>2, <3>3, EveryRouteAttends
  <2>5. Backend(engine.config) # "flashattention"
    BY <1>12
  <2>6. step'.hidden = Hidden(ids, positions, FlattenSeq(SeenOfRows(c, rows)))
    BY <1>4, <2>2, <2>4, <2>5
  <2> QED  BY <1>b, <1>c, <2>6
<1> QED  BY <1>2, <1>11, <1>12

LEMMA ReplayedForward ==
    ASSUME RunnerInv, FlowInv, ReplayGraph
    PROVE  /\ engine.phase = "serving"
           /\ kv_cache' = Store(kv_cache, FlattenSeq(IdLists(Rows)),
                                FlattenSeq(PositionLists(Rows)), FlattenSeq(SlotLists(Rows)))
           /\ step'.hidden = Hidden(FlattenSeq(IdLists(Rows)), FlattenSeq(PositionLists(Rows)),
                                    FlattenSeq(SeenOfRows(kv_cache', Rows)))
<1>1. step.pc = "dispatched" /\ context.mode = "full_graph"
  BY DEF ReplayGraph
<1> DEFINE m == context.metadata
           kernel == DecodeKernel(KvIndptr(m), PageIndices(m), LastPageLen(m))
<1>2. /\ m = Metadata(Rows, GivenPrefills) /\ m.paged = IsPaged(Rows)
      /\ context.route = Route(m, SupportsUnifiedMixed(engine.config))
      /\ step.input_ids = FlattenSeq(IdLists(Rows))
      /\ step.positions = FlattenSeq(PositionLists(Rows))
      /\ m.slot_mapping = FlattenSeq(SlotLists(Rows))
      /\ engine.phase = "warmup" \/ (engine.phase = "serving" /\ batch # <<>>)
      /\ BatchInv
  BY <1>1, Dispatched
<1>3. PICK b \in DOMAIN graph_states : b = m.num_decode_seqs /\ context.route = "decode"
  BY <1>1 DEF FlowInv, ReplayInv
<1>4. engine.phase = "serving" /\ batch # <<>>
  <2>1. m.paged
    <3> HIDE DEF m
    <3> QED  BY <1>2, <1>3 DEF Route
  <2>2. IsPaged(Rows)
    BY <1>2, <2>1
  <2>3. engine.phase = "warmup" => Rows = WarmupRows
    BY DEF Rows
  <2> QED  BY <1>2, <2>2, <2>3, RowsOfWarmup
<1>5. PICK g : g = Filled(graph_states[b])
  OBVIOUS
<1>6. /\ g.kernel = kernel /\ g.input_ids = step.input_ids /\ g.positions = step.positions
      /\ g.slot_mapping = m.slot_mapping
  <2>1. DOMAIN graph_states[b] = StateFields
    BY DEF FlowInv, ReplayInv
  <2>2. PICK k : k = kernel
    OBVIOUS
  <2>3. g = [graph_states[b] EXCEPT !.kernel = k, !.input_ids = step.input_ids,
                                    !.positions = step.positions, !.slot_mapping = m.slot_mapping]
    BY <1>5, <2>2 DEF Filled
  <2> QED  BY <2>1, <2>2, <2>3 DEF StateFields
<1>7. PICK c : c = Store(kv_cache, g.input_ids, g.positions, g.slot_mapping)
  OBVIOUS
<1>8. kv_cache' = c /\ step'.hidden = Replayed(g, c)
  BY <1>3, <1>5, <1>7 DEF ReplayGraph
<1>9. /\ Rows \in Seq(AnyRow) /\ GoodRows(Rows, GivenPrefills) /\ IsPaged(Rows)
  BY <1>2, <1>4, ServedRows
<1>10. PICK rows : rows = Rows
  OBVIOUS
<1>11. PICK p : p = GivenPrefills
  OBVIOUS
<1>12. PICK u : u = SupportsUnifiedMixed(engine.config)
  OBVIOUS
<1>13. rows \in Seq(AnyRow) /\ GoodRows(rows, p) /\ IsPaged(rows) /\ m = Metadata(rows, p)
       /\ Route(m, u) = "decode"
  BY <1>2, <1>3, <1>9, <1>10, <1>11, <1>12
<1> HIDE DEF m
<1>14. Attend(kernel, c) = FlattenSeq(SeenOfRows(c, rows))
  BY <1>13, DecodeAttends
<1> HIDE DEF kernel
<1>15. Replayed(g, c) = Hidden(step.input_ids, step.positions, Attend(kernel, c))
  BY <1>6 DEF Replayed
<1> QED  BY <1>2, <1>4, <1>6, <1>7, <1>8, <1>10, <1>14, <1>15

-----------------------------------------------------------------------------

(* What the pages hold stays true, and what follows from it.                *)

NothingRead == step.pc \notin {"forwarded", "sampled"}

(* Steps that touch neither requests nor cache keep what the pages hold.    *)
LEMMA KeysUntouched ==
    ASSUME PagesShared, KeysStored, UNCHANGED <<requests, batch, kv_cache>>, NothingRead'
    PROVE  KeysInv'
<1>1. PagesShared' /\ KeysStored'
  BY KeysFrame
<1>2. KeysWritten'
  BY DEF KeysWritten, NothingRead
<1> QED  BY <1>1, <1>2 DEF KeysInv

(* So do steps that leave no request with a page.                           *)
LEMMA KeysFresh ==
    ASSUME requests' = Fresh, engine'.phase # "serving" \/ NothingRead'
    PROVE  KeysInv'
<1>1. (requests = Fresh => PagesShared /\ KeysStored)'
  BY FreshKeys, PTL
<1>2. PagesShared' /\ KeysStored'
  BY <1>1 DEF Fresh
<1>3. KeysWritten'
  BY DEF KeysWritten, NothingRead
<1> QED  BY <1>2, <1>3 DEF KeysInv

(* The forward pass stores the keys of the batch and reads what is stored.  *)
LEMMA KeysPassed ==
    ASSUME RunnerInv, FlowInv, KeysInv, engine.phase = "serving", RunEagerly \/ ReplayGraph
    PROVE  KeysInv' /\ step'.hidden = ReferenceBatch(Rows)
<1>1. /\ step.pc = "dispatched" /\ UNCHANGED <<requests, batch>>
  BY DEF RunEagerly, ReplayGraph, batchVars
<1>2. BatchInv /\ batch # <<>>
  BY <1>1, Dispatched
<1>3. PagesShared /\ KeysStored /\ DOMAIN kv_cache = Slots
  BY DEF KeysInv, FlowInv, CacheInv
<1>4. /\ kv_cache' = Store(kv_cache, FlattenSeq(IdLists(Rows)),
                           FlattenSeq(PositionLists(Rows)), FlattenSeq(SlotLists(Rows)))
      /\ step'.hidden = Hidden(FlattenSeq(IdLists(Rows)), FlattenSeq(PositionLists(Rows)),
                               FlattenSeq(SeenOfRows(kv_cache', Rows)))
  BY EagerForward, ReplayedForward
<1>5. \A r \in Requests : Unfinished(r) => Holds(r)'
  BY <1>1, <1>2, <1>3, <1>4, KeysForwarded
<1>6. \A r \in Requests : Unfinished(r)' = Unfinished(r)
  BY <1>1 DEF Unfinished
<1>7. PagesShared'
  BY <1>1, <1>3, KeysFrame
<1>8. KeysStored'
  <2> SUFFICES ASSUME NEW r \in Requests, Unfinished(r),
                      NEW p \in 0 .. requests[r].num_cached_tokens - 1
               PROVE  kv_cache'[SlotOf(requests'[r], p)] = TokenKey(r, p)
    BY <1>1, <1>6 DEF KeysStored, Known, TokenKey
  <2>1. p \in 0 .. ContextEnd(requests[r]) - 1
    <3>1. PICK c \in Nat, e \in Nat :
              c = requests[r].num_cached_tokens /\ e = ContextEnd(requests[r]) /\ c <= e
      BY <1>2, RequestFacts
    <3> QED  BY <3>1
  <2>2. Holds(r)'
    BY <1>5
  <2> QED  BY <1>1, <2>1, <2>2 DEF Holds, TokenKey
<1>9. KeysWritten'
  BY <1>5, <1>6 DEF KeysWritten
<1>10. \A i \in 1 .. Len(batch) : \A p \in 0 .. ContextEnd(requests[batch[i]]) - 1 :
            kv_cache'[SlotOf(requests[batch[i]], p)] = TokenKey(batch[i], p)
  <2> SUFFICES ASSUME NEW i \in 1 .. Len(batch), NEW p \in 0 .. ContextEnd(requests[batch[i]]) - 1
               PROVE  kv_cache'[SlotOf(requests[batch[i]], p)] = TokenKey(batch[i], p)
    OBVIOUS
  <2>1. PICK r \in Requests : r = batch[i] /\ Unfinished(r)
    BY <1>2, ServedRow
  <2>2. Holds(r)'
    BY <1>5, <2>1
  <2> QED  BY <1>1, <2>1, <2>2 DEF Holds, TokenKey
<1>11. PICK c : c = kv_cache'
  OBVIOUS
<1>12. Hidden(FlattenSeq(IdLists(Rows)), FlattenSeq(PositionLists(Rows)),
              FlattenSeq(SeenOfRows(c, Rows))) = ReferenceBatch(Rows)
  BY <1>2, <1>10, <1>11, HeldReference
<1> QED  BY <1>4, <1>7, <1>8, <1>9, <1>11, <1>12 DEF KeysInv

(* Hidden states and logits are there after the steps that make them only.   *)
LEMMA ReadLeft ==
    ASSUME SessionInv, StepInv, [Next]_vars,
           ~(RunEagerly \/ ReplayGraph \/ Sample \/ UNCHANGED vars)
    PROVE  NothingRead'
<1>1. step' = Idle => NothingRead'
  BY DEF NothingRead, Idle
<1>2. ASSUME NEW config \in Configs, Construct(config) \/ ConstructFails(config)
      PROVE  NothingRead'
  <2>1. step = Idle /\ step' = step
    BY <1>2, NothingUnderWay DEF Construct, ConstructFails
  <2> QED  BY <1>1, <2>1
<1>3. CASE InitializeGraphStates \/ AllocateKvCache
  <2>1. step = Idle /\ step' = step
    BY <1>3, NothingUnderWay DEF InitializeGraphStates, AllocateKvCache
  <2> QED  BY <1>1, <2>1
<1>4. ASSUME NEW r \in Requests, NEW n \in 1 .. MaxNumBatchedTokens,
             NEW d \in Requests \cup {NoRequest}, AddRow(r, n, d)
      PROVE  NothingRead'
  BY <1>1, <1>4 DEF AddRow, runnerVars
<1>5. CASE WarmupEnd \/ EndCapture \/ CaptureFails \/ RunFails \/ Exit \/ Postprocess
  BY <1>1, <1>5 DEF WarmupEnd, EndCapture, CaptureFails, RunFails, Exit, Postprocess
<1>6. CASE WarmupModel \/ PrepareModelInput \/ BeginCapture
  BY <1>6 DEF WarmupModel, PrepareModelInput, StartRun, BeginCapture, NothingRead
<1>7. CASE BuildPlan \/ SelectRuntimeMode
  <2>1. PICK pc \in {"planned", "dispatched"} : step' = [step EXCEPT !.pc = pc]
    BY <1>7 DEF BuildPlan, SelectRuntimeMode
  <2>2. "pc" \in DOMAIN step
    BY <1>7 DEF BuildPlan, SelectRuntimeMode, StepInv, PlanMade, Planning
  <2> QED  BY <2>1, <2>2 DEF NothingRead
<1> QED
  BY <1>2, <1>3, <1>4, <1>5, <1>6, <1>7 DEF Next, Initialize, Capture, Run

(* In every reachable state the pages hold the keys that count as cached.   *)
LEMMA KeysStep ==
    ASSUME RunnerInv, FlowInv, KeysInv, [Next]_vars
    PROVE  KeysInv'
<1>0. /\ SessionInv /\ BatchInv /\ StepInv /\ PagesShared /\ KeysStored /\ KeysWritten
      /\ (engine.phase # "serving" => requests = Fresh)
  BY DEF RunnerInv, KeysInv, FlowInv, CacheInv
<1>1. CASE Sample \/ UNCHANGED vars
  <2>1. UNCHANGED <<requests, batch, kv_cache, engine>>
        /\ (step'.pc \in {"forwarded", "sampled"} => step.pc \in {"forwarded", "sampled"})
    BY <1>1 DEF Sample, vars, runnerVars, batchVars
  <2>2. /\ PagesShared' /\ KeysStored'
        /\ \A r \in Requests : Unfinished(r)' = Unfinished(r) /\ Holds(r)' = Holds(r)
    BY <1>0, <2>1, KeysFrame
  <2>3. KeysWritten'
    BY <1>0, <2>1, <2>2 DEF KeysWritten
  <2> QED  BY <2>2, <2>3 DEF KeysInv
<1>2. CASE RunEagerly \/ ReplayGraph
  <2>1. CASE engine.phase = "serving"
    BY <1>2, <2>1, KeysPassed
  <2>2. CASE engine.phase # "serving"
    <3>1. requests' = Fresh /\ engine'.phase # "serving"
      BY <1>0, <1>2, <2>2 DEF RunEagerly, ReplayGraph, batchVars
    <3> QED  BY <3>1, KeysFresh
  <2> QED  BY <2>1, <2>2
<1>3. CASE NothingRead'
  <2>1. ASSUME PagesShared', KeysStored' PROVE KeysInv'
    BY <1>3, <2>1 DEF KeysInv, KeysWritten, NothingRead
  <2>2. ASSUME UNCHANGED <<requests, batch, kv_cache>> PROVE KeysInv'
    BY <1>0, <1>3, <2>2, KeysUntouched
  <2>3. ASSUME NEW config \in Configs, Construct(config) \/ ConstructFails(config)
        PROVE  KeysInv'
    BY <2>2, <2>3 DEF Construct, ConstructFails, batchVars
  <2>4. CASE \/ InitializeGraphStates \/ WarmupEnd \/ EndCapture \/ CaptureFails
             \/ WarmupModel \/ PrepareModelInput \/ BuildPlan \/ SelectRuntimeMode
    BY <2>2, <2>4
    DEF InitializeGraphStates, WarmupEnd, EndCapture, CaptureFails, WarmupModel,
        PrepareModelInput, StartRun, BuildPlan, SelectRuntimeMode, batchVars
  <2>5. CASE AllocateKvCache \/ BeginCapture
    <3>1. requests' = Fresh
      BY <1>0, <2>5 DEF AllocateKvCache, BeginCapture, batchVars
    <3> QED  BY <1>3, <3>1, KeysFresh
  <2>6. CASE RunFails \/ Exit
    <3>1. requests' = Fresh
      BY <2>6 DEF RunFails, Exit, Discard
    <3> QED  BY <1>3, <3>1, KeysFresh
  <2>7. ASSUME NEW r \in Requests, NEW n \in 1 .. MaxNumBatchedTokens,
               NEW d \in Requests \cup {NoRequest}, AddRow(r, n, d)
        PROVE  KeysInv'
    BY <1>0, <2>1, <2>7, PagesGrow, KeysGrow
  <2>8. CASE Postprocess
    BY <1>0, <2>1, <2>8, KeysProcessed
  <2> QED
    BY <1>1, <1>2, <2>3, <2>4, <2>5, <2>6, <2>7, <2>8 DEF Next, Initialize, Capture, Run
<1> QED
  BY <1>0, <1>1, <1>2, <1>3, ReadLeft

(* The last query of a row that is computed to its end.                     *)
LEMMA LastReference ==
    ASSUME NEW R, NEW rows \in Seq(R), NEW L \in Nat, L = Len(rows), NEW p, GoodRows(rows, p),
           \A i \in 1 .. L : TokenRow(rows[i]), NEW k \in 1 .. L, Ends(rows[k]),
           NEW m, m = Metadata(rows, p)
    PROVE  ReferenceBatch(rows)[m.query_start_loc[k + 1]]
                = Reference(rows[k].token_ids, Len(rows[k].token_ids))
<1>1. DOMAIN rows = 1 .. L
  OBVIOUS
<1>2. PICK q : q = QueryLens(rows)
  OBVIOUS
<1>3. PICK O : O = Offsets(q)
  OBVIOUS
<1>4. m.query_start_loc = O
  BY <1>2, <1>3, MetadataFields
<1>5. q \in Seq(Nat) /\ Len(q) = L /\ \A i \in 1 .. L : q[i] = rows[i].num_new_tokens
  BY <1>1, <1>2, RowSums
<1>6. PICK ref : ref = [i \in 1 .. L |-> ReferenceRow(rows[i])]
  OBVIOUS
<1>7. ReferenceBatch(rows) = FlattenSeq(ref)
  BY <1>1, <1>6 DEF ReferenceBatch, ReferenceRow
<1>8. ref = [i \in 1 .. L |-> ref[i]] /\ \A i \in 1 .. L : ref[i] = ReferenceRow(rows[i])
  BY <1>6
<1>9. ASSUME NEW i \in 1 .. L
      PROVE  Sequenced(ref[i]) /\ Len(ref[i]) = rows[i].num_new_tokens
  <2>1. PICK n \in Nat : n = rows[i].num_new_tokens
    BY DEF TokenRow
  <2>2. PICK s : s = ReferenceRow(rows[i])
    OBVIOUS
  <2>3. s = [j \in 1 .. n |-> s[j]] /\ Len(s) = n
    BY <2>1, <2>2 DEF ReferenceRow
  <2> QED  BY <1>8, <2>1, <2>2, <2>3 DEF Sequenced
<1>10. Packs(ref, L)
  <2>1. \A i \in 1 .. L : Sequenced(ref[i])
    BY <1>9
  <2> QED  BY <1>8, <2>1, PackingOf
<1>11. LengthsOf(ref) = q
  <2>1. Len(ref) = L
    BY <1>10, PacksTyped
  <2>2. q = [i \in 1 .. L |-> rows[i].num_new_tokens]
    BY <1>1, <1>2 DEF QueryLens
  <2> QED  BY <1>9, <2>1, <2>2 DEF LengthsOf
<1>12. Places(ref, L, FlattenSeq(ref))
  BY <1>10, FlattenPlaces
<1>13. PICK n \in Nat \ {0}, c \in Nat :
           n = rows[k].num_new_tokens /\ c = rows[k].num_cached_tokens
           /\ Len(rows[k].token_ids) = c + n
  <2>1. GoodRow(rows[k])
    BY DEF GoodRows
  <2> QED  BY <2>1 DEF GoodRow, Ends, ContextEnd
<1>14. O[k + 1] = O[k] + n
  <2>1. O[k + 1] = O[k] + q[k]
    <3>1. q \in Seq(Nat) /\ Len(q) = L
      BY <1>5
    <3> QED  BY <1>3, <3>1, OffsetsFacts
  <2>2. q[k] = n
    BY <1>5, <1>13
  <2> QED  BY <2>1, <2>2
<1>15. FlattenSeq(ref)[O[k] + n] = ref[k][n]
  <2>1. n \in 1 .. Len(ref[k])
    BY <1>9, <1>13
  <2> QED  BY <1>3, <1>11, <1>12, <2>1 DEF Places
<1>16. ref[k][n] = Reference(rows[k].token_ids, c + n)
  BY <1>8, <1>13 DEF ReferenceRow
<1> QED  BY <1>4, <1>7, <1>13, <1>14, <1>15, <1>16

(* Every step that computes hidden states computes the reference.           *)
LEMMA ReferenceStep ==
    ASSUME RunnerInv, FlowInv, KeysInv, ForwardIsReference, [Next]_vars
    PROVE  ForwardIsReference'
<1>0. SessionInv /\ StepInv
  BY DEF RunnerInv
<1>1. CASE RunEagerly \/ ReplayGraph
  <2>1. Rows' = Rows /\ engine' = engine
    BY <1>1, RowsStay DEF RunEagerly, ReplayGraph
  <2>2. engine.phase \in {"warmup", "serving"}
    BY <1>1, Dispatched DEF RunEagerly, ReplayGraph
  <2>3. step'.hidden = ReferenceBatch(Rows)
    <3>1. CASE engine.phase = "serving"
      BY <1>1, <3>1, KeysPassed
    <3>2. CASE engine.phase = "warmup"
      <4>1. ~ReplayGraph
        BY <3>2, ReplayedForward
      <4> QED  BY <1>1, <3>2, <4>1, WarmupForward
    <3> QED  BY <2>2, <3>1, <3>2
  <2> QED  BY <2>1, <2>3 DEF ForwardIsReference
<1>2. CASE UNCHANGED vars
  <2>1. Rows' = Rows /\ step' = step
    BY <1>2, RowsStay DEF vars, runnerVars
  <2> QED  BY <2>1 DEF ForwardIsReference
<1>3. CASE Sample
  BY <1>3 DEF Sample, ForwardIsReference
<1>4. CASE NothingRead'
  BY <1>4 DEF NothingRead, ForwardIsReference
<1> QED  BY <1>0, <1>1, <1>2, <1>3, <1>4, ReadLeft

(* SamplesReachTheirRequest, as a fact about what run() returned and the     *)
(* requests of the batch.                                                  *)
TextRow(q, r) ==
    [token_ids |-> SubSeq(Text[r], 1, q[r].length),
     num_cached_tokens |-> q[r].num_cached_tokens,
     num_new_tokens |-> q[r].num_new_tokens,
     block_table |-> q[r].block_table]
LastSampled(places, logits, q, b) ==
    \A i \in DOMAIN places :
        logits[i] = Reference(TextRow(q, b[places[i]]).token_ids,
                              Len(TextRow(q, b[places[i]]).token_ids))
AllSampled(places, q, b) ==
    {places[i] : i \in DOMAIN places}
        = {k \in DOMAIN b : ContextEnd(TextRow(q, b[k])) = q[b[k]].length}
GoodSamples(returned, q, b) ==
    LastSampled(returned.logits_rows, returned.logits, q, b)
    /\ AllSampled(returned.logits_rows, q, b)

LEMMA SamplesRestated ==
    /\ SamplesReachTheirRequest
            <=> (engine.phase = "serving" /\ step.pc = "sampled"
                    => GoodSamples(step, requests, batch))
    /\ SamplesReachTheirRequest'
            <=> (engine'.phase = "serving" /\ step'.pc = "sampled"
                    => GoodSamples(step', requests', batch'))
BY DEF SamplesReachTheirRequest, GoodSamples, LastSampled, AllSampled, TextRow, RowOf

(* Sampling takes the last query of each row that is computed to its end.   *)
LEMMA RowsSampled ==
    ASSUME RunnerInv, ForwardIsReference, engine.phase = "serving", Sample
    PROVE  SamplesReachTheirRequest'
<1>1. /\ BatchInv /\ Running /\ step.pc = "forwarded"
      /\ UNCHANGED <<engine, requests, batch>>
  BY DEF RunnerInv, StepInv, Sample, batchVars
<1>2. /\ batch # <<>> /\ context.metadata = Metadata(Rows, GivenPrefills)
      /\ context.logits_rows = LogitsRows(Rows) /\ step.hidden = ReferenceBatch(Rows)
  BY <1>1 DEF Running, HasRows, ForwardIsReference
<1>3. PICK rows : rows = Rows
  OBVIOUS
<1>4. PICK p : p = GivenPrefills
  OBVIOUS
<1>5. /\ rows \in Seq(AnyRow) /\ Len(rows) \in Nat /\ GoodRows(rows, p) /\ IsPaged(rows)
      /\ Len(rows) = Len(batch) /\ DOMAIN rows = 1 .. Len(rows)
      /\ \A i \in 1 .. Len(rows) : /\ i \in 1 .. Len(batch) /\ rows[i] = RowOf(batch[i])
                                   /\ TokenRow(rows[i])
  BY <1>1, <1>2, <1>3, <1>4, ServedRows
<1>6. PICK L \in Nat : L = Len(rows)
  BY <1>5
<1>7. PICK m : m = Metadata(rows, p)
  OBVIOUS
<1>8. PICK s : s = LogitsRows(rows)
  OBVIOUS
<1>9. s \in Seq(1 .. L) /\ Range(s) = {n \in 1 .. L : Ends(rows[n])}
  BY <1>5, <1>6, <1>8, LogitsRowsFacts
<1>10. step' = [pc |-> "sampled", logits_rows |-> s,
                logits |-> [i \in DOMAIN LastIndices(m, s) |-> step.hidden[LastIndices(m, s)[i]]]]
  BY <1>2, <1>3, <1>4, <1>7, <1>8 DEF Sample
<1>11. LastIndices(m, s) = [i \in DOMAIN s |-> m.query_start_loc[s[i] + 1]]
  BY DEF LastIndices
<1>12. step'.logits_rows = s
       /\ \A i \in DOMAIN s : step'.logits[i] = step.hidden[m.query_start_loc[s[i] + 1]]
  BY <1>10, <1>11
<1>13. ASSUME NEW i \in DOMAIN s
       PROVE  step'.logits[i] = Reference(RowOf(batch[s[i]]).token_ids,
                                          Len(RowOf(batch[s[i]]).token_ids))
  <2>1. PICK k \in 1 .. L : k = s[i] /\ Ends(rows[k])
    BY <1>9 DEF Range
  <2>2. ReferenceBatch(rows)[m.query_start_loc[k + 1]]
            = Reference(rows[k].token_ids, Len(rows[k].token_ids))
    <3>1. \A j \in 1 .. L : TokenRow(rows[j])
      BY <1>5, <1>6
    <3>2. rows \in Seq(AnyRow) /\ GoodRows(rows, p)
      BY <1>5
    <3>3. Ends(rows[k])
      BY <2>1
    <3> QED  BY <1>6, <1>7, <3>1, <3>2, <3>3, LastReference
  <2>3. rows[k] = RowOf(batch[k])
    BY <1>5, <1>6
  <2> QED  BY <1>2, <1>3, <1>12, <2>1, <2>2, <2>3
<1>14. {s[i] : i \in DOMAIN s}
            = {k \in DOMAIN batch : ContextEnd(RowOf(batch[k])) = requests[batch[k]].length}
  <2>1. {s[i] : i \in DOMAIN s} = {n \in 1 .. L : Ends(rows[n])}
    BY <1>9 DEF Range
  <2>2. DOMAIN batch = 1 .. L
    BY <1>1, <1>5, <1>6 DEF BatchInv
  <2>3. ASSUME NEW n \in 1 .. L
        PROVE  Ends(rows[n]) <=> ContextEnd(RowOf(batch[n])) = requests[batch[n]].length
    <3>1. rows[n] = RowOf(batch[n]) /\ batch[n] \in Requests
      BY <1>1, <1>5, <1>6, ServedRow
    <3>2. Len(RowOf(batch[n]).token_ids) = requests[batch[n]].length
      BY <1>1, <3>1, TokensOf
    <3> QED  BY <3>1, <3>2 DEF Ends
  <2> QED  BY <2>1, <2>2, <2>3
<1>15. LastSampled(step'.logits_rows, step'.logits, requests, batch)
  BY <1>12, <1>13 DEF LastSampled, TextRow, RowOf
<1>16. AllSampled(step'.logits_rows, requests, batch)
  BY <1>12, <1>14 DEF AllSampled, TextRow, RowOf
<1>17. GoodSamples(step', requests', batch')
  BY <1>1, <1>15, <1>16 DEF GoodSamples
<1> QED  BY <1>17, SamplesRestated

(* No other step hands out tokens.                                          *)
LEMMA SamplesStep ==
    ASSUME RunnerInv, ForwardIsReference, SamplesReachTheirRequest, [Next]_vars
    PROVE  SamplesReachTheirRequest'
<1>0. SessionInv /\ StepInv
  BY DEF RunnerInv
<1>1. CASE Sample
  <2>1. CASE engine.phase = "serving"
    BY <1>1, <2>1, RowsSampled
  <2>2. CASE engine.phase # "serving"
    BY <1>1, <2>2 DEF Sample, SamplesReachTheirRequest
  <2> QED  BY <2>1, <2>2
<1>2. CASE UNCHANGED vars
  <2>1. engine' = engine /\ step' = step /\ requests' = requests /\ batch' = batch
    BY <1>2 DEF vars, runnerVars, batchVars
  <2> QED  BY <2>1, SamplesRestated
<1>3. CASE RunEagerly \/ ReplayGraph
  <2>1. step'.pc = "forwarded"
    BY <1>3 DEF RunEagerly, ReplayGraph
  <2> QED  BY <2>1, SamplesRestated
<1>4. CASE NothingRead'
  BY <1>4, SamplesRestated DEF NothingRead
<1> QED  BY <1>0, <1>1, <1>2, <1>3, <1>4, ReadLeft

(* The inductive invariant of the forward pass.                             *)
ForwardInv ==
    RunnerInv /\ FlowInv /\ KeysInv /\ ForwardIsReference /\ SamplesReachTheirRequest

LEMMA ForwardInit == Init => ForwardInv
<1> SUFFICES ASSUME Init PROVE ForwardInv
  OBVIOUS
<1>1. RunnerInv /\ FlowInv
  BY RunnerInit, FlowInit
<1>2. requests = Fresh /\ step = Idle
  BY DEF Init
<1>3. KeysInv
  BY <1>2, FreshKeys DEF KeysInv, KeysWritten, Idle
<1>4. ForwardIsReference /\ SamplesReachTheirRequest
  BY <1>2 DEF ForwardIsReference, SamplesReachTheirRequest, Idle
<1> QED  BY <1>1, <1>3, <1>4 DEF ForwardInv

LEMMA ForwardStep == ForwardInv /\ [Next]_vars => ForwardInv'
BY RunnerStep, FlowStep, KeysStep, ReferenceStep, SamplesStep DEF ForwardInv

LEMMA ForwardInvariant == Spec => []ForwardInv
BY ForwardInit, ForwardStep, PTL DEF Spec

(* Every forward pass - memory warmup without a cache, eager kernels by any   *)
(* backend and route, replay from the buffers of a graph - computes each     *)
(* query from its own token and position and from the keys of its own        *)
(* request up to itself, whatever pages requests share and however batches   *)
(* follow each other.                                                      *)
THEOREM ForwardAlwaysReference == Spec => []ForwardIsReference
<1>1. ForwardInv => ForwardIsReference
  BY DEF ForwardInv
<1> QED  BY <1>1, ForwardInvariant, PTL

(* What run() returns is in the order in which postprocess hands it out: a   *)
(* token for each request that is computed to its end, sampled from its last  *)
(* known token.                                                            *)
THEOREM SamplesReachOwners == Spec => []SamplesReachTheirRequest
<1>1. ForwardInv => SamplesReachTheirRequest
  BY DEF ForwardInv
<1> QED  BY <1>1, ForwardInvariant, PTL
=============================================================================
