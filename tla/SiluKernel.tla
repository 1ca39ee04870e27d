----------------------------- MODULE SiluKernel -----------------------------
(***************************************************************************)
(* The in-tree CUDA kernel csrc/silu_and_mul_kernel.cu: a grid-stride loop  *)
(* over the elements of the output.  An input row is hidden gates followed  *)
(* by hidden ups; output element i is silu(gate) * up of its row.           *)
(* Indices are zero-based; they are 64 bits wide in the kernel and bounded  *)
(* by the size of a tensor.                                                *)
(***************************************************************************)
EXTENDS Integers

CONSTANTS
    Threads,        \* threads per block: 256
    MaxBlocks       \* blocks per launch: 65535

ASSUME SiluKernelAssumption == Threads \in Nat \ {0} /\ MaxBlocks \in Nat \ {0}

(* The launch: enough blocks for one element per thread, up to MaxBlocks.   *)
Blocks(elements) ==
    LET needed == (elements + Threads - 1) \div Threads
    IN  IF needed <= MaxBlocks THEN needed ELSE MaxBlocks
Stride(elements) == Threads * Blocks(elements)

(* The threads of a launch, numbered blockIdx.x * blockDim.x + threadIdx.x. *)
LaunchedThreads(elements) == 0 .. Stride(elements) - 1

(* The elements a thread visits.                                           *)
Visited(thread, elements) ==
    {i \in 0 .. elements - 1 : i >= thread /\ (i - thread) % Stride(elements) = 0}

(* Where the gate and the up of element i are read.                         *)
GateIndex(i, hidden) ==
    LET row == i \div hidden
        column == i - row * hidden
    IN  row * (hidden * 2) + column
UpIndex(i, hidden) == GateIndex(i, hidden) + hidden

(* The output for an input of rows rows (a function on indices): every      *)
(* element is the pair it was computed from.  An element that no thread     *)
(* visits keeps what torch.empty left there.                               *)
SiluAndMul(input, rows, hidden) ==
    LET elements == rows * hidden
    IN  [i \in 0 .. elements - 1 |->
            IF \E thread \in LaunchedThreads(elements) : i \in Visited(thread, elements)
            THEN <<input[GateIndex(i, hidden)], input[UpIndex(i, hidden)]>>
            ELSE <<>>]
=============================================================================
