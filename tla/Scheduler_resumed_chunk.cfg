\* A preempted request that is prefilled again in chunks.
CONSTANTS
    Seqs = {s1, s2, s3}
    NumBlocks = 4
    BlockSize = 1
    MaxLen = 5
    NoSeq = NoSeq
    MaxNumSeqs = 2
    MaxNumBatchedTokens = 2
    MaxTokens = 3
    Eos = 2
    EnableChunked = TRUE
    EnableLpm = TRUE
    SameStep = TRUE
    Token <- MCToken
    Prompts <- MCPrompts
    Hash <- LastTokenHash
SYMMETRY Symmetry
SPECIFICATION SchedSpec
INVARIANTS
    RunningReady
