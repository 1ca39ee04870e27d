\* A cold request ranked first by FCFS evicts what the next one matched.
CONSTANTS
    Seqs = {s1, s2, s3, s4}
    NumBlocks = 2
    BlockSize = 1
    MaxLen = 3
    NoSeq = NoSeq
    MaxNumSeqs = 2
    MaxNumBatchedTokens = 3
    MaxTokens = 1
    Eos = 1
    EnableChunked = FALSE
    EnableLpm = FALSE
    SameStep = TRUE
    Token <- MCToken
    Prompts <- MCPromptsShort
    Hash <- PerfectHash
SYMMETRY Symmetry
SPECIFICATION SchedSpec
INVARIANTS
    InitialHitsPersistent
