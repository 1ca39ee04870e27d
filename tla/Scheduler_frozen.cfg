\* The frozen plan with chunked prefill and partial pages; one prompt is longer
\* than the pool, so that schedule() also fails.
CONSTANTS
    Seqs = {s1, s2, s3}
    NumBlocks = 3
    BlockSize = 2
    MaxLen = 8
    NoSeq = NoSeq
    MaxNumSeqs = 3
    MaxNumBatchedTokens = 3
    MaxTokens = 3
    Eos = 1
    EnableChunked = TRUE
    EnableLpm = TRUE
    SameStep = FALSE
    Token <- MCToken
    Prompts <- MCPromptsOver
    Hash <- LastTokenHash
SYMMETRY Symmetry
SPECIFICATION SchedSpec
INVARIANTS
    SchedTypeOK
    PlansCurrent
    QueuesConsistent
    AttentionReadsOwnPrefix
