\* Same-step reuse under memory pressure (preemption), whole prompts only.
CONSTANTS
    Seqs = {s1, s2, s3}
    NumBlocks = 4
    BlockSize = 1
    MaxLen = 5
    NoSeq = NoSeq
    MaxNumSeqs = 3
    MaxNumBatchedTokens = 5
    MaxTokens = 2
    Eos = 1
    EnableChunked = FALSE
    EnableLpm = TRUE
    SameStep = TRUE
    Token <- MCToken
    Prompts <- MCPrompts
    Hash <- LastTokenHash
SPECIFICATION FairSchedSpec
INVARIANTS
    AttentionReadsOwnPrefix
    DecodeReserved
PROPERTIES
    EveryRequestFinishes
