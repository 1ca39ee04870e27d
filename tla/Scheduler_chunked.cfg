\* Same-step reuse with chunked prefill and partial pages.
CONSTANTS
    Seqs = {s1, s2, s3}
    NumBlocks = 4
    BlockSize = 2
    MaxLen = 6
    NoSeq = NoSeq
    MaxNumSeqs = 2
    MaxNumBatchedTokens = 2
    MaxTokens = 3
    Eos = 1
    EnableChunked = TRUE
    EnableLpm = TRUE
    SameStep = TRUE
    Token <- MCToken
    Prompts <- MCPrompts
    Hash <- LastTokenHash
SYMMETRY Symmetry
SPECIFICATION SchedSpec
INVARIANTS
    BatchWellFormed
    CachedBlocksComputed
PROPERTIES
    LegalCalls
