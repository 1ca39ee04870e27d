\* A measured phase with chunked prefill, same-step reuse, partial pages, and a
\* pool that is too small for the longest request with all its tokens.
CONSTANTS
    Seqs = {s1, s2}
    NumBlocks = 3
    BlockSize = 2
    MaxLen = 8
    NoSeq = NoSeq
    MaxNumSeqs = 2
    MaxNumBatchedTokens = 3
    MaxTokens = 3
    Eos = 1
    EnableChunked = TRUE
    EnableLpm = TRUE
    SameStep = TRUE
    Token <- MCToken
    Prompts <- MCPromptsLong
    Hash <- PerfectHash
SPECIFICATION FairMetricsSpec
INVARIANTS
    PromptTokensConserved
PROPERTIES
    MeasurementEnds
