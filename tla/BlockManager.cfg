\* Blocks of two tokens, a hash of the last token only and a pool too small for both
\* requests: equal blocks behind different prefixes collide, may_append completes partial
\* blocks, and a block is reset up to four times.
CONSTANTS
    Seqs = {s1, s2}
    NumBlocks = 2
    BlockSize = 2
    MaxLen = 4
    MaxGeneration = 3
    Token <- MCToken
    Prompts <- MCPrompts
    Hash <- LastTokenHash
SYMMETRY Symmetry
SPECIFICATION BoundedSpec
INVARIANTS
    TypeOK
    PrefixSound
    LineageSound
    ReferencesResident
    BlocksAccounted
    AssertionsHold
PROPERTIES
    SharedBlocksFrozen
    Implements
CHECK_DEADLOCK FALSE
