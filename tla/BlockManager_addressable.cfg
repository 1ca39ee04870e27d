\* A hash without collisions: is every cached block found through the index?
CONSTANTS
    Seqs = {s1, s2}
    NumBlocks = 3
    BlockSize = 1
    MaxLen = 3
    MaxGeneration = 2
    Token <- MCToken
    Prompts <- MCPromptsShort
    Hash <- PerfectHash
SYMMETRY Symmetry
SPECIFICATION BoundedSpec
INVARIANTS
    FreeBlocksAddressable
CHECK_DEADLOCK FALSE
