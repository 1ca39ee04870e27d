\* The abstract cache: two requests, two pages, words of up to three tokens.
\* A caller that has dropped its pages may stop.
CONSTANTS
    Seqs = {s1, s2}
    Pages = {p1, p2}
    MaxLen = 3
    Token <- MCToken
    Prompts <- MCPrompts
SYMMETRY Symmetry
SPECIFICATION Spec
INVARIANTS
    TypeOK
    HeldPagesMatch
