--------------------------- MODULE MCBlockManager ---------------------------
(***************************************************************************)
(* Small instances of BlockManager for TLC.                                *)
(***************************************************************************)
EXTENDS BlockManager, TLC

CONSTANT
    MaxGeneration   \* bound: no call takes blocks once a free one was reset this often

ASSUME MaxGenerationAssumption == MaxGeneration \in Nat

MCToken == {0, 1}

(* Prompts that differ in the first block and agree in a later one.         *)
MCPrompts == {<<0, 0, 0>>, <<1, 0, 0>>}
MCPromptsShort == {<<0, 0>>, <<1, 0>>}

(* A word over MCToken as a number: a hash without collisions.              *)
PerfectHash(p) ==
    LET f[n \in 0 .. Len(p)] == IF n = 0 THEN 1 ELSE 2 * f[n - 1] + p[n]
    IN  f[Len(p)]

(* Hashes that collide: one forgets all but the last token, one all but the *)
(* last two, whatever the prefix before them.                              *)
LastTokenHash(p) == p[Len(p)]
BlockOnlyHash(p) == IF Len(p) < 2 THEN p[1] ELSE 2 + 2 * p[Len(p) - 1] + p[Len(p)]

(* The caller of BlockManager, which stops taking blocks at the bound.       *)
BoundedFill(s) ==
    /\ \A b \in Range(free_block_ids) : blocks[b].generation < MaxGeneration
    /\ CallFill(s)
BoundedCall(s) == CallClaim(s) \/ BoundedFill(s) \/ Deallocate(s)
BoundedNext ==
    \/ CallStep
    \/ \E s \in Seqs : BoundedCall(s)
    \/ \E S \in SUBSET Seqs : Advance(S)
    \/ \E s \in Seqs, t \in Token : AppendToken(s, t)
BoundedSpec == Init /\ [][BoundedNext]_bmVars

Symmetry == Permutations(Seqs)
=============================================================================
