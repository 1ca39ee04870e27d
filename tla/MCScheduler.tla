---------------------------- MODULE MCScheduler -----------------------------
(***************************************************************************)
(* Small instances of Scheduler for TLC.                                   *)
(***************************************************************************)
EXTENDS Scheduler

MCToken == {0, 1}

(* A word over MCToken as a number: a hash without collisions.              *)
PerfectHash(p) ==
    LET f[n \in 0 .. Len(p)] == IF n = 0 THEN 1 ELSE 2 * f[n - 1] + p[n]
    IN  f[Len(p)]

(* A hash that forgets all but the last token.                              *)
LastTokenHash(p) == p[Len(p)]

MCPrompts == {<<0, 0, 0>>, <<0, 0, 1>>, <<1>>}

\* One prompt does not fit in a pool of three blocks of two tokens.
MCPromptsOver == {<<0, 0, 0>>, <<0, 0, 1>>, <<1>>, <<0, 0, 1, 1, 1, 1, 1>>}

MCPromptsShort == {<<0>>, <<1>>, <<0, 0>>}

\* They continue each other; the longest leaves no room for all its tokens in
\* a pool of three blocks of two tokens.
MCPromptsLong == {<<0, 0>>, <<0, 0, 1>>, <<0, 0, 1, 0, 0>>}

Symmetry == Permutations(Seqs)
=============================================================================
