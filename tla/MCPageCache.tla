----------------------------- MODULE MCPageCache -----------------------------
(***************************************************************************)
(* A small instance of PageCache for TLC.                                  *)
(***************************************************************************)
EXTENDS PageCache, TLC

MCToken == {0, 1}
MCPrompts == {<<0>>, <<0, 1>>, <<1, 1>>}

Symmetry == Permutations(Seqs)
=============================================================================
