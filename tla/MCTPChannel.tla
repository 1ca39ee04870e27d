---------------------------- MODULE MCTPChannel -----------------------------
(***************************************************************************)
(* Small instances of TPChannel for TLC.                                   *)
(***************************************************************************)
EXTENDS TPChannel
=============================================================================
