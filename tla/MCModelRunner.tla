--------------------------- MODULE MCModelRunner ----------------------------
(***************************************************************************)
(* A small instance of ModelRunner for TLC.                                *)
(***************************************************************************)
EXTENDS ModelRunner, TLC

CONSTANTS r1, r2, r3

(* r1 and r2 agree in their first block.                                   *)
MCText == (r1 :> <<1, 2, 11, 12, 13>>) @@ (r2 :> <<1, 2, 21, 22, 23>>)
            @@ (r3 :> <<31, 32, 33, 34, 35>>)
MCPromptLen == (r1 :> 3) @@ (r2 :> 2) @@ (r3 :> 2)

MCConfig(policy, backend, usable, mode, batch_attention) ==
    [policy |-> policy, attention_backend |-> backend, usable |-> usable,
     mode |-> mode, batch_attention |-> batch_attention, world_size |-> 1]

MCConfigs ==
    {MCConfig("full_decode_only", "auto", {"flashinfer"}, "unified", TRUE),
     MCConfig("full_decode_only", "flashinfer", {"flashattention", "flashinfer"},
              "unified", FALSE),
     MCConfig("full_decode_only", "auto", {"flashinfer"}, "split", FALSE),
     MCConfig("none", "auto", {"flashattention", "flashinfer"}, "unified", FALSE),
     MCConfig("none", "flashattention", {"flashinfer"}, "unified", FALSE)}
=============================================================================
