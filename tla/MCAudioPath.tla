---------------------------- MODULE MCAudioPath ----------------------------
(* A ring of three blocks of two samples; frames at an unknown rate, of    *)
(* two blocks, and at twice the port's, of half a block.                   *)
EXTENDS AudioPath

MCInputs == {<<4, 0>>, <<3, 4>>}
=============================================================================
