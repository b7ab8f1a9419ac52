-------------------------- MODULE MCAudioPlayback --------------------------
(* A ring of four blocks of two samples; inputs at the port's rate, at     *)
(* twice that rate and at an unknown one, with up to two blocks each.      *)
EXTENDS AudioPlayback

MCInputs == {<<1, 2>>, <<4, 2>>, <<3, 4>>, <<3, 0>>}
=============================================================================
