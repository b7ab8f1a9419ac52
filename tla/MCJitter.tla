------------------------------ MODULE MCJitter ------------------------------
(* A buffer of up to three frames on a heap of five nodes, the most the buffer and *)
(* its caller can use at once, and of a few planes.                        *)
EXTENDS Jitter, TLC

MCSymmetry == Permutations(Nodes) \cup Permutations(Blocks)
=============================================================================
