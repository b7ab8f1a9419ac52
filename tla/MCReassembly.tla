---------------------------- MODULE MCReassembly ----------------------------
(* Three frames of one, two and three datagrams, two without any payload,  *)
(* fed in every order with runts and failed reallocations.                  *)
EXTENDS Reassembly

MCParts == <<1, 2, 3>>
MCPLen  == [d \in Fragments |-> IF d = Frag(2, 2) \/ d = Frag(3, 1) THEN 0 ELSE d.idx]
=============================================================================
