--------------------------- MODULE MCVideoChannel ---------------------------
(* Streams of frames of up to three datagrams of one byte each.            *)
EXTENDS VideoChannel

MCParts == <<2, 1, 3, 2, 2>>
MCPLen  == [d \in Fragments |-> 1]
=============================================================================
