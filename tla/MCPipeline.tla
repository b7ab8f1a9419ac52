----------------------------- MODULE MCPipeline -----------------------------
(* The smallest buffer for a decoder that keeps up to two packets, and     *)
(* enough frames for it to be filled and emptied more than once.           *)
EXTENDS Pipeline
=============================================================================
