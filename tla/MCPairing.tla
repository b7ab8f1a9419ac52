----------------------------- MODULE MCPairing -----------------------------
(* Three hosts and a store that holds two, so that blank records left by a *)
(* torn file can fill it.  An address has one character or two, which are  *)
(* all of the field then, and one begins with another.                     *)
EXTENDS Pairing

MCIps   == {<<1>>, <<1, 2>>, <<3>>}
=============================================================================
