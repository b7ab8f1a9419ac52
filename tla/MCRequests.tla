----------------------------- MODULE MCRequests -----------------------------
(* Two hosts, so that lists of different hosts follow each other, of up to *)
(* two applications; a buffer of two reads of two bytes that doubles once. *)
EXTENDS Requests
=============================================================================
