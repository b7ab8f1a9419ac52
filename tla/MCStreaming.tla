---------------------------- MODULE MCStreaming ----------------------------
(* What is varied is one thing at a time, for the states to stay few: two  *)
(* sessions after one another, the second after whatever the first left    *)
(* behind; the bytes of a host that ends its lines with LF, CR LF or       *)
(* CR CR LF (CR LF written through a text stream) and declares one or two  *)
(* characters for a body of up to two; or the objects of a session, of     *)
(* which any two fail at any step, and their growth.  Sockets, connections *)
(* and binds may fail in all three.                                        *)
EXTENDS Streaming, TLC

VARIABLE scope  \* "sessions", "bytes" or "objects"

MCLineEnds == {<<LF>>, <<CR, LF>>, <<CR, CR, LF>>}
MCDeclared == "Content-Length: 1" :> 1 @@ "Content-Length: 2" :> 2

(* Outside of "bytes": lines end with CR LF, and the length declared is    *)
(* that of the body.                                                       *)
Regular(s) ==
    /\ ~Has(s, "Content-Length: 2")
    /\ \A i \in 2..Len(s) : s[i] = LF <=> s[i - 1] = CR
    /\ \A i \in 2..Len(s) : s[i] = "sdp" => s[i - 1] # "sdp"

(* Outside of "objects": all are there, and none of them grows. *)
NothingFails ==
    /\ crash' = "no"
    /\ held' \ held \in {{}, UNION { Of(o, Made(o, {})) : o \in Objects }}

MCInit == StreamInit /\ scope \in {"sessions", "bytes", "objects"}

MCNext ==
    /\ UNCHANGED scope
    /\ \/ /\ Next /\ ObjectsFollow
          /\ scope # "sessions" => starts' <= 1
          /\ scope # "bytes" => Regular(wire')
          /\ scope # "objects" => NothingFails
          /\ scope = "objects" => ~Has(wire', "Content-Length: 1")
       \/ scope = "objects" /\ (Turn \/ TurnOutOfMemory)

MCSpec == MCInit /\ [][MCNext]_<<allVars, scope>> /\ Fairness
=============================================================================
