---------------------------- MODULE FrameStream ----------------------------
(***************************************************************************)
(* What the video receive path promises the decoder, frame by frame: the   *)
(* frames come out in stream order, none twice; a frame the network (or a  *)
(* failed allocation) did not touch always comes out, and intact; a        *)
(* damaged one may be skipped, and if it does come out it is not intact.   *)
(***************************************************************************)
EXTENDS Integers, Sequences

CONSTANT NFrames  \* the host's stream consists of frames 1..NFrames

Frames == 1..NFrames

VARIABLES
    sent,     \* frames 1..sent have left the host
    damaged,  \* frames of which something was lost on the way
    emitted   \* frames handed to the decoder: [pts, intact]

fvars == <<sent, damaged, emitted>>

LastPts == IF emitted = <<>> THEN 0 ELSE emitted[Len(emitted)].pts

Init == sent = 0 /\ damaged = {} /\ emitted = <<>>

Send ==
    /\ sent < NFrames
    /\ sent' = sent + 1
    /\ UNCHANGED <<damaged, emitted>>

(* A frame can only be damaged before it is handed on. *)
Damage(f) ==
    /\ f > LastPts
    /\ damaged' = damaged \cup {f}
    /\ UNCHANGED <<sent, emitted>>

Emit(f) ==
    /\ f \in (LastPts + 1)..sent
    /\ (LastPts + 1)..(f - 1) \subseteq damaged
    /\ emitted' = Append(emitted, [pts |-> f, intact |-> f \notin damaged])
    /\ UNCHANGED <<sent, damaged>>

Next == Send \/ \E f \in Frames : Damage(f) \/ Emit(f)

Fairness == WF_fvars(Send) /\ \A f \in Frames : WF_fvars(f \notin damaged /\ Emit(f))

Spec == Init /\ [][Next]_fvars /\ Fairness
=============================================================================
