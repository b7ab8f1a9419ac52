--------------------------- MODULE DropOldestFifo ---------------------------
(***************************************************************************)
(* What the jitter buffer promises the pipeline: a FIFO of at most cap     *)
(* frames that makes room for a new frame by dropping the oldest, and a    *)
(* popped frame that stays as it was until the caller releases it.         *)
(***************************************************************************)
EXTENDS Integers, Sequences

CONSTANTS
    Pts,     \* frames, told apart by their timestamps
    NoFrame  \* the caller holds no frame

VARIABLES
    cap,    \* capacity, chosen anew whenever the buffer is created
    queue,  \* buffered frames, oldest first
    held    \* the frame popped and not yet released, or NoFrame

fifoVars == <<cap, queue, held>>

Init == cap \in Nat \ {0} /\ queue = <<>> /\ held = NoFrame

Push(p) ==
    /\ queue' = Append(IF Len(queue) < cap THEN queue ELSE Tail(queue), p)
    /\ UNCHANGED <<cap, held>>

Pop ==
    /\ queue # <<>>
    /\ held = NoFrame
    /\ held' = Head(queue)
    /\ queue' = Tail(queue)
    /\ UNCHANGED cap

Release == held' = NoFrame /\ UNCHANGED <<cap, queue>>

(* Destroyed, or created with another capacity. *)
Clear == cap' \in Nat \ {0} /\ queue' = <<>> /\ UNCHANGED held

Next == (\E p \in Pts : Push(p)) \/ Pop \/ Release \/ Clear

Spec == Init /\ [][Next]_fifoVars
=============================================================================
