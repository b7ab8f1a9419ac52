------------------------------- MODULE Jitter -------------------------------
(***************************************************************************)
(* The jitter buffer, src/src/av/jitter.c: a linked list of stored_frame_t *)
(* with head, tail and count, each node owning copies of the three planes  *)
(* of a decoded frame.  Nodes and planes live on a heap that hands out any *)
(* free address again, so a stale pointer shows.                           *)
(***************************************************************************)
EXTENDS Integers, Sequences, FiniteSets

CONSTANTS
    MaxFrames,  \* bound: the largest max_frames given to jitter_buf_create
    Pts,        \* the frames pushed, told apart by their timestamps
    Nodes,      \* addresses of stored_frame_t on the heap
    Blocks,     \* addresses of planes on the heap
    NULL,
    HeapFails   \* whether malloc may fail while memory is free

ASSUME JitterAssumption ==
    /\ MaxFrames \in Nat \ {0}
    /\ HeapFails \in BOOLEAN
    /\ NULL \notin Nodes \cup Blocks \cup Pts

VARIABLES
    alive,       \* jitter_buf_create has been called, jitter_buf_destroy not
    max, count, head, tail,
    next,        \* next[n]: the node after n
    f,           \* f[n]: the frame stored in node n
    liveNodes,   \* nodes allocated and not freed
    liveBlocks,  \* planes allocated and not freed
    data,        \* data[b]: the frame whose picture was copied into plane b
    popped       \* the node the caller got from jitter_buf_pop, or NULL

vars == <<alive, max, count, head, tail, next, f, liveNodes, liveBlocks, data, popped>>

Zero  == [pts |-> NULL, y |-> NULL, u |-> NULL, v |-> NULL]
Frame == [pts : Pts \cup {NULL}, y : Blocks \cup {NULL},
          u : Blocks \cup {NULL}, v : Blocks \cup {NULL}]

(* The list in order: the sequence of count nodes that starts at head and  *)
(* follows next (none, if the list is broken).                             *)
Chains == { c \in [1..count -> Nodes] :
              /\ count > 0 => c[1] = head
              /\ \A i \in 1..(count - 1) : c[i + 1] = next[c[i]] }
Chain  == CHOOSE c \in Chains : TRUE
Queued == UNION { { c[i] : i \in 1..count } : c \in Chains }

-----------------------------------------------------------------------------
Init ==
    /\ alive = FALSE
    /\ max = 1
    /\ count = 0
    /\ head = NULL
    /\ tail = NULL
    /\ next = [n \in Nodes |-> NULL]
    /\ f = [n \in Nodes |-> Zero]
    /\ liveNodes = {}
    /\ liveBlocks = {}
    /\ data = [b \in Blocks |-> NULL]
    /\ popped = NULL

(* malloc: any free address; NULL when there is none, or when it may fail. *)
Malloc(free) == free \cup (IF free = {} \/ HeapFails THEN {NULL} ELSE {})

(* frame_copy sets dst->y to NULL before each of the three planes, so the  *)
(* copy of the luma plane is forgotten as soon as the chroma planes follow.*)
Copied(p, y, u, v) == [pts |-> p, y |-> NULL, u |-> u, v |-> v]

(* The planes of the frame in node n, which frame_free frees. *)
Planes(n) == {f[n].y, f[n].u, f[n].v} \ {NULL}

(* Memory that is freed holds nothing any more: the fields of nodes ns and *)
(* the pictures in their planes are forgotten.                             *)
FreeNodes(ns) ==
    /\ liveNodes' = liveNodes \ ns
    /\ liveBlocks' = liveBlocks \ UNION { Planes(n) : n \in ns }
    /\ f' = [n \in Nodes |-> IF n \in ns THEN Zero ELSE f[n]]
    /\ next' = [n \in Nodes |-> IF n \in ns THEN NULL ELSE next[n]]
    /\ data' = [b \in Blocks |-> IF \E n \in ns : b \in Planes(n) THEN NULL ELSE data[b]]

(* jitter_buf_create: a buffer of at least one frame. *)
Create(max_frames) ==
    /\ ~alive
    /\ alive' = TRUE
    /\ max' = IF max_frames > 0 THEN max_frames ELSE 1
    /\ UNCHANGED <<count, head, tail, next, f, liveNodes, liveBlocks, data, popped>>

(* Mutants: one frame too many fits; head stays at the dropped node. *)
MutFull     == count > max
MutHeadLeft == head

(* Dropping the oldest frame to make room, before the new one is linked. *)
Full       == count >= max
Dropped    == IF Full THEN {head} ELSE {}
HeadLeft   == IF Full THEN next[head] ELSE head
TailLeft   == IF Full /\ next[head] = NULL THEN NULL ELSE tail
GonePlanes == UNION { Planes(m) : m \in Dropped }

(* jitter_buf_push with the addresses n, y, u, v its mallocs return: the   *)
(* frame is copied, the oldest one dropped if the buffer is full, and sf   *)
(* linked behind the tail, or as the head of an empty list.                *)
PushInto(p, n, y, u, v) ==
    /\ f' = [m \in Nodes |-> IF m = n THEN Copied(p, y, u, v)
                             ELSE IF m \in Dropped THEN Zero ELSE f[m]]
    /\ data' = [b \in Blocks |-> IF b \in {y, u, v} THEN p
                                ELSE IF b \in GonePlanes THEN NULL ELSE data[b]]
    /\ liveNodes' = (liveNodes \cup {n}) \ Dropped
    /\ liveBlocks' = (liveBlocks \cup ({y, u, v} \ {NULL})) \ GonePlanes
    /\ head' = IF TailLeft = NULL THEN n ELSE HeadLeft
    /\ tail' = n
    /\ next' = [m \in Nodes |-> IF m \in {n} \cup Dropped THEN NULL
                                ELSE IF m = TailLeft THEN n ELSE next[m]]
    /\ count' = IF Full THEN count ELSE count + 1
    /\ UNCHANGED <<alive, max, popped>>

(* A node that calloc refuses leaves everything as it was (return -1); a   *)
(* refused plane does not: the frame is queued without it.                 *)
Push(p) ==
    /\ alive
    /\ \E n \in Malloc(Nodes \ liveNodes) \ {NULL} :
       \E y \in Malloc(Blocks \ liveBlocks) :
       \E u \in Malloc(Blocks \ (liveBlocks \cup {y})) :
       \E v \in Malloc(Blocks \ (liveBlocks \cup {y, u})) :
           PushInto(p, n, y, u, v)

(* Mutants: tail is left behind when the list empties; the planes are      *)
(* already freed when the frame is handed out.                             *)
MutPopTail ==
    /\ alive
    /\ count # 0
    /\ popped = NULL
    /\ head' = next[head]
    /\ count' = count - 1
    /\ popped' = head
    /\ UNCHANGED <<alive, max, tail, next, f, liveNodes, liveBlocks, data>>

MutPopFrees ==
    /\ alive
    /\ count # 0
    /\ popped = NULL
    /\ head' = next[head]
    /\ tail' = IF next[head] = NULL THEN NULL ELSE tail
    /\ count' = count - 1
    /\ popped' = head
    /\ liveBlocks' = liveBlocks \ Planes(head)
    /\ UNCHANGED <<alive, max, next, f, liveNodes, data>>

Pop ==
    /\ alive
    /\ count # 0
    /\ popped = NULL
    /\ head' = next[head]
    /\ tail' = IF next[head] = NULL THEN NULL ELSE tail
    /\ count' = count - 1
    /\ popped' = head
    /\ UNCHANGED <<alive, max, next, f, liveNodes, liveBlocks, data>>

(* jitter_frame_free, by the caller, of the frame it popped. *)
Release ==
    /\ popped # NULL
    /\ FreeNodes({popped})
    /\ popped' = NULL
    /\ UNCHANGED <<alive, max, count, head, tail>>

(* Mutant: only the first node is freed. *)
MutDestroyHead ==
    /\ alive
    /\ alive' = FALSE
    /\ FreeNodes({head} \ {NULL})
    /\ count' = 0
    /\ head' = NULL
    /\ tail' = NULL
    /\ UNCHANGED <<max, popped>>

(* jitter_buf_destroy walks the list from head and frees every node on it. *)
Destroy ==
    /\ alive
    /\ alive' = FALSE
    /\ FreeNodes(Queued)
    /\ count' = 0
    /\ head' = NULL
    /\ tail' = NULL
    /\ UNCHANGED <<max, popped>>

Next ==
    \/ \E m \in 0..MaxFrames : Create(m)
    \/ \E p \in Pts : Push(p)
    \/ Pop
    \/ Release
    \/ Destroy

Spec == Init /\ [][Next]_vars

-----------------------------------------------------------------------------
(* Type invariant; the counter never leaves its bounds. *)
TypeOK ==
    /\ alive \in BOOLEAN
    /\ max \in 1..MaxFrames
    /\ count \in 0..max
    /\ head \in Nodes \cup {NULL}
    /\ tail \in Nodes \cup {NULL}
    /\ next \in [Nodes -> Nodes \cup {NULL}]
    /\ f \in [Nodes -> Frame]
    /\ liveNodes \subseteq Nodes
    /\ liveBlocks \subseteq Blocks
    /\ data \in [Blocks -> Pts \cup {NULL}]
    /\ popped \in Nodes \cup {NULL}

(* The list is well formed: from head, next visits count different nodes   *)
(* and ends at tail, and an empty list has neither head nor tail.          *)
ListOK ==
    /\ count = 0 => head = NULL /\ tail = NULL
    /\ \E c \in Chains :
        /\ \A i, j \in 1..count : c[i] = c[j] => i = j
        /\ count > 0 => c[count] = tail /\ next[tail] = NULL

(* Exactly the queued nodes and the popped one are allocated: no node is   *)
(* leaked, freed twice, or used after it was freed.                        *)
InUse == Queued \cup ({popped} \ {NULL})
NodesAccounted == liveNodes = InUse /\ popped \notin Queued

(* No plane of a queued or popped frame has been freed or handed to        *)
(* another frame, and each still holds the picture of its own frame.       *)
PlanesIntact ==
    \A n \in InUse :
        /\ Planes(n) \subseteq liveBlocks
        /\ \A b \in Planes(n) : data[b] = f[n].pts
        /\ \A m \in InUse : m # n => Planes(m) \cap Planes(n) = {}

(* The refinement mapping: the timestamps along the list (a broken list    *)
(* is no queue at all), and that of the popped frame.                      *)
QueuePts == IF Chains = {} THEN <<NULL>> ELSE [i \in 1..count |-> f[Chain[i]].pts]
HeldPts  == IF popped = NULL THEN NULL ELSE f[popped].pts

Fifo == INSTANCE DropOldestFifo WITH
            NoFrame <- NULL, cap <- max, queue <- QueuePts, held <- HeldPts

(* The linked list implements the drop-oldest FIFO. *)
ImplementsFifo == Fifo!Spec

(* "Frames are copied on push and owned by the buffer until popped"        *)
(* (jitter.h): every plane allocated belongs to a queued or popped frame.  *)
PlanesOwned == liveBlocks = UNION { Planes(n) : n \in InUse }
=============================================================================
