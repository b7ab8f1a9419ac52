----------------------------- MODULE Reassembly -----------------------------
(***************************************************************************)
(* The video datagram reassembler, src/src/net/reassembly.c: reasm_feed is *)
(* handed one UDP datagram at a time and calls the frame callback once a   *)
(* datagram flagged EOF has been appended.  The environment here is any    *)
(* sequence of datagrams at all, so it covers every loss, duplication and  *)
(* reordering a network can produce; VideoChannel restricts it to what a   *)
(* GameStream host and a lossy FIFO network do.                            *)
(***************************************************************************)
EXTENDS Integers, Sequences, FiniteSets

CONSTANTS
    NFrames,   \* the host's stream consists of frames 1..NFrames
    Parts,     \* Parts[f]: number of datagrams frame f is cut into
    PLen,      \* PLen[d]: payload bytes of datagram d
    Slack,     \* the bytes reasm_feed adds when it grows the buffer (4096)
    HeapFails, \* whether realloc may fail
    Runt,      \* a datagram too short for its RTP or NV_VIDEO_PACKET header
    MaxFeeds   \* bound: datagrams fed in one behaviour

Frames == 1..NFrames

(* A datagram of the host: the idx-th of its frame, flags FLAG_SOF on the  *)
(* first and FLAG_EOF on the last (both on the only one).                  *)
Frag(f, i) == [frame |-> f, idx |-> i]
Fragments  == UNION { { Frag(f, i) : i \in 1..Parts[f] } : f \in Frames }
FLAG_SOF(d) == d.idx = 1
FLAG_EOF(d) == d.idx = Parts[d.frame]

ASSUME StreamAssumption ==
    /\ NFrames \in Nat
    /\ Parts \in [Frames -> Nat \ {0}]
    /\ PLen \in [Fragments -> Nat]
    /\ Slack \in Nat
    /\ HeapFails \in BOOLEAN
    /\ MaxFeeds \in Nat
    /\ Runt \notin Fragments

VARIABLES
    cur_frame,   \* frameIndex of the last SOF datagram
    have_frame,  \* a SOF was seen whose frame has not been emitted
    buf,         \* the datagrams whose payloads make up buf[0..buflen)
    buflen,      \* bytes in use
    bufcaps,     \* bytes allocated
    out,         \* the callback's calls so far
    hist,        \* history: every datagram handed to reasm_feed
    oomAt        \* history: position in hist at the last failed realloc

reasm == <<cur_frame, have_frame, buf, buflen, bufcaps>>
vars  == <<cur_frame, have_frame, buf, buflen, bufcaps, out, hist, oomAt>>

-----------------------------------------------------------------------------
(* reasm_create: calloc. *)
Init ==
    /\ cur_frame = 0
    /\ have_frame = FALSE
    /\ buf = <<>>
    /\ buflen = 0
    /\ bufcaps = 0
    /\ out = <<>>
    /\ hist = <<>>
    /\ oomAt = 0

(* Mutants: the index of the SOF is not stored; it is stored only when no  *)
(* frame is open.                                                          *)
MutFrameOfNever(d) == cur_frame
MutFrameOfFirst(d) == IF have_frame THEN cur_frame ELSE d.frame

(* The frame datagram d is counted to: its own if it starts one, otherwise *)
(* whichever frame is open.  d's own frameIndex is not looked at.          *)
FrameOf(d) == IF FLAG_SOF(d) THEN d.frame ELSE cur_frame

(* Mutant: SOF does not reset the contents. *)
MutBufAtKept(d) == buf

(* What the buffer holds once a SOF has reset it. *)
BufAt(d)    == IF FLAG_SOF(d) THEN <<>> ELSE buf
BuflenAt(d) == IF FLAG_SOF(d) THEN 0 ELSE buflen

(* Mutant: a SOF is refused while another frame is open. *)
MutAcceptedOnce(d) == FLAG_SOF(d) # have_frame

Accepted(d) == FLAG_SOF(d) \/ have_frame
(* Mutant: the capacity test forgets the bytes already in use. *)
MutMustGrow(d) == PLen[d] > bufcaps

MustGrow(d) == BuflenAt(d) + PLen[d] > bufcaps
Grown(d)    == (BuflenAt(d) + PLen[d]) * 2 + Slack

(* emit_video is called for EOF, and returns early on an empty buffer. *)
Completes(d) == FLAG_EOF(d) /\ BuflenAt(d) + PLen[d] > 0

(* The emitted frame: its pts is the frameIndex of the SOF. *)
Emitted(d) == [pts |-> FrameOf(d), data |-> Append(BufAt(d), d)]

(* Too small for its headers: logged and dropped. *)
FeedRunt ==
    /\ hist' = Append(hist, Runt)
    /\ UNCHANGED <<reasm, out, oomAt>>

(* Continuation without SOF: "we lost the start". *)
FeedIgnored(d) ==
    /\ ~Accepted(d)
    /\ hist' = Append(hist, d)
    /\ UNCHANGED <<reasm, out, oomAt>>

(* Mutant: the frame stays open after its emission. *)
MutFeedAppendedOpen(d) ==
    /\ Accepted(d)
    /\ hist' = Append(hist, d)
    /\ cur_frame' = FrameOf(d)
    /\ bufcaps' = IF MustGrow(d) THEN Grown(d) ELSE bufcaps
    /\ have_frame' = TRUE
    /\ buf' = IF Completes(d) THEN <<>> ELSE Append(BufAt(d), d)
    /\ buflen' = IF Completes(d) THEN 0 ELSE BuflenAt(d) + PLen[d]
    /\ out' = IF Completes(d) THEN Append(out, Emitted(d)) ELSE out
    /\ UNCHANGED oomAt

(* Append the payload and, on EOF, call the callback and close the frame. *)
FeedAppended(d) ==
    /\ Accepted(d)
    /\ hist' = Append(hist, d)
    /\ cur_frame' = FrameOf(d)
    /\ bufcaps' = IF MustGrow(d) THEN Grown(d) ELSE bufcaps
    /\ have_frame' = ~Completes(d)
    /\ buf' = IF Completes(d) THEN <<>> ELSE Append(BufAt(d), d)
    /\ buflen' = IF Completes(d) THEN 0 ELSE BuflenAt(d) + PLen[d]
    /\ out' = IF Completes(d) THEN Append(out, Emitted(d)) ELSE out
    /\ UNCHANGED oomAt

(* realloc fails: the buffer is gone, but the frame stays open. *)
FeedOutOfMemory(d) ==
    /\ HeapFails
    /\ Accepted(d)
    /\ MustGrow(d)
    /\ hist' = Append(hist, d)
    /\ cur_frame' = FrameOf(d)
    /\ have_frame' = TRUE
    /\ buf' = <<>>
    /\ buflen' = 0
    /\ bufcaps' = 0
    /\ oomAt' = Len(hist')
    /\ UNCHANGED out

Feed(d) == FeedIgnored(d) \/ FeedAppended(d) \/ FeedOutOfMemory(d)

Next ==
    /\ Len(hist) < MaxFeeds
    /\ \/ FeedRunt
       \/ \E d \in Fragments : Feed(d)

Spec == Init /\ [][Next]_vars

-----------------------------------------------------------------------------
FrameSeq(f) == [i \in 1..Parts[f] |-> Frag(f, i)]
HasBytes(f) == \E i \in 1..Parts[f] : PLen[Frag(f, i)] > 0

(* The last k datagrams fed are the first k of frame f, in order.          *)
JustFed(f, k) ==
    /\ k <= Len(hist)
    /\ \A i \in 1..k : hist[Len(hist) - k + i] = Frag(f, i)

EmittedFrame == [pts : Frames, data : Seq(Fragments)]

(* Type invariant; an open frame has the index of a real SOF datagram.     *)
TypeOK ==
    /\ cur_frame \in 0..NFrames
    /\ have_frame \in BOOLEAN
    /\ have_frame => cur_frame \in Frames
    /\ buf \in Seq(Fragments)
    /\ buflen \in Nat
    /\ bufcaps \in Nat
    /\ out \in Seq(EmittedFrame)
    /\ hist \in Seq(Fragments \cup {Runt})
    /\ oomAt \in 0..Len(hist)

(* The appended payloads always fit the allocation, also after a failed    *)
(* realloc has taken the buffer away (reasm_feed's capacity test).         *)
WithinCapacity == buflen <= bufcaps

(* An emitted frame never reaches back before its SOF nor past its EOF: a  *)
(* SOF datagram can only be its first and carries its pts, an EOF datagram *)
(* with a payload only its last; and its first is one, as long as no       *)
(* realloc has failed, which leaves a frame open without its start.  (What *)
(* lies between may be of other frames, and an EOF without payload on an   *)
(* empty buffer closes nothing.)                                           *)
Framed ==
    \A n \in 1..Len(out) :
        /\ oomAt = 0 => FLAG_SOF(out[n].data[1])
        /\ \A i \in 1..Len(out[n].data) :
              LET d == out[n].data[i]
              IN /\ FLAG_SOF(d) => i = 1 /\ d.frame = out[n].pts
                 /\ FLAG_EOF(d) /\ PLen[d] > 0 => i = Len(out[n].data)

(* SOF resynchronises: whatever was lost, duplicated, reordered or too     *)
(* short before, once all datagrams of a frame have come in one after the  *)
(* other (and no realloc failed among them) that frame has been emitted,   *)
(* with its own index and exactly its own payloads.                        *)
IntactRunEmitted ==
    \A f \in Frames :
        /\ JustFed(f, Parts[f])
        /\ HasBytes(f)
        /\ oomAt <= Len(hist) - Parts[f]
        => /\ out # <<>>
           /\ out[Len(out)] = [pts |-> f, data |-> FrameSeq(f)]

(* Every emission uses up a SOF of its own: trailing continuations and     *)
(* repeated EOF datagrams can never produce a second frame from one start. *)
Starts == { i \in 1..Len(hist) : hist[i] # Runt /\ FLAG_SOF(hist[i]) }
OneFramePerStart ==
    Len(out) + (IF have_frame THEN 1 ELSE 0) <= Cardinality(Starts)
=============================================================================
