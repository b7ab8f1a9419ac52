------------------------------ MODULE Pipeline ------------------------------
(***************************************************************************)
(* The way of a video frame from the reassembly to the screen: the turns   *)
(* of session_pump (src/src/proto/connection.c), which submit the frame a  *)
(* datagram completed (pipeline_submit_video), and then pump the pipeline  *)
(* (pipeline_pump, src/src/av/pipeline.c): everything decoded goes into    *)
(* the jitter buffer, and one frame out of it to the screen.  The jitter   *)
(* buffer is DropOldestFifo, which Jitter.tla implements; the decoder is   *)
(* FFmpeg's (external), as src/src/av/video_ffmpeg.c uses it.              *)
(***************************************************************************)
EXTENDS Integers, Sequences

CONSTANTS
    JITTER_CAP,  \* capacity of the jitter buffer (8)
    DecDelay,    \* packets the decoder may keep before it gives a frame
    MaxFrames    \* bound: frames submitted

ASSUME PipelineAssumption ==
    /\ JITTER_CAP \in Nat \ {0}
    /\ DecDelay \in Nat /\ DecDelay + 2 <= JITTER_CAP
    /\ MaxFrames \in Nat

(* External: the decoder takes a packet besides the one whose frame it has *)
(* ready; with both places taken, avcodec_send_packet returns EAGAIN.      *)
DecDepth == DecDelay + 2

(* session_pump reads one video datagram, with which reasm_feed completes  *)
(* one frame or none.                                                      *)
(* Mutant: the socket is read until it is empty. *)
MutFramesPerTurn == 3
FramesPerTurn    == 1

Junk    == 0   \* an uninitialized video_frame_t
NoFrame == -1
Frames  == 1..MaxFrames

VARIABLES
    pc,       \* feed, drain, pop, present or crashed
    fed,      \* frames submitted in this turn
    sent,     \* frames submitted so far, which numbers them
    dec,      \* packets in the decoder, with whether they can be decoded
    vf,       \* the local variable of pipeline_pump
    cap,      \* the capacity the jitter buffer was created with
    queue,    \* the jitter buffer, oldest first
    held,     \* the frame popped, or NoFrame
    last,     \* the frame on the screen
    newest,   \* history: the newest frame that has been on the screen
    refused,  \* history: a packet was refused by the decoder
    overrun   \* history: a frame was dropped by the jitter buffer

vars == <<pc, fed, sent, dec, vf, cap, queue, held, last, newest, refused, overrun>>

Buffer == INSTANCE DropOldestFifo WITH Pts <- {Junk} \cup Frames

Init ==
    /\ pc = "feed"
    /\ fed = 0
    /\ sent = 0
    /\ dec = <<>>
    /\ vf = Junk
    /\ cap = JITTER_CAP
    /\ queue = <<>>
    /\ held = NoFrame
    /\ last = Junk
    /\ newest = Junk
    /\ refused = FALSE
    /\ overrun = FALSE

(* vd_submit: a refused packet counts as submitted, and is lost. *)
SubmitVideo ==
    /\ pc = "feed"
    /\ fed < FramesPerTurn
    /\ sent < MaxFrames
    /\ sent' = sent + 1
    /\ fed' = fed + 1
    /\ IF Len(dec) < DecDepth
       THEN /\ \E ok \in BOOLEAN : dec' = Append(dec, [frame |-> sent', ok |-> ok])
            /\ UNCHANGED refused
       ELSE refused' = TRUE /\ UNCHANGED dec
    /\ UNCHANGED <<pc, vf, cap, queue, held, last, newest, overrun>>

(* pipeline_pump begins: vf is whatever is on the stack, often what was    *)
(* left there by the turn before.                                          *)
BeginPump ==
    /\ pc = "feed"
    /\ pc' = "drain"
    /\ vf' \in {Junk, vf}
    /\ UNCHANGED <<fed, sent, dec, cap, queue, held, last, newest, refused, overrun>>

(* vd_pump: avcodec_receive_frame has a frame, or fails for a packet that  *)
(* cannot be decoded; then vd_pump leaves vf alone and returns -1.         *)
(* Mutant: the newest first. *)
MutNextOut == Len(dec)
NextOut    == 1
(* The loop takes every result other than 0 for a frame: once more the one *)
(* in vf, or if it was never written what its stray pointers give ...      *)
Drain ==
    /\ pc = "drain"
    /\ dec # <<>>
    /\ UNCHANGED pc
    /\ vf' = IF dec[NextOut].ok THEN dec[NextOut].frame ELSE vf
    /\ dec' = SubSeq(dec, 1, NextOut - 1) \o SubSeq(dec, NextOut + 1, Len(dec))
    /\ Buffer!Push(vf')
    /\ overrun' = (overrun \/ Len(queue) = cap)
    /\ UNCHANGED <<fed, sent, last, newest, refused>>

(* ... if jitter_buf_push survives copying from them.  Nor is it certain   *)
(* that rsx_renderer_present_yuv survives its read of the luma plane,      *)
(* whose pointer frame_copy has cleared.                                   *)
Crash ==
    /\ \/ pc = "drain" /\ dec # <<>> /\ ~dec[NextOut].ok /\ vf = Junk
       \/ pc = "present"
    /\ pc' = "crashed"
    /\ UNCHANGED <<fed, sent, dec, vf, cap, queue, held, last, newest, refused, overrun>>

NothingToDrain ==
    /\ pc = "drain"
    /\ Len(dec) <= DecDelay
    /\ pc' = "pop"
    /\ UNCHANGED <<fed, sent, dec, vf, cap, queue, held, last, newest, refused, overrun>>

(* One frame is presented if enough are buffered. *)
(* Mutant: more than the minimum. *)
MutPIPELINE_MIN_VIDEO_FRAMES == 3
PIPELINE_MIN_VIDEO_FRAMES    == 2

PopFrame ==
    /\ pc = "pop"
    /\ Len(queue) >= PIPELINE_MIN_VIDEO_FRAMES
    /\ pc' = "present"
    /\ Buffer!Pop
    /\ UNCHANGED <<fed, sent, dec, vf, last, newest, refused, overrun>>

TooFew ==
    /\ pc = "pop"
    /\ Len(queue) < PIPELINE_MIN_VIDEO_FRAMES
    /\ pc' = "feed"
    /\ fed' = 0
    /\ UNCHANGED <<sent, dec, vf, cap, queue, held, last, newest, refused, overrun>>

Show ==
    /\ last' = held
    /\ newest' = IF held = Junk THEN newest ELSE held

(* rsx_renderer_present_yuv, then jitter_frame_free. *)
(* Mutant: the frame is not freed. *)
MutPresent ==
    /\ pc = "present"
    /\ Show
    /\ pc' = "feed"
    /\ fed' = 0
    /\ UNCHANGED <<sent, dec, vf, cap, queue, held, refused, overrun>>
Present ==
    /\ pc = "present"
    /\ Show
    /\ Buffer!Release
    /\ pc' = "feed"
    /\ fed' = 0
    /\ UNCHANGED <<sent, dec, vf, refused, overrun>>

Pump == BeginPump \/ Drain \/ NothingToDrain \/ PopFrame \/ TooFew \/ Present \/ Crash

Next == SubmitVideo \/ Pump

(* run_stream calls session_pump in an endless loop, which never waits:    *)
(* the turns go on, but nothing makes frames arrive.                       *)
Spec == Init /\ [][Next]_vars /\ WF_vars(Pump)

-----------------------------------------------------------------------------
TypeOK ==
    /\ pc \in {"feed", "drain", "pop", "present", "crashed"}
    /\ fed \in 0..FramesPerTurn
    /\ sent \in 0..MaxFrames
    /\ dec \in Seq([frame : Frames, ok : BOOLEAN])
    /\ vf \in {Junk} \cup Frames
    /\ queue \in Seq({Junk} \cup Frames) /\ cap = JITTER_CAP /\ Len(queue) <= cap
    /\ held \in {NoFrame, Junk} \cup Frames
    /\ pc = "present" => held # NoFrame
    /\ held # NoFrame => pc \in {"present", "crashed"}
    /\ last \in {Junk} \cup Frames
    /\ newest \in {Junk} \cup Frames
    /\ {refused, overrun} \subseteq BOOLEAN

(* vd_submit takes EAGAIN for success and the packet is lost without a     *)
(* trace (video_ffmpeg.c:27); this does not happen, because no turn brings *)
(* more frames than the decoder takes and each turn drains it.             *)
NothingRefused == ~refused

(* A decoder that gives the frames it kept all at once does not overrun    *)
(* the jitter buffer: what piles up in the two together stays bounded by   *)
(* the decoder's delay, as each turn presents a frame of those it brought. *)
NothingDropped == ~overrun

(* The screen never goes back to an older frame than one it has shown,     *)
(* whatever was dropped, could not be decoded or was shown uninitialized   *)
(* in between; the same one may appear once more.                          *)
ShownInOrder == [][last' # Junk => newest <= last']_last

(* A frame leaves decoder and buffer once the decoder's delay and one more *)
(* frame have followed it: buffering delays it by that and no more.  Only  *)
(* a repetition of the frame on the screen may remain; or the program has  *)
(* ended at a stray pointer.                                               *)
NoFrameStays ==
    \A f \in Frames :
        (sent > f + DecDelay) ~>
            \/ /\ \A i \in 1..Len(dec) : dec[i].frame # f
               /\ (\E i \in 1..Len(queue) : queue[i] = f) => last = f
            \/ pc = "crashed"
=============================================================================
