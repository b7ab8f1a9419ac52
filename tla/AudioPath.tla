------------------------------ MODULE AudioPath ------------------------------
(***************************************************************************)
(* The way of the sound from the socket to the port: each turn of          *)
(* session_pump (src/src/proto/connection.c) reads at most one audio       *)
(* datagram, whose payload reasm_feed passes on as it is, and submits it   *)
(* to the decoder (ad_submit, src/src/av/audio_ffmpeg.c); pipeline_pump    *)
(* (src/src/av/pipeline.c) then hands whatever the decoder gives to        *)
(* audio_playback_submit, which AudioPlayback models.  The decoder is      *)
(* FFmpeg's (external).                                                    *)
(***************************************************************************)
EXTENDS AudioPlayback

CONSTANTS
    DecDelay,   \* packets the decoder may keep before it gives a frame
    MaxPackets  \* bound: audio datagrams received

ASSUME AudioPathAssumption == {DecDelay, MaxPackets} \subseteq Nat

VARIABLES
    turn,      \* recv, pump or crashed
    packets,   \* datagrams received so far, which numbers them
    dec,       \* packets in the decoder, with what they decode to
    af,        \* the local variable of pipeline_pump
    submitted, \* history: the frames handed to audio_playback_submit
    failed     \* history: a packet could not be decoded

pathVars == <<turn, packets, dec, af, submitted, failed>>
allVars  == <<vars, pathVars>>

(* External: the decoder takes a packet besides the one whose frame it has *)
(* ready; with both places taken, avcodec_send_packet returns EAGAIN.      *)
DecDepth == DecDelay + 2

Junk   == [frame |-> 0, pcm |-> <<0, 0>>]  \* an uninitialized audio_frame_t
Packet == [frame : 1..MaxPackets, ok : BOOLEAN, pcm : Inputs]

PathInit ==
    /\ Init
    /\ turn = "recv"
    /\ packets = 0
    /\ dec = <<>>
    /\ af = Junk
    /\ submitted = <<>>
    /\ failed = FALSE

(* The pump begins with an audio_frame_t that is whatever is on the stack, *)
(* often what was left there by the turn before.                           *)
BeginPump == turn' = "pump" /\ af' \in {Junk, af}

(* A datagram: ad_submit takes EAGAIN for success, and the packet is lost. *)
Receive ==
    /\ turn = "recv" /\ pc = "idle"
    /\ packets < MaxPackets
    /\ packets' = packets + 1
    /\ IF Len(dec) < DecDepth
       THEN \E ok \in BOOLEAN, in \in Inputs :
                dec' = Append(dec, [frame |-> packets', ok |-> ok, pcm |-> in])
       ELSE UNCHANGED dec
    /\ BeginPump
    /\ UNCHANGED <<vars, submitted, failed>>

ReceiveNothing ==
    /\ turn = "recv" /\ pc = "idle"
    /\ BeginPump
    /\ UNCHANGED <<vars, packets, dec, submitted, failed>>

(* ad_pump: a frame, or -1 for a packet that cannot be decoded, which the  *)
(* loop takes for one: af is submitted as it is, once more if it still     *)
(* holds the frame before, and if it was never written ...                 *)
Pumped == IF Head(dec).ok THEN [frame |-> Head(dec).frame, pcm |-> Head(dec).pcm] ELSE af

(* Mutant: the loop may stop before that, "if" in place of "while". *)
MutDrained == TRUE
(* The loop goes on until the decoder has nothing more to give. *)
Drained == Len(dec) <= DecDelay

PumpFrame ==
    /\ turn = "pump" /\ pc = "idle"
    /\ dec # <<>>
    /\ dec' = Tail(dec)
    /\ af' = Pumped
    /\ failed' = (failed \/ ~Head(dec).ok)
    /\ af' # Junk
    /\ Submit(af'.pcm[1], af'.pcm[2])
    /\ submitted' = Append(submitted, af'.frame)
    /\ UNCHANGED <<turn, packets>>

(* ... samples are read through a pointer and a count from the stack.      *)
PumpJunk ==
    /\ turn = "pump" /\ pc = "idle"
    /\ dec # <<>>
    /\ Pumped = Junk
    /\ turn' = "crashed"
    /\ failed' = TRUE
    /\ UNCHANGED <<vars, packets, dec, af, submitted>>

PumpEnds ==
    /\ turn = "pump" /\ pc = "idle"
    /\ Drained
    /\ turn' = "recv"
    /\ UNCHANGED <<vars, packets, dec, af, submitted, failed>>

Playback == (AskPort \/ Copy \/ Submitted) /\ UNCHANGED pathVars

Hardware == PlayNext /\ UNCHANGED pathVars

PathNext ==
    \/ Receive \/ ReceiveNothing
    \/ PumpFrame \/ PumpJunk \/ PumpEnds
    \/ Playback \/ Hardware

(* The program runs on, and the hardware plays. *)
PathSpec ==
    /\ PathInit /\ [][PathNext]_allVars
    /\ WF_allVars(Playback) /\ WF_allVars(Hardware)

-----------------------------------------------------------------------------
(* The port is given the frames of the stream in order, each of them and   *)
(* each once, although nothing queues them on the way (the decoder never   *)
(* has to refuse one, audio_ffmpeg.c:28).  Only a packet that cannot be    *)
(* decoded leaves a gap, and makes the frame before it, of this turn or of *)
(* an earlier one, sound again; with no frame before it the program reads  *)
(* what the stack holds.                                                   *)
SubmittedInOrder ==
    /\ \A i \in 1..(Len(submitted) - 1) : submitted[i] <= submitted[i + 1]
    /\ ~failed => /\ \A i \in 1..Len(submitted) : submitted[i] = i
                  /\ packets = Len(submitted) + Len(dec)
                  /\ turn # "crashed"
=============================================================================
