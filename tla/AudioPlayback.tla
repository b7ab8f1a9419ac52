--------------------------- MODULE AudioPlayback ---------------------------
(***************************************************************************)
(* Audio output, src/src/av/audio_playback_ps3.c: decoded PCM is resampled *)
(* into a staging buffer and copied, block by block, into the ring of the  *)
(* PS3 audio port (external), whose hardware plays one block after the     *)
(* other while the program runs.                                           *)
(***************************************************************************)
EXTENDS Integers, Sequences

CONSTANTS
    NumBlocks,     \* blocks in the port's ring (16)
    BlockSamples,  \* samples in a block (256)
    PortRate,      \* the port's sample rate (48000)
    Inputs,        \* the <<samples, sample_rate>> submitted
    MaxStaged,     \* bound: samples staged in one behaviour
    MaxLag         \* blocks played while a block is being copied, at most

ASSUME AudioAssumption ==
    /\ NumBlocks \in Nat /\ NumBlocks > 1
    /\ BlockSamples \in Nat \ {0}
    /\ PortRate \in Nat \ {0}
    /\ Inputs \subseteq Nat \X Int
    /\ MaxStaged \in Nat
    /\ MaxLag \in 0..(NumBlocks - 2)

VARIABLES
    pc,         \* idle, write (at the head of the loop) or copy
    staging,    \* the staging buffer; samples are numbered as they come
    staged,     \* number of samples staged so far
    wb,         \* the block to copy to
    ring,       \* what each block holds
    readIndex,  \* the block the hardware plays
    lag,        \* blocks played since the port was last asked
    heard,      \* history: the blocks played
    lost        \* history: the blocks overwritten before they were played

vars == <<pc, staging, staged, wb, ring, readIndex, lag, heard, lost>>

Slots   == 0..(NumBlocks - 1)
Silence == <<>>

Init ==
    /\ pc = "idle"
    /\ staging = <<>>
    /\ staged = 0
    /\ wb = 0
    /\ ring = [b \in Slots |-> Silence]
    /\ readIndex = 0
    /\ lag = 0
    /\ heard = {}
    /\ lost = {}

(* stage: n samples at the given rate become this many at the port's. *)
Resampled(n, rate) == (n * PortRate) \div (IF rate <= 0 THEN PortRate ELSE rate)

(* audio_playback_submit: stage. *)
Submit(n, rate) ==
    /\ pc = "idle"
    /\ staged + Resampled(n, rate) <= MaxStaged
    /\ staging' = staging \o [i \in 1..Resampled(n, rate) |-> staged + i]
    /\ staged' = staged + Resampled(n, rate)
    /\ pc' = "write"
    /\ UNCHANGED <<wb, ring, readIndex, lag, heard, lost>>

(* Mutants: the block being played; the block played next. *)
MutTargetPlaying == readIndex
MutTargetNext    == (readIndex + 1) % NumBlocks

(* The block just consumed. *)
Target == (readIndex + NumBlocks - 1) % NumBlocks

(* Mutant: a block is copied only once more samples follow it. *)
MutWholeBlock == Len(staging) > BlockSamples

WholeBlock == Len(staging) >= BlockSamples

(* The loop: while there is a whole block, ask the port where it is ... *)
AskPort ==
    /\ pc = "write"
    /\ WholeBlock
    /\ wb' = Target
    /\ lag' = 0
    /\ pc' = "copy"
    /\ UNCHANGED <<staging, staged, ring, readIndex, heard, lost>>

(* Mutant: the copied samples stay in the staging buffer. *)
MutRest == SubSeq(staging, BlockSamples, Len(staging))

(* memmove. *)
Rest == SubSeq(staging, BlockSamples + 1, Len(staging))

(* ... and copy the block there. *)
Copy ==
    /\ pc = "copy"
    /\ ring' = [ring EXCEPT ![wb] = SubSeq(staging, 1, BlockSamples)]
    /\ lost' = lost \cup ({ring[wb]} \ (heard \cup {Silence}))
    /\ staging' = Rest
    /\ pc' = "write"
    /\ UNCHANGED <<staged, wb, readIndex, lag, heard>>

Submitted ==
    /\ pc = "write"
    /\ ~WholeBlock
    /\ pc' = "idle"
    /\ UNCHANGED <<staging, staged, wb, ring, readIndex, lag, heard, lost>>

(* The hardware begins to play the next block. *)
PlayNext ==
    /\ pc = "copy" => lag < MaxLag
    /\ lag' = IF pc = "copy" THEN lag + 1 ELSE lag
    /\ readIndex' = (readIndex + 1) % NumBlocks
    /\ heard' = heard \cup ({ring[readIndex']} \ {Silence})
    /\ UNCHANGED <<pc, staging, staged, wb, ring, lost>>

Next ==
    \/ \E in \in Inputs : Submit(in[1], in[2])
    \/ AskPort
    \/ Copy
    \/ Submitted
    \/ PlayNext

(* The program runs on, and the hardware plays. *)
Fairness == WF_vars(AskPort) /\ WF_vars(Copy) /\ WF_vars(Submitted) /\ WF_vars(PlayNext)

Spec == Init /\ [][Next]_vars /\ Fairness

-----------------------------------------------------------------------------
(* A block of the stream: BlockSamples samples one after the other,        *)
(* beginning where the block before it ended.                              *)
Block(k) == [i \in 1..BlockSamples |-> (k - 1) * BlockSamples + i]
Blocks   == { Block(k) : k \in 1..(MaxStaged \div BlockSamples) }

(* Type invariant: every block in the ring is one of the stream's.         *)
TypeOK ==
    /\ pc \in {"idle", "write", "copy"}
    /\ staging \in Seq(1..MaxStaged)
    /\ staged \in 0..MaxStaged
    /\ wb \in Slots
    /\ ring \in [Slots -> Blocks \cup {Silence}]
    /\ readIndex \in Slots
    /\ lag \in 0..MaxLag
    /\ heard \subseteq Blocks
    /\ lost \subseteq Blocks

(* "so we never clobber the one currently playing": also when the hardware *)
(* moves on between the question and the end of the copy.                  *)
NeverClobbers == pc = "copy" => wb # readIndex

(* The stream is heard in order: a block that plays for the first time is  *)
(* later than all that have played before it.                              *)
FirstPlaysInOrder ==
    [][ \A b \in heard' \ heard : \A c \in heard : c[1] < b[1] ]_vars

(* No sample is stuck in the staging buffer beyond an incomplete block,    *)
(* and every whole block is eventually played, or was overwritten.         *)
EveryBlockEnds ==
    \A k \in 1..(MaxStaged \div BlockSamples) :
        staged >= k * BlockSamples ~> Block(k) \in heard \cup lost

(* "Queue interleaved s16 PCM for playback" (audio_playback.h), "target    *)
(* the block just consumed by the HW" (audio_playback_ps3.c): what is      *)
(* overwritten has been played.                                            *)
NothingLost == lost = {}
=============================================================================
