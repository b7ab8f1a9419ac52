--------------------------- MODULE Pipeline_proofs ---------------------------
(***************************************************************************)
(* Proofs about Pipeline for every decoder delay, every buffer that is two *)
(* frames larger, and every number of frames.                              *)
(***************************************************************************)
EXTENDS Pipeline, TLAPS

(* What is in decoder and buffer together: one frame more than the decoder *)
(* keeps when a turn begins, two while it runs.                            *)
Load == Len(dec) + Len(queue)
LoadOK ==
    /\ Load <= DecDelay + 2
    /\ pc = "feed" /\ fed = 0 => Load <= DecDelay + 1
    /\ pc = "pop" => Len(dec) <= DecDelay
    /\ pc = "present" => Load <= DecDelay + 1

Inv == TypeOK /\ LoadOK /\ NothingRefused /\ NothingDropped

LEMMA SeqElement == \A S : \A s \in Seq(S) : \A i \in 1..Len(s) : s[i] \in S
  OBVIOUS

LEMMA InvInit == Init => Inv
<1> SUFFICES ASSUME Init PROVE Inv
  OBVIOUS
<1>1. TypeOK
  <2>1. held = NoFrame /\ pc = "feed"
    BY DEF Init
  <2>2. refused \in BOOLEAN /\ overrun \in BOOLEAN
    BY DEF Init
  <2>3. dec \in Seq([frame : Frames, ok : BOOLEAN]) /\ queue \in Seq({Junk} \cup Frames)
    BY DEF Init
  <2>4. fed \in 0..FramesPerTurn /\ sent \in 0..MaxFrames /\ cap = JITTER_CAP /\ Len(queue) <= cap
    BY PipelineAssumption DEF Init, FramesPerTurn
  <2>5. QED
    BY <2>1, <2>2, <2>3, <2>4 DEF Init, TypeOK
<1>2. LoadOK
  BY PipelineAssumption DEF Init, LoadOK, Load
<1>3. NothingRefused /\ NothingDropped
  BY DEF Init, NothingRefused, NothingDropped
<1>4. QED
  BY <1>1, <1>2, <1>3 DEF Inv

LEMMA InvNext == Inv /\ [Next]_vars => Inv'
<1> SUFFICES ASSUME Inv, [Next]_vars PROVE Inv'
  OBVIOUS
<1>0. /\ JITTER_CAP \in Nat /\ DecDelay \in Nat /\ MaxFrames \in Nat
      /\ DecDelay + 2 <= JITTER_CAP
  BY PipelineAssumption
<1>1. /\ Len(dec) \in Nat /\ Len(queue) \in Nat
      /\ dec \in Seq([frame : Frames, ok : BOOLEAN])
      /\ queue \in Seq({Junk} \cup Frames)
      /\ refused = FALSE /\ overrun = FALSE
  BY DEF Inv, TypeOK, NothingRefused, NothingDropped
<1>2. CASE SubmitVideo
  <2>1. fed = 0 /\ fed' = 1 /\ pc = "feed" /\ sent' \in Frames
    BY <1>0, <1>2 DEF SubmitVideo, Inv, TypeOK, FramesPerTurn, Frames
  <2>2. Load <= DecDelay + 1
    BY <2>1 DEF Inv, LoadOK
  <2>3. Len(dec) < DecDepth
    BY <1>0, <1>1, <2>2 DEF Load, DecDepth
  <2>4. PICK ok \in BOOLEAN : dec' = Append(dec, [frame |-> sent', ok |-> ok])
    BY <1>2, <2>3 DEF SubmitVideo
  <2>5. dec' \in Seq([frame : Frames, ok : BOOLEAN]) /\ Len(dec') = Len(dec) + 1
    BY <1>1, <2>1, <2>4
  <2>6. UNCHANGED <<pc, vf, cap, queue, held, last, newest, refused, overrun>>
    BY <1>2, <2>3 DEF SubmitVideo
  <2>7. TypeOK'
    BY <1>0, <2>1, <2>5, <2>6 DEF Inv, TypeOK, FramesPerTurn, Frames
  <2>8. LoadOK'
    BY <1>0, <1>1, <2>1, <2>2, <2>5, <2>6 DEF LoadOK, Load
  <2>9. QED
    BY <1>1, <2>6, <2>7, <2>8 DEF Inv, NothingRefused, NothingDropped
<1>3. CASE BeginPump
  <2>1. TypeOK'
    BY <1>3 DEF BeginPump, Inv, TypeOK
  <2>2. LoadOK'
    BY <1>3 DEF BeginPump, Inv, LoadOK, Load
  <2>3. QED
    BY <1>1, <1>3, <2>1, <2>2 DEF BeginPump, Inv, NothingRefused, NothingDropped
<1>4. CASE Drain
  <2>1. dec' = Tail(dec) /\ Len(dec) >= 1
    BY <1>1, <1>4 DEF Drain, NextOut
  <2>2. Len(queue) < cap /\ cap = JITTER_CAP
    BY <1>0, <1>1, <2>1 DEF Inv, TypeOK, LoadOK, Load
  <2>3. vf' \in {Junk} \cup Frames
    <3>1. dec[1].frame \in Frames
      <4>1. 1 \in 1..Len(dec)
        BY <1>1, <2>1
      <4>2. \A i \in 1..Len(dec) : dec[i] \in [frame : Frames, ok : BOOLEAN]
        BY <1>1, SeqElement
      <4>3. QED
        BY <4>1, <4>2
    <3>2. vf' = IF dec[1].ok THEN dec[1].frame ELSE vf
      BY <1>4 DEF Drain, NextOut
    <3>3. vf \in {Junk} \cup Frames
      BY DEF Inv, TypeOK
    <3>4. QED
      BY <3>1, <3>2, <3>3
  <2>4. queue' = Append(queue, vf') /\ UNCHANGED <<cap, held>>
    BY <1>4, <2>2 DEF Drain, Buffer!Push
  <2>5. /\ dec' \in Seq([frame : Frames, ok : BOOLEAN]) /\ Len(dec') = Len(dec) - 1
        /\ queue' \in Seq({Junk} \cup Frames) /\ Len(queue') = Len(queue) + 1
    BY <1>1, <2>1, <2>3, <2>4
  <2>6. UNCHANGED <<pc, fed, sent, last, newest, refused>> /\ overrun' = FALSE
    <3>1. Len(queue) # cap
      BY <1>1, <2>2
    <3>2. overrun' = (overrun \/ Len(queue) = cap)
      BY <1>4 DEF Drain
    <3>3. UNCHANGED <<pc, fed, sent, last, newest, refused>>
      BY <1>4 DEF Drain
    <3>4. QED
      BY <1>1, <3>1, <3>2, <3>3
  <2>7. TypeOK'
    <3>1. cap' = JITTER_CAP /\ Len(queue') <= cap'
      BY <1>0, <1>1, <2>2, <2>4, <2>5
    <3>2. refused' \in BOOLEAN /\ overrun' \in BOOLEAN
      BY <1>1, <2>6
    <3>3. (pc' = "present" => held' # NoFrame) /\ (held' # NoFrame => pc' \in {"present", "crashed"})
      BY <2>4, <2>6 DEF Inv, TypeOK
    <3>4. QED
      BY <2>3, <2>4, <2>5, <2>6, <3>1, <3>2, <3>3 DEF Inv, TypeOK
  <2>8. LoadOK'
    <3>1. Load' = Load
      BY <1>1, <2>5 DEF Load
    <3>2. Load <= DecDelay + 2
      BY DEF Inv, LoadOK
    <3>3. pc' = "drain"
      BY <1>4 DEF Drain
    <3>4. QED
      BY <3>1, <3>2, <3>3 DEF LoadOK
  <2>9. QED
    BY <1>1, <2>6, <2>7, <2>8 DEF Inv, NothingRefused, NothingDropped
<1>5. CASE NothingToDrain
  <2>1. TypeOK'
    BY <1>5 DEF NothingToDrain, Inv, TypeOK
  <2>2. LoadOK'
    BY <1>5 DEF NothingToDrain, Inv, LoadOK, Load
  <2>3. QED
    BY <1>1, <1>5, <2>1, <2>2 DEF NothingToDrain, Inv, NothingRefused, NothingDropped
<1>6. CASE PopFrame
  <2>1. queue # <<>> /\ held' = Head(queue) /\ queue' = Tail(queue) /\ cap' = cap
    BY <1>6 DEF PopFrame, Buffer!Pop
  <2>2. /\ queue' \in Seq({Junk} \cup Frames) /\ Len(queue') = Len(queue) - 1
        /\ held' \in {Junk} \cup Frames
    BY <1>1, <2>1
  <2>3. NoFrame \notin {Junk} \cup Frames
    BY DEF NoFrame, Junk, Frames
  <2>4. TypeOK'
    <3>1. cap' = JITTER_CAP /\ Len(queue') <= cap'
      BY <1>0, <1>1, <2>1, <2>2 DEF Inv, TypeOK
    <3>2. pc' = "present" /\ held' # NoFrame
      BY <1>6, <2>2, <2>3 DEF PopFrame
    <3>3. UNCHANGED <<fed, sent, dec, vf, last, newest, refused, overrun>>
      BY <1>6 DEF PopFrame
    <3>4. (pc' = "present" => held' # NoFrame) /\ (held' # NoFrame => pc' \in {"present", "crashed"})
      BY <3>2
    <3>5. QED
      BY <2>2, <3>1, <3>2, <3>3, <3>4 DEF Inv, TypeOK
  <2>5. LoadOK'
    <3>1. UNCHANGED <<dec, fed>> /\ pc' = "present"
      BY <1>6 DEF PopFrame
    <3>2. Load <= DecDelay + 2 /\ Load' = Load - 1
      BY <1>1, <2>2, <3>1 DEF Inv, LoadOK, Load
    <3>3. Load \in Int
      BY <1>1 DEF Load
    <3>4. QED
      BY <1>0, <3>1, <3>2, <3>3 DEF LoadOK
  <2>6. QED
    BY <1>1, <1>6, <2>4, <2>5 DEF PopFrame, Inv, NothingRefused, NothingDropped
<1>7. CASE TooFew
  <2>1. TypeOK'
    BY <1>7 DEF TooFew, Inv, TypeOK, FramesPerTurn
  <2>2. LoadOK'
    BY <1>0, <1>1, <1>7 DEF TooFew, Inv, LoadOK, Load, PIPELINE_MIN_VIDEO_FRAMES
  <2>3. QED
    BY <1>1, <1>7, <2>1, <2>2 DEF TooFew, Inv, NothingRefused, NothingDropped
<1>8. CASE Present
  <2>1. held' = NoFrame /\ UNCHANGED <<cap, queue>>
    BY <1>8 DEF Present, Buffer!Release
  <2>2. TypeOK'
    <3>1. last' \in {Junk} \cup Frames /\ newest' \in {Junk} \cup Frames
      BY <1>8 DEF Present, Show, Inv, TypeOK
    <3>2. QED
      BY <1>8, <2>1, <3>1 DEF Present, Inv, TypeOK, FramesPerTurn
  <2>3. LoadOK'
    BY <1>8, <2>1 DEF Present, Inv, LoadOK, Load
  <2>4. QED
    BY <1>1, <1>8, <2>2, <2>3 DEF Present, Inv, NothingRefused, NothingDropped
<1>9. CASE Crash
  <2>1. /\ pc \in {"drain", "present"} /\ pc' = "crashed"
        /\ UNCHANGED <<fed, sent, dec, vf, cap, queue, held, last, newest, refused, overrun>>
    BY <1>9 DEF Crash
  <2>2. TypeOK'
    BY <2>1 DEF Inv, TypeOK
  <2>3. LoadOK'
    BY <2>1 DEF Inv, LoadOK, Load
  <2>4. QED
    BY <1>1, <2>1, <2>2, <2>3 DEF Inv, NothingRefused, NothingDropped
<1>10. CASE UNCHANGED vars
  BY <1>10 DEF vars, Inv, TypeOK, LoadOK, Load, NothingRefused, NothingDropped
<1>11. QED
  BY <1>2, <1>3, <1>4, <1>5, <1>6, <1>7, <1>8, <1>9, <1>10 DEF Next, Pump

(* The type invariant. *)
THEOREM TypeCorrect == Spec => []TypeOK
<1>1. Inv => TypeOK
  BY DEF Inv
<1>2. QED
  BY InvInit, InvNext, <1>1, PTL DEF Spec

(* The decoder never refuses a packet of session_pump's. *)
THEOREM NothingRefusedCorrect == Spec => []NothingRefused
<1>1. Inv => NothingRefused
  BY DEF Inv
<1>2. QED
  BY InvInit, InvNext, <1>1, PTL DEF Spec

(* The jitter buffer never drops a frame, however the decoder delays them. *)
THEOREM NothingDroppedCorrect == Spec => []NothingDropped
<1>1. Inv => NothingDropped
  BY DEF Inv
<1>2. QED
  BY InvInit, InvNext, <1>1, PTL DEF Spec
-----------------------------------------------------------------------------
(* The frames on their way are in the order of the stream: the newest that *)
(* was on the screen, in the caller's hands, in the buffer, in vf, in the  *)
(* decoder.  Junk may be anywhere among them.                              *)
DecFrame(i) == dec[i].frame

(* x has left the decoder, before all that is still in it. *)
Out(x) == x <= sent /\ \A i \in 1..Len(dec) : x < DecFrame(i)
AllOut == Out(newest) /\ Out(held) /\ Out(vf) /\ \A k \in 1..Len(queue) : Out(queue[k])

DecOrder ==
    /\ \A i \in 1..Len(dec) : DecFrame(i) <= sent
    /\ \A i, j \in 1..Len(dec) : i < j => DecFrame(i) < DecFrame(j)
VfOrder ==
    vf # Junk => newest <= vf /\ held <= vf /\ \A k \in 1..Len(queue) : queue[k] <= vf
QueueOrder ==
    \A k, l \in 1..Len(queue) : k < l /\ queue[l] # Junk => queue[k] <= queue[l]
ShownOrder ==
    /\ \A k \in 1..Len(queue) : queue[k] # Junk => newest <= queue[k] /\ held <= queue[k]
    /\ held \in Frames => newest <= held

OrderOK == AllOut /\ DecOrder /\ VfOrder /\ QueueOrder /\ ShownOrder

LEMMA TailElement ==
    \A S : \A s \in Seq(S) : s # <<>> =>
        /\ Len(Tail(s)) = Len(s) - 1
        /\ \A i \in 1..(Len(s) - 1) : Tail(s)[i] = s[i + 1]
  OBVIOUS

LEMMA AppendElement ==
    \A S : \A s \in Seq(S) : \A x \in S :
        /\ Len(Append(s, x)) = Len(s) + 1
        /\ \A i \in 1..Len(s) : Append(s, x)[i] = s[i]
        /\ Append(s, x)[Len(s) + 1] = x
  OBVIOUS

(* Frames and the other values of a video_frame_t are numbers. *)
Numbers ==
    /\ sent \in Nat /\ newest \in Nat /\ vf \in Nat /\ held \in Int /\ held >= -1
    /\ Len(dec) \in Nat /\ Len(queue) \in Nat
    /\ \A i \in 1..Len(dec) : DecFrame(i) \in Nat /\ DecFrame(i) > 0
    /\ \A k \in 1..Len(queue) : queue[k] \in Nat
    /\ held \in Frames <=> held > 0

LEMMA NumbersOK == TypeOK => Numbers
<1> SUFFICES ASSUME TypeOK PROVE Numbers
  OBVIOUS
<1>1. MaxFrames \in Nat /\ Junk = 0 /\ NoFrame = -1 /\ Frames = 1..MaxFrames
  BY PipelineAssumption DEF Frames, Junk, NoFrame
<1>2. \A i \in 1..Len(dec) : dec[i] \in [frame : Frames, ok : BOOLEAN]
  BY SeqElement DEF TypeOK
<1>3. \A k \in 1..Len(queue) : queue[k] \in {Junk} \cup Frames
  BY SeqElement DEF TypeOK
<1>4. \A i \in 1..Len(dec) : DecFrame(i) \in Frames
  BY <1>2 DEF DecFrame
<1>5. Len(dec) \in Nat /\ Len(queue) \in Nat
  BY DEF TypeOK
<1>6. sent \in Nat /\ newest \in Nat /\ vf \in Nat /\ held \in Int /\ held >= -1
  BY <1>1 DEF TypeOK
<1>7. held \in Frames <=> held > 0
  BY <1>1 DEF TypeOK
<1>8. \A i \in 1..Len(dec) : DecFrame(i) \in Nat /\ DecFrame(i) > 0
  BY <1>1, <1>4
<1>9. \A k \in 1..Len(queue) : queue[k] \in Nat
  BY <1>1, <1>3
<1>10. QED
  BY <1>5, <1>6, <1>7, <1>8, <1>9 DEF Numbers

LEMMA NumbersNext == TypeOK' => Numbers'
BY NumbersOK, PTL

LEMMA OrderInit == Init => OrderOK
<1> SUFFICES ASSUME Init PROVE OrderOK
  OBVIOUS
<1>1. newest = 0 /\ vf = 0 /\ held = -1 /\ sent = 0 /\ Len(dec) = 0 /\ Len(queue) = 0
  BY DEF Init, Junk, NoFrame
<1>2. QED
  BY <1>1 DEF OrderOK, AllOut, Out, DecOrder, VfOrder, QueueOrder, ShownOrder, Junk, Frames

LEMMA SubmitOrder ==
    ASSUME Inv, Inv', OrderOK, SubmitVideo PROVE OrderOK'
<1>0. Numbers
  BY NumbersOK DEF Inv
<1>1. UNCHANGED <<vf, queue, held, newest>> /\ sent' = sent + 1
  BY DEF SubmitVideo
<1>2. refused' = FALSE
  BY DEF Inv, TypeOK, NothingRefused
<1>3. PICK ok \in BOOLEAN : dec' = Append(dec, [frame |-> sent', ok |-> ok])
  BY <1>2 DEF SubmitVideo
<1>4. sent' \in Frames
  BY <1>0, <1>1, PipelineAssumption DEF SubmitVideo, Frames, Numbers
<1>5. /\ dec \in Seq([frame : Frames, ok : BOOLEAN])
      /\ [frame |-> sent', ok |-> ok] \in [frame : Frames, ok : BOOLEAN]
  BY <1>4 DEF Inv, TypeOK
<1>6. /\ Len(dec') = Len(dec) + 1
      /\ \A i \in 1..Len(dec) : dec'[i] = dec[i]
      /\ dec'[Len(dec) + 1].frame = sent'
  BY <1>3, <1>5, AppendElement
<1>7. \A i \in 1..Len(dec') : DecFrame(i)' = IF i <= Len(dec) THEN DecFrame(i) ELSE sent + 1
  BY <1>0, <1>1, <1>6 DEF DecFrame, Numbers
<1>8. AllOut'
  BY <1>0, <1>1, <1>6, <1>7, SMTT(30) DEF OrderOK, AllOut, Out, Numbers
<1>9. DecOrder'
  BY <1>0, <1>1, <1>6, <1>7, SMTT(30) DEF OrderOK, DecOrder, Numbers
<1>10. VfOrder' /\ QueueOrder' /\ ShownOrder'
  BY <1>1 DEF OrderOK, VfOrder, QueueOrder, ShownOrder
<1>11. QED
  BY <1>8, <1>9, <1>10 DEF OrderOK

LEMMA DrainOrder ==
    ASSUME Inv, Inv', OrderOK, Drain PROVE OrderOK'
<1>0. Numbers /\ Numbers'
  BY NumbersOK, NumbersNext DEF Inv
<1>1. /\ dec \in Seq([frame : Frames, ok : BOOLEAN])
      /\ queue \in Seq({Junk} \cup Frames)
      /\ vf' \in {Junk} \cup Frames
  BY DEF Inv, TypeOK
<1>2. UNCHANGED <<sent, newest>> /\ dec' = Tail(dec) /\ dec # <<>>
  BY <1>1 DEF Drain, NextOut
<1>3. Len(dec) >= 1 /\ Len(dec') = Len(dec) - 1
  BY <1>1, <1>2, TailElement
<1>4. Len(queue) < cap
  BY <1>0, <1>3, PipelineAssumption DEF Inv, TypeOK, LoadOK, Load, Numbers
<1>5. queue' = Append(queue, vf') /\ UNCHANGED held
  BY <1>4 DEF Drain, Buffer!Push
<1>6. \A i \in 1..Len(dec') : DecFrame(i)' = DecFrame(i + 1) /\ i + 1 \in 1..Len(dec)
  BY <1>0, <1>1, <1>2, <1>3, TailElement DEF DecFrame, Numbers
<1>7. /\ Len(queue') = Len(queue) + 1
      /\ \A k \in 1..Len(queue) : queue'[k] = queue[k]
      /\ queue'[Len(queue) + 1] = vf'
  BY <1>1, <1>5, AppendElement
<1>8. \A k \in 1..Len(queue') : queue'[k] = IF k <= Len(queue) THEN queue[k] ELSE vf'
  <2> SUFFICES ASSUME NEW k \in 1..Len(queue')
               PROVE  queue'[k] = IF k <= Len(queue) THEN queue[k] ELSE vf'
    OBVIOUS
  <2>1. k \in 1..Len(queue) \/ (k = Len(queue) + 1 /\ ~(k <= Len(queue)))
    BY <1>0, <1>7 DEF Numbers
  <2>2. CASE k \in 1..Len(queue)
    BY <1>0, <1>7, <2>2 DEF Numbers
  <2>3. CASE k = Len(queue) + 1 /\ ~(k <= Len(queue))
    BY <1>7, <2>3
  <2>4. QED
    BY <2>1, <2>2, <2>3
<1>9. vf' = DecFrame(1) \/ vf' = vf
  BY DEF Drain, NextOut, DecFrame
(* What vf shows next is out of the decoder and not before what was out.   *)
<1>10. /\ vf' <= sent /\ \A i \in 1..Len(dec') : vf' < DecFrame(i + 1)
       /\ vf' # Junk => newest <= vf' /\ held <= vf' /\ \A k \in 1..Len(queue) : queue[k] <= vf'
  <2>1. 1 \in 1..Len(dec)
    BY <1>0, <1>3 DEF Numbers
  <2>2. CASE vf' = vf
    BY <1>0, <1>6, <2>2 DEF OrderOK, AllOut, Out, VfOrder, Numbers
  <2>3. CASE vf' = DecFrame(1)
    <3>1. DecFrame(1) <= sent /\ \A i \in 1..Len(dec') : DecFrame(1) < DecFrame(i + 1)
      BY <1>0, <1>6, <2>1 DEF OrderOK, DecOrder, Numbers
    <3>2. newest < DecFrame(1) /\ held < DecFrame(1) /\ \A k \in 1..Len(queue) : queue[k] < DecFrame(1)
      BY <2>1 DEF OrderOK, AllOut, Out
    <3>3. QED
      BY <1>0, <2>1, <2>3, <3>1, <3>2, SMTT(30) DEF Numbers
  <2>4. QED
    BY <1>9, <2>2, <2>3
<1>11. AllOut'
  <2>1. Out(newest)' /\ Out(held)' /\ Out(vf)'
    BY <1>0, <1>2, <1>5, <1>6, <1>10 DEF OrderOK, AllOut, Out
  <2>2. \A k \in 1..Len(queue) : Out(queue[k])'
    BY <1>2, <1>6, <1>7 DEF OrderOK, AllOut, Out
  <2>3. QED
    BY <1>0, <1>7, <1>8, <2>1, <2>2 DEF AllOut, Out, Numbers
<1>12. DecOrder'
  BY <1>0, <1>2, <1>6, SMTT(30) DEF OrderOK, DecOrder, Numbers
<1>13. VfOrder'
  BY <1>0, <1>2, <1>5, <1>8, <1>10 DEF VfOrder, Numbers
<1>14. QueueOrder'
  <2> SUFFICES ASSUME NEW k \in 1..Len(queue'), NEW l \in 1..Len(queue'),
                      k < l, queue'[l] # Junk
               PROVE  queue'[k] <= queue'[l]
    BY DEF QueueOrder
  <2>1. k \in 1..Len(queue) /\ queue'[k] = queue[k]
    BY <1>0, <1>7 DEF Numbers
  <2>2. CASE l \in 1..Len(queue)
    BY <1>7, <2>1, <2>2 DEF OrderOK, QueueOrder
  <2>3. CASE l \notin 1..Len(queue)
    <3>1. queue'[l] = vf'
      BY <1>0, <1>8, <2>3 DEF Numbers
    <3>2. QED
      BY <1>10, <2>1, <3>1
  <2>4. QED
    BY <2>2, <2>3
<1>15. ShownOrder'
  BY <1>0, <1>2, <1>5, <1>8, <1>10 DEF OrderOK, ShownOrder, Numbers
<1>16. QED
  BY <1>11, <1>12, <1>13, <1>14, <1>15 DEF OrderOK

LEMMA PopOrder ==
    ASSUME Inv, Inv', OrderOK, PopFrame PROVE OrderOK'
<1>0. Numbers /\ Numbers'
  BY NumbersOK, NumbersNext DEF Inv
<1>1. UNCHANGED <<sent, dec, vf, newest>>
  BY DEF PopFrame
<1>2. queue # <<>> /\ held' = queue[1] /\ queue' = Tail(queue)
  BY DEF PopFrame, Buffer!Pop
<1>3. /\ Len(queue) >= 1
      /\ Len(queue') = Len(queue) - 1
      /\ \A k \in 1..Len(queue') : queue'[k] = queue[k + 1]
  BY <1>2, TailElement DEF Inv, TypeOK
<1>4. 1 \in 1..Len(queue) /\ \A k \in 1..Len(queue') : k + 1 \in 1..Len(queue) /\ 1 < k + 1
  BY <1>0, <1>3 DEF Numbers
<1>5. AllOut'
  BY <1>1, <1>2, <1>3, <1>4 DEF OrderOK, AllOut, Out, DecFrame
<1>6. DecOrder'
  BY <1>1 DEF OrderOK, DecOrder, DecFrame
<1>7. VfOrder'
  BY <1>1, <1>2, <1>3, <1>4 DEF OrderOK, VfOrder
<1>8. QueueOrder'
  <2> SUFFICES ASSUME NEW k \in 1..Len(queue'), NEW l \in 1..Len(queue'),
                      k < l, queue'[l] # Junk
               PROVE  queue'[k] <= queue'[l]
    BY DEF QueueOrder
  <2>1. /\ k + 1 \in 1..Len(queue) /\ l + 1 \in 1..Len(queue) /\ k + 1 < l + 1
        /\ queue'[k] = queue[k + 1] /\ queue'[l] = queue[l + 1]
    BY <1>0, <1>3, <1>4, SMTT(30) DEF Numbers
  <2>2. QED
    BY <2>1 DEF OrderOK, QueueOrder
<1>9. ShownOrder'
  BY <1>0, <1>1, <1>2, <1>3, <1>4 DEF OrderOK, ShownOrder, QueueOrder, Numbers, Junk
<1>10. QED
  BY <1>5, <1>6, <1>7, <1>8, <1>9 DEF OrderOK

LEMMA PresentOrder ==
    ASSUME Inv, Inv', OrderOK, Present PROVE OrderOK'
<1>0. Numbers /\ Numbers'
  BY NumbersOK, NumbersNext DEF Inv
<1>1. /\ newest' = (IF held = 0 THEN newest ELSE held)
      /\ held' = -1 /\ UNCHANGED <<sent, dec, vf, queue>>
  BY DEF Present, Show, Buffer!Release, NoFrame, Junk
<1>2. AllOut'
  BY <1>0, <1>1 DEF OrderOK, AllOut, Out, DecFrame, Numbers
<1>3. DecOrder'
  BY <1>1 DEF OrderOK, DecOrder, DecFrame
<1>4. VfOrder' /\ QueueOrder' /\ ShownOrder'
  BY <1>0, <1>1 DEF OrderOK, VfOrder, QueueOrder, ShownOrder, Numbers
<1>5. QED
  BY <1>2, <1>3, <1>4 DEF OrderOK

LEMMA OtherOrder ==
    ASSUME Inv, Inv', OrderOK, BeginPump \/ NothingToDrain \/ TooFew \/ Crash \/ UNCHANGED vars
    PROVE  OrderOK'
<1>0. Numbers
  BY NumbersOK DEF Inv
<1>1. UNCHANGED <<sent, dec, queue, held, newest>> /\ vf' \in {Junk, vf}
  BY DEF BeginPump, NothingToDrain, TooFew, Crash, vars
<1>2. AllOut'
  BY <1>0, <1>1 DEF OrderOK, AllOut, Out, DecFrame, Numbers, Junk
<1>3. DecOrder' /\ VfOrder' /\ QueueOrder' /\ ShownOrder'
  BY <1>1 DEF OrderOK, DecOrder, DecFrame, VfOrder, QueueOrder, ShownOrder
<1>4. QED
  BY <1>2, <1>3 DEF OrderOK

LEMMA OrderNext == Inv /\ Inv' /\ OrderOK /\ [Next]_vars => OrderOK'
BY SubmitOrder, DrainOrder, PopOrder, PresentOrder, OtherOrder DEF Next, Pump

(* The screen never goes back to an older frame than one it has shown.     *)
THEOREM ShownInOrderCorrect == Spec => ShownInOrder
<1>1. Inv /\ OrderOK /\ [Next]_vars => [last' # Junk => newest <= last']_last
  <2> SUFFICES ASSUME Inv, OrderOK, [Next]_vars, last' # last, last' # Junk
               PROVE  newest <= last'
    OBVIOUS
  <2>1. CASE Present
    <3>1. last' = held /\ held # NoFrame
      BY <2>1 DEF Present, Show, Inv, TypeOK
    <3>2. held \in Frames
      BY <3>1 DEF Inv, TypeOK
    <3>3. QED
      BY <3>1, <3>2 DEF OrderOK, ShownOrder
  <2>2. CASE ~Present
    <3>1. UNCHANGED last
      BY <2>2 DEF Next, Pump, SubmitVideo, BeginPump, Drain, NothingToDrain, PopFrame, TooFew, Crash, vars
    <3>2. QED
      BY <3>1
  <2>3. QED
    BY <2>1, <2>2
<1>2. QED
  BY InvInit, InvNext, OrderInit, OrderNext, <1>1, PTL DEF Spec, ShownInOrder
=============================================================================
