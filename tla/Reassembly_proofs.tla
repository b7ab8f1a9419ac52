------------------------- MODULE Reassembly_proofs -------------------------
(***************************************************************************)
(* Proofs about Reassembly, for every stream of frames, every payload size *)
(* and every sequence of datagrams fed, failed reallocations included.     *)
(***************************************************************************)
EXTENDS Reassembly, FiniteSetTheorems, TLAPS

(* The buffer of the open frame obeys what Framed says of emitted ones. *)
BufStarted == have_frame /\ oomAt = 0 => buf # <<>> /\ FLAG_SOF(buf[1])

BufFramed ==
    /\ BufStarted
    /\ \A i \in 1..Len(buf) :
          /\ FLAG_SOF(buf[i]) => i = 1 /\ buf[i].frame = cur_frame
          /\ ~(FLAG_EOF(buf[i]) /\ PLen[buf[i]] > 0)

(* buflen counts the payload bytes: none exactly if every part is empty. *)
BuflenOK == (buflen = 0) <=> \A i \in 1..Len(buf) : PLen[buf[i]] = 0

(* While a frame's datagrams come in one after the other, its prefix and   *)
(* nothing else is in the buffer.                                          *)
Prefix(f, k) == [i \in 1..k |-> Frag(f, i)]
RunInProgress ==
    \A f \in Frames : \A k \in 1..(Parts[f] - 1) :
        JustFed(f, k) /\ oomAt <= Len(hist) - k
            => have_frame /\ cur_frame = f /\ buf = Prefix(f, k)

-----------------------------------------------------------------------------
(* Datagrams of the stream are records with an index within their frame.   *)
LEMMA FragmentFields ==
    \A d \in Fragments :
        /\ d.frame \in Frames
        /\ d.idx \in 1..Parts[d.frame]
        /\ d = Frag(d.frame, d.idx)
        /\ PLen[d] \in Nat
        /\ d # Runt
<1>1. SUFFICES ASSUME NEW d \in Fragments
               PROVE  /\ d.frame \in Frames
                      /\ d.idx \in 1..Parts[d.frame]
                      /\ d = Frag(d.frame, d.idx)
                      /\ PLen[d] \in Nat
                      /\ d # Runt
  OBVIOUS
<1>2. PICK f \in Frames : d \in { Frag(f, i) : i \in 1..Parts[f] }
  BY DEF Fragments
<1>3. PICK i \in 1..Parts[f] : d = Frag(f, i)
  BY <1>2
<1>4. d.frame = f /\ d.idx = i
  BY <1>3 DEF Frag
<1>5. QED
  BY <1>3, <1>4, StreamAssumption

LEMMA FragIn == \A f \in Frames : \A i \in 1..Parts[f] : Frag(f, i) \in Fragments
BY DEF Fragments

(* Feeding d extends a run of f's datagrams by one exactly if d is next.   *)
LEMMA JustFedStep ==
    ASSUME NEW d, NEW f \in Frames, NEW k \in 1..Parts[f],
           hist \in Seq(Fragments \cup {Runt}),
           d \in Fragments \cup {Runt},
           hist' = Append(hist, d), JustFed(f, k)'
    PROVE  /\ d = Frag(f, k)
           /\ JustFed(f, k - 1)
           /\ Len(hist') - k = Len(hist) - (k - 1)
<1>1. Parts[f] \in Nat
  BY StreamAssumption
<1>2. Len(hist) \in Nat /\ Len(hist') = Len(hist) + 1
  OBVIOUS
<1>3. \A i \in 1..k : hist'[Len(hist') - k + i] = Frag(f, i)
  BY DEF JustFed
<1>4. d = Frag(f, k)
  <2>1. k \in 1..k /\ Len(hist') - k + k = Len(hist) + 1
    BY <1>1, <1>2
  <2>2. hist'[Len(hist) + 1] = Frag(f, k)
    BY <1>3, <2>1
  <2>3. QED
    BY <2>2
<1>5. ASSUME NEW i \in 1..(k - 1)
      PROVE  hist[Len(hist) - (k - 1) + i] = Frag(f, i)
  <2>1. k <= Len(hist) + 1
    BY <1>2 DEF JustFed
  <2>2. Len(hist) - (k - 1) + i \in 1..Len(hist)
    BY <1>1, <1>2, <2>1
  <2>3. hist'[Len(hist) - (k - 1) + i] = hist[Len(hist) - (k - 1) + i]
    BY <2>2
  <2>4. i \in 1..k /\ Len(hist') - k + i = Len(hist) - (k - 1) + i
    BY <1>1, <1>2
  <2>5. QED
    BY <1>3, <2>3, <2>4
<1>6. QED
  BY <1>1, <1>2, <1>4, <1>5 DEF JustFed

(* A field-by-field view of what appending d computes. *)
LEMMA AppendTypes ==
    ASSUME TypeOK, NEW d \in Fragments, Accepted(d)
    PROVE  /\ FrameOf(d) \in Frames
           /\ BufAt(d) \in Seq(Fragments)
           /\ BuflenAt(d) \in Nat
           /\ PLen[d] \in Nat
           /\ Append(BufAt(d), d) \in Seq(Fragments)
           /\ Len(Append(BufAt(d), d)) = Len(BufAt(d)) + 1
           /\ Emitted(d) \in EmittedFrame
           /\ Grown(d) \in Nat
<1>1. d.frame \in Frames /\ PLen[d] \in Nat
  BY FragmentFields
<1>2. FrameOf(d) \in Frames
  BY <1>1 DEF FrameOf, TypeOK, Accepted
<1>3. BufAt(d) \in Seq(Fragments) /\ BuflenAt(d) \in Nat
  BY DEF BufAt, BuflenAt, TypeOK
<1>4. /\ Append(BufAt(d), d) \in Seq(Fragments)
      /\ Len(Append(BufAt(d), d)) = Len(BufAt(d)) + 1
  BY <1>3
<1>5. Emitted(d) \in EmittedFrame
  BY <1>2, <1>4 DEF Emitted, EmittedFrame
<1>6. Grown(d) \in Nat
  BY <1>1, <1>3, StreamAssumption DEF Grown
<1>7. QED
  BY <1>1, <1>2, <1>3, <1>4, <1>5, <1>6

LEMMA TypesInit == ASSUME Init PROVE TypeOK
<1>1. cur_frame \in 0..NFrames /\ buflen \in Nat /\ bufcaps \in Nat
  BY StreamAssumption DEF Init
<1>2. have_frame \in BOOLEAN /\ (have_frame => cur_frame \in Frames)
  BY DEF Init
<1>3. buf \in Seq(Fragments) /\ out \in Seq(EmittedFrame)
  BY DEF Init
<1>4. hist \in Seq(Fragments \cup {Runt}) /\ oomAt \in 0..Len(hist)
  BY DEF Init
<1>5. QED
  BY <1>1, <1>2, <1>3, <1>4 DEF TypeOK

LEMMA FeedTypes == ASSUME TypeOK, NEW d \in Fragments, Feed(d) PROVE TypeOK'
<1>1. CASE FeedIgnored(d)
  BY <1>1 DEF FeedIgnored, reasm, TypeOK
<1>2. CASE FeedAppended(d)
  <2>1. hist' \in Seq(Fragments \cup {Runt}) /\ oomAt' \in 0..Len(hist')
    BY <1>2 DEF FeedAppended, TypeOK
  <2>2. cur_frame' \in Frames /\ have_frame' \in BOOLEAN
    BY <1>2, AppendTypes DEF FeedAppended, Completes, FLAG_EOF
  <2>3. buf' \in Seq(Fragments) /\ buflen' \in Nat
    BY <1>2, AppendTypes DEF FeedAppended
  <2>4. bufcaps' \in Nat
    BY <1>2, AppendTypes DEF FeedAppended, TypeOK
  <2>5. out' \in Seq(EmittedFrame)
    BY <1>2, AppendTypes DEF FeedAppended, TypeOK
  <2>6. QED
    BY <2>1, <2>2, <2>3, <2>4, <2>5, StreamAssumption DEF TypeOK, Frames
<1>3. CASE FeedOutOfMemory(d)
  <2>1. hist' \in Seq(Fragments \cup {Runt}) /\ oomAt' \in 0..Len(hist')
    BY <1>3 DEF FeedOutOfMemory, TypeOK
  <2>2. cur_frame' \in Frames
    BY <1>3, AppendTypes DEF FeedOutOfMemory
  <2>3. QED
    BY <1>3, <2>1, <2>2, StreamAssumption DEF FeedOutOfMemory, TypeOK, Frames
<1>4. QED
  BY <1>1, <1>2, <1>3 DEF Feed

(* Type correctness: in particular an open frame always has a real index.  *)
THEOREM TypeCorrect == Spec => []TypeOK
<1>1. TypeOK /\ [Next]_vars => TypeOK'
  <2> SUFFICES ASSUME TypeOK, [Next]_vars PROVE TypeOK'
    OBVIOUS
  <2>1. CASE FeedRunt
    BY <2>1 DEF FeedRunt, reasm, TypeOK
  <2>2. ASSUME NEW d \in Fragments, Feed(d) PROVE TypeOK'
    BY <2>2, FeedTypes
  <2>3. CASE UNCHANGED vars
    BY <2>3 DEF vars, TypeOK
  <2>4. QED
    BY <2>1, <2>2, <2>3 DEF Next
<1>2. QED
  BY TypesInit, <1>1, PTL DEF Spec

-----------------------------------------------------------------------------
(* The bytes in use fit the allocation, so the memcpy of reasm_feed stays  *)
(* inside it: growing to twice the need leaves room for this append, and a *)
(* failed realloc resets both counters.                                    *)
THEOREM CapacityCorrect == Spec => []WithinCapacity
<1>1. Init => WithinCapacity
  BY DEF Init, WithinCapacity
<1>2. TypeOK /\ WithinCapacity /\ [Next]_vars => WithinCapacity'
  <2> SUFFICES ASSUME TypeOK, WithinCapacity, [Next]_vars
               PROVE  WithinCapacity'
    OBVIOUS
  <2>1. ASSUME FeedRunt \/ UNCHANGED vars \/ \E d \in Fragments : FeedIgnored(d)
        PROVE  WithinCapacity'
    BY <2>1 DEF FeedRunt, FeedIgnored, reasm, vars, WithinCapacity
  <2>2. ASSUME NEW d \in Fragments, FeedAppended(d) PROVE WithinCapacity'
    <3>1. BuflenAt(d) + PLen[d] <= bufcaps'
      BY <2>2, AppendTypes, StreamAssumption, SMTT(30)
         DEF FeedAppended, MustGrow, Grown, TypeOK
    <3>2. bufcaps' \in Nat
      BY <2>2, AppendTypes DEF FeedAppended, TypeOK
    <3>3. QED
      BY <2>2, <3>1, <3>2 DEF FeedAppended, WithinCapacity
  <2>3. ASSUME NEW d \in Fragments, FeedOutOfMemory(d) PROVE WithinCapacity'
    BY <2>3 DEF FeedOutOfMemory, WithinCapacity
  <2>4. QED
    BY <2>1, <2>2, <2>3 DEF Next, Feed
<1>3. QED
  BY <1>1, <1>2, TypeCorrect, PTL DEF Spec

-----------------------------------------------------------------------------
(* What FeedAppended puts after the open frame's contents keeps its shape. *)
LEMMA AppendFramed ==
    ASSUME TypeOK, BufFramed, NEW d \in Fragments, Accepted(d),
           NEW i \in 1..Len(Append(BufAt(d), d))
    PROVE  LET x == Append(BufAt(d), d)[i]
           IN /\ x \in Fragments
              /\ FLAG_SOF(x) => i = 1 /\ x.frame = FrameOf(d)
              /\ FLAG_EOF(x) /\ PLen[x] > 0 => i = Len(Append(BufAt(d), d)) /\ x = d
<1> DEFINE x == Append(BufAt(d), d)[i]
<1>1. CASE i = Len(BufAt(d)) + 1
  <2>1. x = d
    BY <1>1, AppendTypes
  <2>2. FLAG_SOF(d) => i = 1 /\ d.frame = FrameOf(d)
    BY <1>1 DEF BufAt, FrameOf
  <2>3. QED
    BY <1>1, <2>1, <2>2, AppendTypes
<1>2. CASE i # Len(BufAt(d)) + 1
  <2>1. i \in 1..Len(BufAt(d)) /\ x = BufAt(d)[i]
    BY <1>2, AppendTypes
  <2>2. ~FLAG_SOF(d)
    BY <2>1 DEF BufAt
  <2>3. BufAt(d) = buf /\ FrameOf(d) = cur_frame
    BY <2>2 DEF BufAt, FrameOf
  <2>4. QED
    BY <2>1, <2>3, AppendTypes DEF BufFramed, TypeOK
<1>3. QED
  BY <1>1, <1>2

(* Until a realloc fails, they begin with a SOF. *)
LEMMA AppendStarted ==
    ASSUME TypeOK, BufStarted, NEW d \in Fragments, Accepted(d), oomAt = 0
    PROVE  FLAG_SOF(Append(BufAt(d), d)[1])
<1>1. CASE FLAG_SOF(d)
  BY <1>1 DEF BufAt
<1>2. CASE ~FLAG_SOF(d)
  <2>1. BufAt(d) = buf /\ buf \in Seq(Fragments) /\ buf # <<>> /\ FLAG_SOF(buf[1])
    BY <1>2 DEF BufAt, Accepted, BufStarted, TypeOK
  <2>2. Append(buf, d)[1] = buf[1]
    BY <2>1
  <2>3. QED
    BY <2>1, <2>2
<1>3. QED
  BY <1>1, <1>2

(* No emitted frame reaches before its SOF or past its EOF, whatever the   *)
(* network did, and until a realloc fails each begins with its SOF: the    *)
(* reset on SOF and the emission on EOF suffice.                           *)
THEOREM FramedCorrect == Spec => []Framed
<1>1. Init => Framed /\ BufFramed
  BY DEF Init, Framed, BufFramed, BufStarted
<1>2. TypeOK /\ Framed /\ BufFramed /\ [Next]_vars => (Framed /\ BufFramed)'
  <2> SUFFICES ASSUME TypeOK, Framed, BufFramed, [Next]_vars
               PROVE  (Framed /\ BufFramed)'
    OBVIOUS
  <2>1. ASSUME FeedRunt \/ UNCHANGED vars \/ \E d \in Fragments : FeedIgnored(d)
        PROVE  (Framed /\ BufFramed)'
    <3>1. UNCHANGED <<reasm, out, oomAt>>
      BY <2>1 DEF FeedRunt, FeedIgnored, vars, reasm
    <3>2. QED
      BY <3>1 DEF reasm, Framed, BufFramed, BufStarted, FLAG_SOF
  <2>2. ASSUME NEW d \in Fragments, FeedAppended(d), Completes(d)
        PROVE  (Framed /\ BufFramed)'
    <3>1. BufFramed'
      <4>1. ~have_frame' /\ buf' = <<>>
        BY <2>2 DEF FeedAppended
      <4>2. QED
        BY <4>1 DEF BufFramed, BufStarted
    <3>2. Accepted(d) /\ out' = Append(out, Emitted(d)) /\ oomAt' = oomAt
      BY <2>2 DEF FeedAppended
    <3>3. ASSUME NEW n \in 1..Len(out'), NEW i \in 1..Len(out'[n].data)
          PROVE  LET x == out'[n].data[i]
                 IN /\ FLAG_SOF(x) => i = 1 /\ x.frame = out'[n].pts
                    /\ FLAG_EOF(x) /\ PLen[x] > 0 => i = Len(out'[n].data)
      <4>1. CASE n = Len(out) + 1
        <5>1. out'[n] = Emitted(d)
          BY <4>1, <3>2, AppendTypes DEF TypeOK
        <5>2. out'[n].data = Append(BufAt(d), d) /\ out'[n].pts = FrameOf(d)
          BY <5>1 DEF Emitted
        <5>3. QED
          BY <5>2, <3>2, AppendFramed
      <4>2. CASE n # Len(out) + 1
        <5>1. n \in 1..Len(out) /\ out'[n] = out[n]
          BY <4>2, <3>2, AppendTypes DEF TypeOK
        <5>2. QED
          BY <5>1 DEF Framed
      <4>3. QED
        BY <4>1, <4>2
    <3>4. ASSUME NEW n \in 1..Len(out'), oomAt = 0 PROVE FLAG_SOF(out'[n].data[1])
      <4>1. CASE n = Len(out) + 1
        <5>1. out'[n].data = Append(BufAt(d), d)
          BY <4>1, <3>2, AppendTypes DEF TypeOK, Emitted
        <5>2. QED
          BY <5>1, <3>2, <3>4, AppendStarted DEF BufFramed
      <4>2. CASE n # Len(out) + 1
        BY <4>2, <3>2, <3>4, AppendTypes DEF TypeOK, Framed
      <4>3. QED
        BY <4>1, <4>2
    <3>5. QED
      BY <3>1, <3>2, <3>3, <3>4 DEF Framed, FLAG_SOF, FLAG_EOF
  <2>3. ASSUME NEW d \in Fragments, FeedAppended(d), ~Completes(d)
        PROVE  (Framed /\ BufFramed)'
    <3>1. Framed'
      BY <2>3 DEF FeedAppended, Framed, FLAG_SOF, FLAG_EOF
    <3>2. /\ Accepted(d)
          /\ buf' = Append(BufAt(d), d)
          /\ cur_frame' = FrameOf(d)
          /\ oomAt' = oomAt
      BY <2>3 DEF FeedAppended
    <3>3. ~(FLAG_EOF(d) /\ PLen[d] > 0)
      BY <2>3, <3>2, AppendTypes DEF Completes
    <3>4. ASSUME NEW i \in 1..Len(buf')
          PROVE  /\ FLAG_SOF(buf'[i]) => i = 1 /\ buf'[i].frame = cur_frame'
                 /\ ~(FLAG_EOF(buf'[i]) /\ PLen[buf'[i]] > 0)
      BY <3>2, <3>3, AppendFramed
    <3>5. oomAt = 0 => buf' # <<>> /\ FLAG_SOF(buf'[1])
      BY <3>2, AppendStarted, AppendTypes DEF BufFramed
    <3>6. QED
      BY <3>1, <3>2, <3>4, <3>5 DEF BufFramed, BufStarted, FLAG_SOF, FLAG_EOF
  <2>4. ASSUME NEW d \in Fragments, FeedOutOfMemory(d)
        PROVE  (Framed /\ BufFramed)'
    <3>1. /\ buf' = <<>> /\ UNCHANGED out
          /\ oomAt' = Len(hist') /\ hist' = Append(hist, d)
      BY <2>4 DEF FeedOutOfMemory
    <3>2. oomAt' # 0
      BY <3>1 DEF TypeOK
    <3>3. QED
      BY <3>1, <3>2 DEF Framed, BufFramed, BufStarted, FLAG_SOF, FLAG_EOF
  <2>5. QED
    BY <2>1, <2>2, <2>3, <2>4 DEF Next, Feed
<1>3. QED
  BY <1>1, <1>2, TypeCorrect, PTL DEF Spec

-----------------------------------------------------------------------------
(* buflen stays zero exactly as long as nothing but empty payloads came.   *)
LEMMA AppendBuflen ==
    ASSUME TypeOK, BuflenOK, NEW d \in Fragments, Accepted(d)
    PROVE  (BuflenAt(d) + PLen[d] = 0)
             <=> \A i \in 1..Len(Append(BufAt(d), d)) :
                     PLen[Append(BufAt(d), d)[i]] = 0
<1>1. (BuflenAt(d) = 0) <=> \A i \in 1..Len(BufAt(d)) : PLen[BufAt(d)[i]] = 0
  BY DEF BuflenAt, BufAt, BuflenOK
<1>2. (BuflenAt(d) + PLen[d] = 0) <=> (BuflenAt(d) = 0 /\ PLen[d] = 0)
  BY AppendTypes
<1>3. /\ \A i \in 1..Len(BufAt(d)) : Append(BufAt(d), d)[i] = BufAt(d)[i]
      /\ Append(BufAt(d), d)[Len(BufAt(d)) + 1] = d
      /\ 1..Len(Append(BufAt(d), d)) = 1..Len(BufAt(d)) \cup {Len(BufAt(d)) + 1}
  BY AppendTypes
<1>4. QED
  BY <1>1, <1>2, <1>3

(* If the datagrams fed last, d included, are the first k of frame f and   *)
(* no realloc failed among them, they are what the buffer now holds.       *)
LEMMA RunAppended ==
    ASSUME TypeOK, RunInProgress, NEW d \in Fragments, FeedAppended(d),
           NEW f \in Frames, NEW k \in 1..Parts[f],
           JustFed(f, k)', oomAt' <= Len(hist') - k
    PROVE  /\ FrameOf(d) = f
           /\ Append(BufAt(d), d) = Prefix(f, k)
           /\ d = Frag(f, k)
<1>1. Parts[f] \in Nat \ {0}
  BY StreamAssumption
<1>2. hist' = Append(hist, d) /\ oomAt' = oomAt /\ hist \in Seq(Fragments \cup {Runt})
  BY DEF FeedAppended, TypeOK
<1>3. d = Frag(f, k) /\ JustFed(f, k - 1) /\ oomAt <= Len(hist) - (k - 1)
  BY <1>2, JustFedStep
<1>4. d.frame = f /\ d.idx = k
  BY <1>3 DEF Frag
<1>5. CASE k = 1
  <2>1. BufAt(d) = <<>> /\ FrameOf(d) = f
    BY <1>4, <1>5 DEF BufAt, FrameOf, FLAG_SOF
  <2>2. Append(<<>>, d) = <<d>>
    OBVIOUS
  <2>3. Prefix(f, 1) = <<Frag(f, 1)>>
    BY DEF Prefix
  <2>4. QED
    BY <1>3, <1>5, <2>1, <2>2, <2>3
<1>6. CASE k # 1
  <2>1. k - 1 \in 1..(Parts[f] - 1)
    BY <1>1, <1>6
  <2>2. have_frame /\ cur_frame = f /\ buf = Prefix(f, k - 1)
    BY <1>3, <2>1 DEF RunInProgress
  <2>3. FrameOf(d) = f /\ BufAt(d) = Prefix(f, k - 1)
    BY <1>4, <1>6, <2>2 DEF FrameOf, BufAt, FLAG_SOF
  <2>4. Append(Prefix(f, k - 1), Frag(f, k)) = Prefix(f, k)
    <3>1. Prefix(f, k - 1) \in Seq(Fragments) /\ Len(Prefix(f, k - 1)) = k - 1
      BY <1>1, <1>6, FragIn DEF Prefix
    <3>2. Prefix(f, k) \in Seq(Fragments) /\ Len(Prefix(f, k)) = k
      BY <1>1, FragIn DEF Prefix
    <3>3. \A i \in 1..k : Append(Prefix(f, k - 1), Frag(f, k))[i] = Prefix(f, k)[i]
      BY <1>1, <1>6, <3>1 DEF Prefix
    <3>4. QED
      BY <1>1, <1>6, <3>1, <3>2, <3>3, FragIn
  <2>5. QED
    BY <1>3, <2>3, <2>4
<1>7. QED
  BY <1>5, <1>6

(* SOF resynchronises, whatever came before: a frame whose datagrams have  *)
(* arrived one after the other has been emitted intact.                    *)
THEOREM IntactRunCorrect == Spec => []IntactRunEmitted
<1> DEFINE IInv == RunInProgress /\ BuflenOK /\ IntactRunEmitted
<1>1. Init => IInv
  <2> SUFFICES ASSUME Init PROVE IInv
    OBVIOUS
  <2>1. \A f \in Frames : Parts[f] \in Nat \ {0}
    BY StreamAssumption
  <2>2. RunInProgress
    BY <2>1 DEF Init, RunInProgress, JustFed
  <2>3. BuflenOK
    BY DEF Init, BuflenOK
  <2>4. IntactRunEmitted
    BY <2>1 DEF Init, IntactRunEmitted, JustFed
  <2>5. QED
    BY <2>2, <2>3, <2>4
<1>2. TypeOK /\ IInv /\ [Next]_vars => IInv'
  <2> SUFFICES ASSUME TypeOK, RunInProgress, BuflenOK, IntactRunEmitted, [Next]_vars
               PROVE  IInv'
    OBVIOUS
  <2>0. \A f \in Frames : Parts[f] \in Nat \ {0}
    BY StreamAssumption
  <2>1. CASE UNCHANGED vars
    BY <2>1 DEF vars, RunInProgress, BuflenOK, IntactRunEmitted, JustFed
  <2>2. CASE FeedRunt
    <3>1. hist' = Append(hist, Runt) /\ hist \in Seq(Fragments \cup {Runt})
      BY <2>2 DEF FeedRunt, TypeOK
    <3>2. ASSUME NEW f \in Frames, NEW k \in 1..Parts[f], JustFed(f, k)'
          PROVE  FALSE
      BY <3>1, <3>2, JustFedStep, FragIn, StreamAssumption
    <3>3. RunInProgress' /\ IntactRunEmitted'
      BY <2>0, <3>2 DEF RunInProgress, IntactRunEmitted
    <3>4. BuflenOK'
      BY <2>2 DEF FeedRunt, reasm, BuflenOK
    <3>5. QED
      BY <3>3, <3>4
  <2>3. ASSUME NEW d \in Fragments, FeedIgnored(d) PROVE IInv'
    <3>1. hist' = Append(hist, d) /\ hist \in Seq(Fragments \cup {Runt}) /\ oomAt' = oomAt
      BY <2>3 DEF FeedIgnored, TypeOK
    <3>2. ~FLAG_SOF(d) /\ ~have_frame
      BY <2>3 DEF FeedIgnored, Accepted
    <3>3. ASSUME NEW f \in Frames, NEW k \in 1..Parts[f],
                 JustFed(f, k)', oomAt' <= Len(hist') - k
          PROVE  FALSE
      <4>1. d = Frag(f, k) /\ JustFed(f, k - 1) /\ oomAt <= Len(hist) - (k - 1)
        BY <3>1, <3>3, JustFedStep
      <4>2. k # 1
        BY <3>2, <4>1 DEF FLAG_SOF, Frag
      <4>3. k - 1 \in 1..(Parts[f] - 1)
        BY <2>0, <4>2
      <4>4. QED
        BY <3>2, <4>1, <4>3 DEF RunInProgress
    <3>4. RunInProgress' /\ IntactRunEmitted'
      BY <2>0, <3>3 DEF RunInProgress, IntactRunEmitted
    <3>5. BuflenOK'
      BY <2>3 DEF FeedIgnored, reasm, BuflenOK
    <3>6. QED
      BY <3>4, <3>5
  <2>4. ASSUME NEW d \in Fragments, FeedAppended(d) PROVE IInv'
    <3>1. Accepted(d)
      BY <2>4 DEF FeedAppended
    <3>2. BuflenOK'
      <4>1. CASE Completes(d)
        BY <2>4, <4>1 DEF FeedAppended, BuflenOK
      <4>2. CASE ~Completes(d)
        BY <2>4, <4>2, <3>1, AppendBuflen DEF FeedAppended, BuflenOK
      <4>3. QED
        BY <4>1, <4>2
    <3>3. RunInProgress'
      <4> SUFFICES ASSUME NEW f \in Frames, NEW k \in 1..(Parts[f] - 1),
                          JustFed(f, k)', oomAt' <= Len(hist') - k
                   PROVE  have_frame' /\ cur_frame' = f /\ buf' = Prefix(f, k)
        BY DEF RunInProgress, Prefix, Frag
      <4>1. k \in 1..Parts[f]
        BY <2>0
      <4>2. FrameOf(d) = f /\ Append(BufAt(d), d) = Prefix(f, k) /\ d = Frag(f, k)
        BY <2>4, <4>1, RunAppended
      <4>3. ~Completes(d)
        BY <2>0, <4>2 DEF Completes, FLAG_EOF, Frag
      <4>4. QED
        BY <2>4, <4>2, <4>3 DEF FeedAppended
    <3>4. IntactRunEmitted'
      <4> SUFFICES ASSUME NEW f \in Frames, JustFed(f, Parts[f])', HasBytes(f),
                          oomAt' <= Len(hist') - Parts[f]
                   PROVE  /\ out' # <<>>
                          /\ out'[Len(out')] = [pts |-> f, data |-> FrameSeq(f)]
        BY DEF IntactRunEmitted, FrameSeq, HasBytes, Frag
      <4>1. Parts[f] \in 1..Parts[f]
        BY <2>0
      <4>2. /\ FrameOf(d) = f
            /\ Append(BufAt(d), d) = Prefix(f, Parts[f])
            /\ d = Frag(f, Parts[f])
        BY <2>4, <4>1, RunAppended
      <4>3. FLAG_EOF(d)
        BY <4>2 DEF FLAG_EOF, Frag
      <4>4. BuflenAt(d) + PLen[d] > 0
        <5>1. PICK i \in 1..Parts[f] : PLen[Frag(f, i)] > 0
          BY DEF HasBytes
        <5>2. Len(Append(BufAt(d), d)) = Parts[f] /\ Append(BufAt(d), d)[i] = Frag(f, i)
          BY <2>0, <4>2 DEF Prefix
        <5>3. BuflenAt(d) + PLen[d] # 0
          BY <3>1, <5>1, <5>2, AppendBuflen
        <5>4. QED
          BY <3>1, <5>3, AppendTypes
      <4>5. out' = Append(out, Emitted(d))
        BY <2>4, <4>3, <4>4 DEF FeedAppended, Completes
      <4>6. Emitted(d) = [pts |-> f, data |-> FrameSeq(f)]
        BY <4>2 DEF Emitted, Prefix, FrameSeq
      <4>7. QED
        BY <3>1, <4>5, <4>6, AppendTypes, SMTT(30) DEF TypeOK
    <3>5. QED
      BY <3>2, <3>3, <3>4
  <2>5. ASSUME NEW d \in Fragments, FeedOutOfMemory(d) PROVE IInv'
    <3>1. hist' \in Seq(Fragments \cup {Runt}) /\ oomAt' = Len(hist')
      BY <2>5 DEF FeedOutOfMemory, TypeOK
    <3>2. RunInProgress' /\ IntactRunEmitted'
      BY <2>0, <3>1 DEF RunInProgress, IntactRunEmitted
    <3>3. BuflenOK'
      BY <2>5 DEF FeedOutOfMemory, BuflenOK
    <3>4. QED
      BY <3>2, <3>3
  <2>6. QED
    BY <2>1, <2>2, <2>3, <2>4, <2>5 DEF Next, Feed
<1>3. QED
  BY <1>1, <1>2, TypeCorrect, PTL DEF Spec

-----------------------------------------------------------------------------
(* Feeding one more datagram adds at most that position to the starts.     *)
LEMMA StartsStep ==
    ASSUME NEW x \in Fragments \cup {Runt},
           hist \in Seq(Fragments \cup {Runt}), hist' = Append(hist, x)
    PROVE  /\ Cardinality(Starts) \in Nat
           /\ x # Runt /\ FLAG_SOF(x) => Cardinality(Starts') = Cardinality(Starts) + 1
           /\ ~(x # Runt /\ FLAG_SOF(x)) => Cardinality(Starts') = Cardinality(Starts)
<1>1. Len(hist) \in Nat /\ Len(hist') = Len(hist) + 1
  OBVIOUS
<1>2. \A i \in 1..Len(hist) : hist'[i] = hist[i]
  OBVIOUS
<1>3. hist'[Len(hist) + 1] = x
  OBVIOUS
<1>4. IsFiniteSet(Starts) /\ Cardinality(Starts) \in Nat
  <2>1. IsFiniteSet(1..Len(hist))
    BY <1>1, FS_Interval
  <2>2. Starts \subseteq 1..Len(hist)
    BY DEF Starts
  <2>3. QED
    BY <2>1, <2>2, FS_Subset, FS_CardinalityType
<1>5. CASE x # Runt /\ FLAG_SOF(x)
  <2>1. Starts' = Starts \cup {Len(hist) + 1}
    BY <1>1, <1>2, <1>3, <1>5 DEF Starts, FLAG_SOF
  <2>2. Len(hist) + 1 \notin Starts
    BY <1>1 DEF Starts
  <2>3. QED
    BY <1>4, <1>5, <2>1, <2>2, FS_AddElement
<1>6. CASE ~(x # Runt /\ FLAG_SOF(x))
  <2>1. Starts' = Starts
    BY <1>1, <1>2, <1>3, <1>6 DEF Starts, FLAG_SOF
  <2>2. QED
    BY <1>4, <1>6, <2>1
<1>7. QED
  BY <1>4, <1>5, <1>6

(* Each emission consumes a SOF of its own.                                *)
THEOREM OneFramePerStartCorrect == Spec => []OneFramePerStart
<1>1. Init => OneFramePerStart
  <2> SUFFICES ASSUME Init PROVE OneFramePerStart
    OBVIOUS
  <2>1. Starts = {} /\ Len(out) = 0 /\ ~have_frame
    BY DEF Init, Starts
  <2>2. QED
    BY <2>1, FS_EmptySet DEF OneFramePerStart
<1>2. TypeOK /\ OneFramePerStart /\ [Next]_vars => OneFramePerStart'
  <2> SUFFICES ASSUME TypeOK, OneFramePerStart, [Next]_vars
               PROVE  OneFramePerStart'
    OBVIOUS
  <2>0. Len(out) \in Nat /\ have_frame \in BOOLEAN /\ hist \in Seq(Fragments \cup {Runt})
    BY DEF TypeOK
  <2>1. CASE UNCHANGED vars
    BY <2>1 DEF vars, OneFramePerStart, Starts, FLAG_SOF
  <2>2. CASE FeedRunt
    BY <2>0, <2>2, StartsStep DEF FeedRunt, reasm, OneFramePerStart
  <2>3. ASSUME NEW d \in Fragments, FeedIgnored(d) PROVE OneFramePerStart'
    <3>1. ~FLAG_SOF(d) /\ hist' = Append(hist, d) /\ UNCHANGED <<out, have_frame>>
      BY <2>3 DEF FeedIgnored, Accepted, reasm
    <3>2. QED
      BY <2>0, <3>1, StartsStep DEF OneFramePerStart
  <2>4. ASSUME NEW d \in Fragments, FeedAppended(d) PROVE OneFramePerStart'
    <3>1. d # Runt /\ hist' = Append(hist, d) /\ (FLAG_SOF(d) \/ have_frame)
      BY <2>4, FragmentFields DEF FeedAppended, Accepted
    <3>2. Len(out) + 1 <= Cardinality(Starts') /\ Cardinality(Starts') \in Nat
      BY <2>0, <3>1, StartsStep DEF OneFramePerStart
    <3>3. Len(out') + (IF have_frame' THEN 1 ELSE 0) = Len(out) + 1
      <4>1. CASE Completes(d)
        <5>1. out' = Append(out, Emitted(d)) /\ ~have_frame' /\ Accepted(d)
          BY <2>4, <4>1 DEF FeedAppended
        <5>2. Emitted(d) \in EmittedFrame /\ out \in Seq(EmittedFrame)
          BY <5>1, AppendTypes DEF TypeOK
        <5>3. Len(out') = Len(out) + 1
          BY <5>1, <5>2
        <5>4. QED
          BY <2>0, <5>1, <5>3
      <4>2. CASE ~Completes(d)
        <5>1. out' = out /\ have_frame'
          BY <2>4, <4>2 DEF FeedAppended
        <5>2. QED
          BY <5>1
      <4>3. QED
        BY <4>1, <4>2
    <3>4. QED
      BY <3>2, <3>3 DEF OneFramePerStart
  <2>5. ASSUME NEW d \in Fragments, FeedOutOfMemory(d) PROVE OneFramePerStart'
    <3>1. /\ d # Runt /\ hist' = Append(hist, d) /\ (FLAG_SOF(d) \/ have_frame)
          /\ have_frame' /\ out' = out
      BY <2>5, FragmentFields DEF FeedOutOfMemory, Accepted
    <3>2. QED
      BY <2>0, <3>1, StartsStep DEF OneFramePerStart
  <2>6. QED
    BY <2>1, <2>2, <2>3, <2>4, <2>5 DEF Next, Feed
<1>3. QED
  BY <1>1, <1>2, TypeCorrect, PTL DEF Spec
=============================================================================
