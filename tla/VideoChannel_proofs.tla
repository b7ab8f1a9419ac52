------------------------ MODULE VideoChannel_proofs ------------------------
(***************************************************************************)
(* The video path implements FrameStream: proofs for every stream, socket  *)
(* and number of losses that each step of VideoChannel is one of the frame *)
(* stream or none.  (That untouched frames do arrive rests on fairness and *)
(* is left to model checking.)                                             *)
(***************************************************************************)
EXTENDS VideoChannel, Reassembly_proofs, SequenceTheorems

(* The stream's order on datagrams; those sent, and those under way.  *)
Before(d, e) == d.frame < e.frame \/ (d.frame = e.frame /\ d.idx < e.idx)
Sent(d)      == Before(d, hostNext)
In(d, s)     == \E i \in 1..Len(s) : s[i] = d
InLine(d)    == In(d, sock) \/ In(d, wire)

ChanTypes ==
    /\ TypeOK
    /\ hostNext \in [frame : 1..(NFrames + 1), idx : Nat \ {0}]
    /\ hostNext.frame <= NFrames => hostNext.idx <= Parts[hostNext.frame]
    /\ wire \in Seq(Fragments)
    /\ sock \in Seq(Fragments)
    /\ damaged \subseteq Frames

(* UDP keeps the order here: each datagram is under way once, in its place. *)
Ascending(s) == \A i, j \in 1..Len(s) : i < j => Before(s[i], s[j])
Line ==
    /\ Ascending(sock)
    /\ Ascending(wire)
    /\ \A d, e \in Fragments : In(d, sock) /\ In(e, wire) => Before(d, e)
    /\ \A d \in Fragments : InLine(d) => Sent(d)

(* What comes is neither behind the last emitted frame nor the open one. *)
LastOut == IF out = <<>> THEN 0 ELSE out[Len(out)].pts
Ahead ==
    /\ LastOut < hostNext.frame
    /\ have_frame => LastOut < cur_frame /\ cur_frame <= hostNext.frame
    /\ \A d \in Fragments : InLine(d) => LastOut < d.frame /\ (have_frame => cur_frame <= d.frame)

(* A datagram in the buffer of the open frame is not under way any more. *)
Stored(d)  == have_frame /\ In(d, buf)
Collected  == \A d \in Fragments : Stored(d) => Sent(d) /\ ~InLine(d)

(* Every datagram of an untouched frame is where it belongs; of a damaged  *)
(* one, a datagram is missing for good.                                    *)
Clean(f) == f \notin damaged /\ LastOut < f
Untouched ==
    \A f \in Frames : Clean(f) =>
        /\ have_frame /\ cur_frame = f =>
               /\ Len(buf) \in 1..(Parts[f] - 1)
               /\ buf = Prefix(f, Len(buf))
        /\ \A i \in 1..Parts[f] :
               Sent(Frag(f, i)) => InLine(Frag(f, i)) \/ (cur_frame = f /\ Stored(Frag(f, i)))
Missing(f, d) == Sent(d) /\ ~InLine(d) /\ ~(cur_frame = f /\ Stored(d))
Torn == \A f \in damaged : \E i \in 1..Parts[f] : Missing(f, Frag(f, i))

ChanInv == ChanTypes /\ Line /\ Ahead /\ Collected /\ Untouched /\ Torn

-----------------------------------------------------------------------------
(* The order, and sequences that ascend in it. *)
LEMMA Numbers ==
    /\ NFrames \in Nat
    /\ \A f \in Frames : f \in Nat \ {0} /\ f <= NFrames /\ Parts[f] \in Nat \ {0}
    /\ \A d \in Fragments : /\ d.frame \in Frames /\ d.idx \in 1..Parts[d.frame]
                            /\ d.frame \in Nat /\ d.idx \in Nat
                            /\ d = Frag(d.frame, d.idx)
<1>1. /\ NFrames \in Nat
      /\ \A f \in Frames : f \in Nat \ {0} /\ f <= NFrames /\ Parts[f] \in Nat \ {0}
  BY StreamAssumption DEF Frames
<1>2. QED
  BY <1>1, FragmentFields

LEMMA Order ==
    /\ \A d \in Fragments : ~Before(d, d)
    /\ \A d, e \in Fragments : Before(d, e) \/ d = e \/ Before(e, d)
    /\ \A d, e \in Fragments : ~(Before(d, e) /\ Before(e, d))
    /\ \A d, e, g \in Fragments : Before(d, e) /\ Before(e, g) => Before(d, g)
<1>1. \A d \in Fragments : d.frame \in Nat /\ d.idx \in Nat
  BY Numbers
<1>2. \A d, e \in Fragments : d.frame = e.frame /\ d.idx = e.idx => d = e
  BY Numbers
<1>3. QED
  BY <1>1, <1>2 DEF Before

LEMMA InIsFragment ==
    ASSUME NEW s \in Seq(Fragments), NEW d, In(d, s)
    PROVE  d \in Fragments
  BY DEF In

LEMMA HeadOf ==
    ASSUME NEW s \in Seq(Fragments), s # <<>>, Ascending(s)
    PROVE  /\ Head(s) \in Fragments /\ In(Head(s), s)
           /\ Tail(s) \in Seq(Fragments) /\ Ascending(Tail(s))
           /\ \A d : In(d, s) <=> d = Head(s) \/ In(d, Tail(s))
           /\ \A d \in Fragments : In(d, Tail(s)) => Before(Head(s), d)
<1> DEFINE t == Tail(s)
<1>1. /\ Len(s) \in Nat \ {0} /\ Head(s) = s[1] /\ t \in Seq(Fragments)
      /\ Len(t) = Len(s) - 1
      /\ \A i \in 1..Len(t) : t[i] = s[i + 1] /\ i + 1 \in 1..Len(s)
  BY HeadTailProperties
<1> HIDE DEF t
<1>2. 1 \in 1..Len(s) /\ s[1] \in Fragments
  BY <1>1
<1>3. Ascending(t)
  <2>1. SUFFICES ASSUME NEW i \in 1..Len(t), NEW j \in 1..Len(t), i < j
                 PROVE  Before(t[i], t[j])
    BY DEF Ascending
  <2>2. i + 1 \in 1..Len(s) /\ j + 1 \in 1..Len(s) /\ i + 1 < j + 1
    BY <1>1, <2>1
  <2>3. QED
    BY <1>1, <2>2 DEF Ascending
<1>4. \A d : In(d, s) => d = s[1] \/ In(d, t)
  <2>1. SUFFICES ASSUME NEW d, NEW i \in 1..Len(s), s[i] = d, i # 1 PROVE In(d, t)
    BY DEF In
  <2>2. i - 1 \in 1..Len(t) /\ (i - 1) + 1 = i
    BY <1>1, <2>1
  <2>3. t[i - 1] = d
    BY <1>1, <2>1, <2>2
  <2>4. QED
    BY <2>2, <2>3 DEF In
<1>5. \A d : In(d, t) => In(d, s)
  BY <1>1 DEF In
<1>6. \A d : In(d, t) => Before(s[1], d)
  <2>1. SUFFICES ASSUME NEW i \in 1..Len(t) PROVE Before(s[1], t[i])
    BY DEF In
  <2>2. i + 1 \in 1..Len(s) /\ 1 < i + 1
    BY <1>1
  <2>3. QED
    BY <1>1, <1>2, <2>2 DEF Ascending
<1>7. In(s[1], s)
  BY <1>2 DEF In
<1>8. QED
  BY <1>1, <1>2, <1>3, <1>4, <1>5, <1>6, <1>7 DEF t

LEMMA EndOf ==
    ASSUME NEW s \in Seq(Fragments), NEW e \in Fragments
    PROVE  /\ Append(s, e) \in Seq(Fragments)
           /\ \A d : In(d, Append(s, e)) <=> In(d, s) \/ d = e
           /\ Ascending(s) /\ (\A d \in Fragments : In(d, s) => Before(d, e))
                  => Ascending(Append(s, e))
<1> DEFINE t == Append(s, e)
<1>1. /\ Len(s) \in Nat /\ t \in Seq(Fragments) /\ Len(t) = Len(s) + 1
      /\ \A i \in 1..Len(t) : t[i] = IF i <= Len(s) THEN s[i] ELSE e
  OBVIOUS
<1> HIDE DEF t
<1>2. \A d : In(d, s) \/ d = e => In(d, t)
  <2>1. \A i \in 1..Len(s) : i \in 1..Len(t) /\ t[i] = s[i]
    BY <1>1
  <2>2. Len(t) \in 1..Len(t) /\ t[Len(t)] = e
    BY <1>1
  <2>3. QED
    BY <2>1, <2>2 DEF In
<1>3. \A d : In(d, t) => In(d, s) \/ d = e
  <2>1. SUFFICES ASSUME NEW i \in 1..Len(t), t[i] # e PROVE In(t[i], s)
    BY DEF In
  <2>2. i \in 1..Len(s) /\ t[i] = s[i]
    BY <1>1, <2>1
  <2>3. QED
    BY <2>2 DEF In
<1>4. ASSUME Ascending(s), \A d \in Fragments : In(d, s) => Before(d, e)
      PROVE  Ascending(t)
  <2>1. SUFFICES ASSUME NEW i \in 1..Len(t), NEW j \in 1..Len(t), i < j
                 PROVE  Before(t[i], t[j])
    BY DEF Ascending
  <2>2. i \in 1..Len(s) /\ t[i] = s[i] /\ s[i] \in Fragments
    BY <1>1, <2>1
  <2>3. CASE j \in 1..Len(s)
    BY <1>1, <1>4, <2>1, <2>2, <2>3 DEF Ascending
  <2>4. CASE j \notin 1..Len(s)
    <3>1. t[j] = e
      BY <1>1, <2>4
    <3>2. QED
      BY <1>4, <2>2, <3>1 DEF In
  <2>5. QED
    BY <2>3, <2>4
<1>5. QED
  BY <1>1, <1>2, <1>3, <1>4 DEF t

(* A datagram is lost from the middle. *)
LEMMA RemoveFrom ==
    ASSUME NEW s \in Seq(Fragments), Ascending(s), NEW k \in 1..Len(s)
    PROVE  LET t == [j \in 1..(Len(s) - 1) |-> IF j < k THEN s[j] ELSE s[j + 1]]
           IN /\ t \in Seq(Fragments) /\ Ascending(t)
              /\ s[k] \in Fragments /\ In(s[k], s)
              /\ \A d : In(d, t) <=> In(d, s) /\ d # s[k]
<1> DEFINE t == [j \in 1..(Len(s) - 1) |-> IF j < k THEN s[j] ELSE s[j + 1]]
           at(j) == IF j < k THEN j ELSE j + 1
<1>1. Len(s) \in Nat \ {0} /\ k \in Nat /\ s[k] \in Fragments
  OBVIOUS
<1>2. \A j \in 1..(Len(s) - 1) : /\ at(j) \in 1..Len(s) /\ at(j) # k /\ t[j] = s[at(j)]
                                 /\ s[at(j)] \in Fragments
  BY <1>1
<1>3. t \in Seq(Fragments) /\ Len(t) = Len(s) - 1
  BY <1>1, <1>2
<1>4. \A i, j \in 1..(Len(s) - 1) : i < j => at(i) < at(j)
  BY <1>1
<1>5. \A i \in 1..Len(s) : i # k => \E j \in 1..(Len(s) - 1) : at(j) = i
  <2>1. SUFFICES ASSUME NEW i \in 1..Len(s), i # k
                 PROVE  \E j \in 1..(Len(s) - 1) : at(j) = i
    OBVIOUS
  <2>2. CASE i < k
    <3>1. i \in 1..(Len(s) - 1) /\ at(i) = i
      BY <1>1, <2>2
    <3>2. QED
      BY <3>1
  <2>3. CASE i > k
    <3>1. i - 1 \in 1..(Len(s) - 1) /\ at(i - 1) = i
      BY <1>1, <2>3
    <3>2. QED
      BY <3>1
  <2>4. QED
    BY <1>1, <2>1, <2>2, <2>3
<1> HIDE DEF t, at
<1>6. Ascending(t)
  BY <1>2, <1>3, <1>4 DEF Ascending
<1>7. \A i, j \in 1..Len(s) : i # j => s[i] # s[j]
  <2>1. SUFFICES ASSUME NEW i \in 1..Len(s), NEW j \in 1..Len(s), i < j PROVE s[i] # s[j]
    BY <1>1
  <2>2. Before(s[i], s[j]) /\ s[i] \in Fragments
    BY <2>1 DEF Ascending
  <2>3. QED
    BY <2>2, Order
<1>8. \A d : In(d, t) => In(d, s) /\ d # s[k]
  BY <1>2, <1>3, <1>7 DEF In
<1>9. \A d : In(d, s) /\ d # s[k] => In(d, t)
  <2>1. SUFFICES ASSUME NEW i \in 1..Len(s), s[i] # s[k] PROVE In(s[i], t)
    BY DEF In
  <2>2. PICK j \in 1..(Len(s) - 1) : at(j) = i
    BY <1>5, <2>1
  <2>3. QED
    BY <1>2, <1>3, <2>2 DEF In
<1>10. In(s[k], s)
  BY DEF In
<1>11. QED
  BY <1>1, <1>3, <1>6, <1>8, <1>9, <1>10 DEF t

-----------------------------------------------------------------------------
LEMMA FragFields ==
    \A f \in Frames : \A i \in 1..Parts[f] :
        Frag(f, i) \in Fragments /\ Frag(f, i).frame = f /\ Frag(f, i).idx = i
  BY FragIn DEF Frag

LEMMA PrefixHolds ==
    ASSUME NEW f \in Frames, NEW k \in 0..Parts[f], NEW i \in 1..Parts[f]
    PROVE  In(Frag(f, i), Prefix(f, k)) <=> i <= k
<1>1. k \in Nat /\ Parts[f] \in Nat
  BY Numbers
<1>2. Len(Prefix(f, k)) = k /\ \A j \in 1..k : Prefix(f, k)[j] = Frag(f, j)
  BY <1>1 DEF Prefix
<1>3. \A j \in 1..k : Frag(f, j) = Frag(f, i) => j = i
  BY DEF Frag
<1>4. QED
  BY <1>1, <1>2, <1>3 DEF In

(* LastOut is a number. *)
LEMMA LastOutIs ==
    ASSUME ChanTypes
    PROVE  LastOut \in 0..NFrames
<1>1. out \in Seq(EmittedFrame) /\ NFrames \in Nat
  BY Numbers DEF ChanTypes, TypeOK
<1>2. CASE out = <<>>
  BY <1>1, <1>2 DEF LastOut
<1>3. CASE out # <<>>
  <2>1. out[Len(out)] \in EmittedFrame
    BY <1>1, <1>3
  <2>2. QED
    BY <1>1, <1>3, <2>1 DEF LastOut, EmittedFrame, Frames
<1>4. QED
  BY <1>2, <1>3

(* d is the next datagram read. *)
IsNext(d) == d \in Fragments /\ InLine(d) /\ \A e \in Fragments : InLine(e) /\ e # d => Before(d, e)

(* What reading it means for a frame that is still untouched: it is the    *)
(* datagram that frame waits for, or of an earlier frame, or begins one.   *)
LEMMA Due ==
    ASSUME ChanInv, NEW d, IsNext(d), NEW f \in Frames, Clean(f)
    PROVE  /\ d.frame <= f
           /\ have_frame /\ cur_frame = f => d.frame = f /\ d.idx = Len(buf) + 1
           /\ d.frame = f /\ d.idx # 1 => have_frame /\ cur_frame = f
<1>1. /\ d \in Fragments /\ InLine(d) /\ Sent(d)
      /\ \A e \in Fragments : InLine(e) /\ e # d => Before(d, e)
      /\ d.frame \in Nat /\ d.idx \in Nat /\ d.idx \in 1..Parts[d.frame]
      /\ d = Frag(d.frame, d.idx)
  BY Numbers DEF IsNext, ChanInv, Line
<1>2. f \in Nat /\ Parts[f] \in Nat \ {0}
  BY Numbers
<1>3. \A i \in 1..Parts[f] : Sent(Frag(f, i)) => InLine(Frag(f, i)) \/ (cur_frame = f /\ Stored(Frag(f, i)))
  BY DEF ChanInv, Untouched
<1>4. have_frame /\ cur_frame = f => Len(buf) \in 1..(Parts[f] - 1) /\ buf = Prefix(f, Len(buf))
  BY DEF ChanInv, Untouched
(* A datagram of f sent before d is in the buffer. *)
<1>5. ASSUME NEW i \in 1..Parts[f], Before(Frag(f, i), d)
      PROVE  have_frame /\ cur_frame = f /\ i <= Len(buf)
  <2>1. Frag(f, i) \in Fragments
    BY FragFields
  <2>2. Sent(Frag(f, i))
    <3>1. hostNext.frame \in Nat /\ hostNext.idx \in Nat /\ Before(d, hostNext)
      BY <1>1, Numbers DEF ChanInv, ChanTypes, Sent
    <3>2. Frag(f, i).frame = f /\ Frag(f, i).idx = i /\ i \in Nat
      BY FragFields
    <3>3. QED
      BY <1>1, <1>2, <1>5, <3>1, <3>2 DEF Sent, Before
  <2>3. ~InLine(Frag(f, i))
    BY <1>1, <1>5, <2>1, Order
  <2>4. cur_frame = f /\ have_frame /\ In(Frag(f, i), buf)
    BY <1>3, <2>2, <2>3 DEF Stored
  <2>5. Len(buf) \in 0..Parts[f] /\ buf = Prefix(f, Len(buf))
    BY <1>2, <1>4, <2>4
  <2>6. QED
    BY <2>4, <2>5, PrefixHolds
<1>6. d.frame <= f
  <2>1. SUFFICES ASSUME f < d.frame PROVE FALSE
    BY <1>1, <1>2
  <2>2. Parts[f] \in 1..Parts[f] /\ Before(Frag(f, Parts[f]), d)
    BY <1>2, <2>1, FragFields DEF Before
  <2>3. QED
    BY <1>2, <1>4, <1>5, <2>2
<1>7. ASSUME have_frame, cur_frame = f
      PROVE  d.frame = f /\ d.idx = Len(buf) + 1
  <2>1. d.frame = f
    <3>1. cur_frame <= d.frame
      BY <1>1, <1>7 DEF ChanInv, Ahead
    <3>2. QED
      BY <1>1, <1>2, <1>6, <1>7, <3>1
  <2>2. Len(buf) \in 1..(Parts[f] - 1) /\ buf = Prefix(f, Len(buf))
    BY <1>4, <1>7
  <2>3. ~(d.idx <= Len(buf))
    <3>1. ~In(d, buf)
      BY <1>1, <1>7 DEF ChanInv, Collected, Stored
    <3>2. Len(buf) \in 0..Parts[f] /\ d.idx \in 1..Parts[f] /\ d = Frag(f, d.idx)
      BY <1>1, <1>2, <2>1, <2>2
    <3>3. In(d, Prefix(f, Len(buf))) <=> d.idx <= Len(buf)
      BY <3>2, PrefixHolds
    <3>4. QED
      BY <2>2, <3>1, <3>3
  <2>4. ~(Len(buf) + 1 < d.idx)
    <3>1. SUFFICES ASSUME Len(buf) + 1 < d.idx PROVE FALSE
      OBVIOUS
    <3>2. Len(buf) + 1 \in 1..Parts[f]
      BY <1>2, <2>2
    <3>3. Before(Frag(f, Len(buf) + 1), d)
      BY <2>1, <3>1, <3>2, FragFields DEF Before
    <3>4. Len(buf) + 1 <= Len(buf)
      BY <1>5, <3>2, <3>3
    <3>5. QED
      BY <2>2, <3>4
  <2>5. QED
    BY <1>1, <2>1, <2>2, <2>3, <2>4
<1>8. ASSUME d.frame = f, d.idx # 1
      PROVE  have_frame /\ cur_frame = f
  <2>1. 1 \in 1..Parts[f] /\ Before(Frag(f, 1), d)
    BY <1>1, <1>2, <1>8, FragFields DEF Before
  <2>2. QED
    BY <1>5, <2>1
<1>9. QED
  BY <1>6, <1>7, <1>8

-----------------------------------------------------------------------------
(* A datagram is lost on the way. *)
LEMMA LostKeeps ==
    ASSUME ChanInv, NEW d0 \in Fragments, InLine(d0),
           \A d \in Fragments : InLine(d)' <=> InLine(d) /\ d # d0,
           UNCHANGED <<vars, hostNext>>, damaged' = damaged \cup {d0.frame}
    PROVE  /\ (Ahead /\ Collected /\ Untouched /\ Torn)'
           /\ LastOut < d0.frame
<1>1. /\ LastOut' = LastOut /\ have_frame' = have_frame /\ cur_frame' = cur_frame /\ buf' = buf
      /\ \A d : (Sent(d)' <=> Sent(d)) /\ (Stored(d)' <=> Stored(d))
  BY DEF vars, LastOut, Sent, Stored, In
<1>2. Ahead' /\ LastOut < d0.frame
  BY <1>1 DEF ChanInv, Ahead
<1>3. Collected'
  BY <1>1 DEF ChanInv, Collected
<1>4. \A f \in Frames : Clean(f)' => Clean(f) /\ f # d0.frame
  BY <1>1 DEF Clean
<1>5. Untouched'
  <2>1. SUFFICES ASSUME NEW f \in Frames, Clean(f)'
                 PROVE  /\ have_frame /\ cur_frame = f =>
                               Len(buf) \in 1..(Parts[f] - 1) /\ buf = Prefix(f, Len(buf))
                        /\ \A i \in 1..Parts[f] :
                               Sent(Frag(f, i)) => \/ InLine(Frag(f, i))'
                                                   \/ (cur_frame = f /\ Stored(Frag(f, i)))
    BY <1>1 DEF Untouched
  <2>2. Clean(f) /\ f # d0.frame
    BY <1>4, <2>1
  <2>3. \A i \in 1..Parts[f] : Frag(f, i) \in Fragments /\ Frag(f, i) # d0
    BY <2>2, FragFields
  <2>4. QED
    BY <2>2, <2>3 DEF ChanInv, Untouched
<1>6. Torn'
  <2>1. SUFFICES ASSUME NEW f \in damaged'
                 PROVE  \E i \in 1..Parts[f] : Missing(f, Frag(f, i))'
    BY DEF Torn
  <2>2. CASE f \in damaged
    <3>1. PICK i \in 1..Parts[f] : Missing(f, Frag(f, i))
      BY <2>2 DEF ChanInv, Torn
    <3>2. Frag(f, i) \in Fragments
      BY <2>2, FragFields DEF ChanInv, ChanTypes
    <3>3. QED
      BY <1>1, <3>1, <3>2 DEF Missing
  <2>3. CASE f = d0.frame
    <3>1. d0.idx \in 1..Parts[f] /\ Frag(f, d0.idx) = d0
      BY <2>3, Numbers
    <3>2. Sent(d0) /\ ~Stored(d0)
      BY DEF ChanInv, Line, Collected
    <3>3. Missing(f, d0)'
      BY <1>1, <3>2 DEF Missing
    <3>4. QED
      BY <3>1, <3>3
  <2>4. QED
    BY <2>1, <2>2, <2>3
<1>7. QED
  BY <1>2, <1>3, <1>5, <1>6

-----------------------------------------------------------------------------
(* The host sends the next datagram. *)
LEMMA HostSends ==
    ASSUME ChanTypes, HostSend
    PROVE  /\ hostNext \in Fragments
           /\ hostNext' \in [frame : 1..(NFrames + 1), idx : Nat \ {0}]
           /\ hostNext'.frame <= NFrames => hostNext'.idx <= Parts[hostNext'.frame]
           /\ hostNext.frame <= hostNext'.frame
           /\ \A d \in Fragments : Sent(d)' <=> Sent(d) \/ d = hostNext
<1>1. /\ hostNext.frame \in Frames /\ hostNext.frame \in Nat /\ NFrames \in Nat
      /\ hostNext.idx \in 1..Parts[hostNext.frame] /\ Parts[hostNext.frame] \in Nat
      /\ hostNext = Frag(hostNext.frame, hostNext.idx)
  <2>1. /\ hostNext.frame \in 1..(NFrames + 1) /\ hostNext.idx \in Nat \ {0}
        /\ hostNext = [frame |-> hostNext.frame, idx |-> hostNext.idx]
        /\ hostNext.frame <= NFrames /\ hostNext.idx <= Parts[hostNext.frame]
    BY DEF ChanTypes, HostSend
  <2>2. hostNext.frame \in Frames
    BY <2>1, Numbers DEF Frames
  <2>3. QED
    BY <2>1, <2>2, Numbers DEF Frag
<1>2. hostNext \in Fragments
  BY <1>1, FragIn
<1>3. CASE FLAG_EOF(hostNext)
  <2>1. hostNext' = [frame |-> hostNext.frame + 1, idx |-> 1] /\ hostNext.idx = Parts[hostNext.frame]
    BY <1>3 DEF HostSend, Frag, FLAG_EOF
  <2>2. hostNext.frame + 1 \in 1..(NFrames + 1)
    BY <1>1 DEF Frames
  <2>3. hostNext.frame + 1 <= NFrames => 1 <= Parts[hostNext.frame + 1]
    <3>1. SUFFICES ASSUME hostNext.frame + 1 <= NFrames PROVE 1 <= Parts[hostNext.frame + 1]
      OBVIOUS
    <3>2. hostNext.frame + 1 \in Frames
      BY <1>1, <3>1 DEF Frames
    <3>3. Parts[hostNext.frame + 1] \in Nat \ {0}
      BY <3>2, Numbers
    <3>4. QED
      BY <3>3
  <2>4. \A d \in Fragments : Sent(d)' <=> Sent(d) \/ d = hostNext
    <3>1. SUFFICES ASSUME NEW d \in Fragments PROVE Sent(d)' <=> Sent(d) \/ d = hostNext
      OBVIOUS
    <3>2. /\ d.frame \in Nat /\ d.idx \in Nat /\ d.idx \in 1..Parts[d.frame]
          /\ d = Frag(d.frame, d.idx)
      BY Numbers
    <3>3. Sent(d)' <=> d.frame < hostNext.frame + 1
      BY <1>1, <2>1, <3>2 DEF Sent, Before
    <3>4. d = hostNext <=> d.frame = hostNext.frame /\ d.idx = hostNext.idx
      BY <1>1, <3>2
    <3>5. d.frame = hostNext.frame => d.idx < hostNext.idx \/ d.idx = hostNext.idx
      BY <1>1, <2>1, <3>2
    <3>6. QED
      BY <1>1, <3>2, <3>3, <3>4, <3>5 DEF Sent, Before
  <2>5. QED
    BY <1>1, <1>2, <2>1, <2>2, <2>3, <2>4
<1>4. CASE ~FLAG_EOF(hostNext)
  <2>1. /\ hostNext' = [frame |-> hostNext.frame, idx |-> hostNext.idx + 1]
        /\ hostNext.idx # Parts[hostNext.frame]
    BY <1>4 DEF HostSend, Frag, FLAG_EOF
  <2>2. hostNext.idx + 1 <= Parts[hostNext.frame] /\ hostNext.idx + 1 \in Nat \ {0}
    BY <1>1, <2>1
  <2>3. \A d \in Fragments : Sent(d)' <=> Sent(d) \/ d = hostNext
    <3>1. SUFFICES ASSUME NEW d \in Fragments PROVE Sent(d)' <=> Sent(d) \/ d = hostNext
      OBVIOUS
    <3>2. d.frame \in Nat /\ d.idx \in Nat /\ d = Frag(d.frame, d.idx)
      BY Numbers
    <3>3. d = hostNext <=> d.frame = hostNext.frame /\ d.idx = hostNext.idx
      BY <1>1, <3>2
    <3>4. QED
      BY <1>1, <2>1, <3>2, <3>3 DEF Sent, Before
  <2>4. QED
    BY <1>1, <1>2, <2>1, <2>2, <2>3 DEF Frames
<1>5. QED
  BY <1>3, <1>4

LEMMA HostSendKeeps ==
    ASSUME ChanInv, HostSend
    PROVE  ChanInv'
<1> DEFINE e == hostNext
<1>1. /\ e \in Fragments /\ e.frame <= hostNext'.frame
      /\ e.frame \in Nat /\ hostNext'.frame \in Nat
      /\ \A d \in Fragments : Sent(d)' <=> Sent(d) \/ d = e
  BY HostSends, Numbers DEF ChanInv
<1>2. /\ wire' = Append(wire, e) /\ UNCHANGED <<vars, bound, sock, lost, damaged>>
  BY DEF HostSend
<1>3. /\ LastOut' = LastOut /\ have_frame' = have_frame /\ cur_frame' = cur_frame /\ buf' = buf
      /\ \A d : (Stored(d)' <=> Stored(d)) /\ (Clean(d)' <=> Clean(d))
  BY <1>2 DEF vars, LastOut, Stored, In, Clean
<1>4. wire \in Seq(Fragments) /\ sock \in Seq(Fragments) /\ Ascending(wire)
  BY DEF ChanInv, ChanTypes, Line
<1>5. \A d \in Fragments : InLine(d) => Sent(d) /\ Before(d, e) /\ d # e
  BY <1>1, Order DEF ChanInv, Line, Sent
<1>6. /\ wire' \in Seq(Fragments) /\ Ascending(wire')
      /\ \A d : In(d, wire') <=> In(d, wire) \/ d = e
  <2>1. \A d \in Fragments : In(d, wire) => Before(d, e)
    BY <1>5 DEF InLine
  <2>2. QED
    BY <1>1, <1>2, <1>4, <2>1, EndOf
<1>7. \A d : InLine(d)' <=> InLine(d) \/ d = e
  BY <1>2, <1>6 DEF InLine
<1> HIDE DEF e
<1>8. ChanTypes'
  <2>1. TypeOK' /\ damaged' \subseteq Frames /\ sock' \in Seq(Fragments)
    BY <1>2 DEF ChanInv, ChanTypes, TypeOK, vars
  <2>2. QED
    BY <1>6, <2>1, HostSends DEF ChanInv, ChanTypes
<1>9. Line'
  <2>1. \A c, d \in Fragments : In(c, sock') /\ In(d, wire') => Before(c, d)
    BY <1>2, <1>5, <1>6 DEF ChanInv, Line, InLine
  <2>2. QED
    BY <1>1, <1>2, <1>5, <1>6, <1>7, <2>1 DEF ChanInv, Line
<1>10. Ahead'
  <2>1. LastOut \in Nat /\ (have_frame => cur_frame \in Nat)
    BY LastOutIs, Numbers DEF ChanInv, ChanTypes, TypeOK
  <2>2. /\ LastOut < e.frame
        /\ have_frame => LastOut < cur_frame /\ cur_frame <= e.frame
    BY DEF ChanInv, Ahead, e
  <2>3. QED
    BY <1>1, <1>3, <1>7, <2>1, <2>2 DEF ChanInv, Ahead
<1>11. Collected'
  <2>1. ~Sent(e)
    BY <1>1, Order DEF Sent, e
  <2>2. QED
    BY <1>1, <1>3, <1>7, <2>1 DEF ChanInv, Collected
<1>12. Untouched'
  <2>1. SUFFICES ASSUME NEW f \in Frames, Clean(f), NEW i \in 1..Parts[f], Sent(Frag(f, i))'
                 PROVE  InLine(Frag(f, i))' \/ (cur_frame = f /\ Stored(Frag(f, i)))
    BY <1>3 DEF ChanInv, Untouched
  <2>2. Sent(Frag(f, i)) \/ Frag(f, i) = e
    BY <1>1, <2>1, FragFields
  <2>3. QED
    BY <1>7, <2>1, <2>2 DEF ChanInv, Untouched
<1>13. Torn'
  <2>1. SUFFICES ASSUME NEW f \in damaged
                 PROVE  \E i \in 1..Parts[f] : Missing(f, Frag(f, i))'
    BY <1>2 DEF Torn
  <2>2. PICK i \in 1..Parts[f] : Missing(f, Frag(f, i))
    BY DEF ChanInv, Torn
  <2>3. Frag(f, i) \in Fragments
    BY FragFields DEF ChanInv, ChanTypes
  <2>4. Frag(f, i) # e
    BY <1>1, <2>2, Order DEF Missing, Sent, e
  <2>5. QED
    BY <1>1, <1>3, <1>7, <2>2, <2>3, <2>4 DEF Missing
<1>14. QED
  BY <1>8, <1>9, <1>10, <1>11, <1>12, <1>13 DEF ChanInv

-----------------------------------------------------------------------------
(* The datagram read is fed to the reassembler. *)
LEMMA IgnoredKeeps ==
    ASSUME ChanInv, NEW d, IsNext(d), FeedIgnored(d), UNCHANGED <<hostNext, damaged>>,
           \A e \in Fragments : InLine(e)' <=> InLine(e) /\ e # d
    PROVE  (Ahead /\ Collected /\ Untouched /\ Torn)'
<1>1. /\ ~FLAG_SOF(d) /\ ~have_frame /\ UNCHANGED <<reasm, out>>
      /\ d \in Fragments
  BY DEF FeedIgnored, Accepted, IsNext
<1>2. /\ LastOut' = LastOut /\ have_frame' = have_frame /\ cur_frame' = cur_frame /\ buf' = buf
      /\ \A e : (Sent(e)' <=> Sent(e)) /\ (Stored(e)' <=> Stored(e)) /\ (Clean(e)' <=> Clean(e))
  BY <1>1 DEF reasm, LastOut, Sent, Stored, In, Clean
<1>3. ~Clean(d.frame)
  BY <1>1, Numbers, Due DEF FLAG_SOF
<1>4. Ahead' /\ Collected'
  BY <1>2 DEF ChanInv, Ahead, Collected
<1>5. Untouched'
  <2>1. SUFFICES ASSUME NEW f \in Frames, Clean(f), NEW i \in 1..Parts[f], Sent(Frag(f, i))
                 PROVE  InLine(Frag(f, i))' \/ (cur_frame = f /\ Stored(Frag(f, i)))
    BY <1>2 DEF ChanInv, Untouched
  <2>2. Frag(f, i) # d /\ Frag(f, i) \in Fragments
    BY <1>3, <2>1, FragFields
  <2>3. QED
    BY <2>1, <2>2 DEF ChanInv, Untouched
<1>6. Torn'
  <2>1. SUFFICES ASSUME NEW f \in damaged
                 PROVE  \E i \in 1..Parts[f] : Missing(f, Frag(f, i))'
    BY DEF Torn
  <2>2. PICK i \in 1..Parts[f] : Missing(f, Frag(f, i))
    BY DEF ChanInv, Torn
  <2>3. Frag(f, i) \in Fragments
    BY FragFields DEF ChanInv, ChanTypes
  <2>4. QED
    BY <1>2, <2>2, <2>3 DEF Missing
<1>7. QED
  BY <1>4, <1>5, <1>6

LEMMA Reading ==
    ASSUME ChanInv, NEW d, IsNext(d), Accepted(d)
    PROVE  /\ d \in Fragments /\ d.frame \in Frames /\ InLine(d) /\ Sent(d) /\ ~Stored(d)
           /\ FrameOf(d) \in Frames /\ FrameOf(d) \in Nat /\ FrameOf(d) <= d.frame
           /\ LastOut < FrameOf(d) /\ d.frame <= hostNext.frame
           /\ FLAG_SOF(d) => FrameOf(d) = d.frame /\ BufAt(d) = <<>>
           /\ ~FLAG_SOF(d) => have_frame /\ FrameOf(d) = cur_frame /\ BufAt(d) = buf
           /\ FLAG_EOF(d) => d.frame < hostNext.frame
           /\ \A e \in Fragments : InLine(e) /\ e # d =>
                  /\ d.frame <= e.frame
                  /\ FLAG_EOF(d) => d.frame < e.frame
<1>1. /\ d \in Fragments /\ InLine(d) /\ Sent(d) /\ ~Stored(d) /\ d.frame \in Frames
      /\ d.frame \in Nat /\ d.idx \in Nat /\ d.idx \in 1..Parts[d.frame]
  BY Numbers DEF IsNext, ChanInv, Line, Collected
<1>2. /\ hostNext.frame \in 1..(NFrames + 1) /\ hostNext.idx \in Nat
      /\ hostNext.frame <= NFrames => hostNext.idx <= Parts[hostNext.frame]
      /\ NFrames \in Nat /\ LastOut \in Nat
  BY Numbers, LastOutIs DEF ChanInv, ChanTypes
<1>3. /\ FLAG_SOF(d) => FrameOf(d) = d.frame /\ BufAt(d) = <<>>
      /\ ~FLAG_SOF(d) => have_frame /\ FrameOf(d) = cur_frame /\ BufAt(d) = buf
  BY DEF FrameOf, BufAt, Accepted
<1>4. have_frame => cur_frame \in Frames /\ LastOut < cur_frame /\ cur_frame <= d.frame
  BY <1>1 DEF ChanInv, ChanTypes, TypeOK, Ahead
<1>5. LastOut < d.frame
  BY <1>1 DEF ChanInv, Ahead
<1>6. /\ FrameOf(d) \in Frames /\ FrameOf(d) \in Nat /\ FrameOf(d) <= d.frame
      /\ LastOut < FrameOf(d)
  <2>1. FrameOf(d) \in Frames /\ FrameOf(d) <= d.frame /\ LastOut < FrameOf(d)
    BY <1>1, <1>3, <1>4, <1>5
  <2>2. QED
    BY <2>1, Numbers
<1>7. d.frame <= hostNext.frame /\ (FLAG_EOF(d) => d.frame < hostNext.frame)
  <2>1. d.frame < hostNext.frame \/ (d.frame = hostNext.frame /\ d.idx < hostNext.idx)
    BY <1>1 DEF Sent, Before
  <2>2. FLAG_EOF(d) => d.idx = Parts[d.frame]
    BY DEF FLAG_EOF
  <2>3. d.frame <= NFrames
    BY <1>1, Numbers
  <2>4. QED
    BY <1>1, <1>2, <2>1, <2>2, <2>3
<1>8. ASSUME NEW e \in Fragments, InLine(e), e # d
      PROVE  d.frame <= e.frame /\ (FLAG_EOF(d) => d.frame < e.frame)
  <2>1. d.frame < e.frame \/ (d.frame = e.frame /\ d.idx < e.idx)
    BY <1>8 DEF IsNext, Before
  <2>2. e.frame \in Nat /\ e.idx \in 1..Parts[e.frame] /\ Parts[d.frame] \in Nat
    BY <1>1, Numbers
  <2>3. FLAG_EOF(d) => d.idx = Parts[d.frame]
    BY DEF FLAG_EOF
  <2>4. QED
    BY <1>1, <2>1, <2>2, <2>3
<1>9. QED
  BY <1>1, <1>3, <1>6, <1>7, <1>8

(* The first datagrams of a frame, or the next of one, without its end. *)
LEMMA AppendedKeeps ==
    ASSUME ChanInv, NEW d, IsNext(d), FeedAppended(d), ~FLAG_EOF(d),
           UNCHANGED <<hostNext, damaged>>,
           \A e \in Fragments : InLine(e)' <=> InLine(e) /\ e # d
    PROVE  (Ahead /\ Collected /\ Untouched /\ Torn)'
<1> DEFINE g == FrameOf(d)
<1>1. Accepted(d) /\ ~Completes(d)
  BY DEF FeedAppended, Completes
<1>2. /\ cur_frame' = g /\ have_frame' = TRUE /\ buf' = Append(BufAt(d), d) /\ out' = out
  BY <1>1 DEF FeedAppended
<1>3. /\ d \in Fragments /\ d.frame \in Frames /\ InLine(d) /\ Sent(d) /\ ~Stored(d)
      /\ g \in Frames /\ g \in Nat /\ g <= d.frame
      /\ LastOut < g /\ d.frame <= hostNext.frame
      /\ FLAG_SOF(d) => g = d.frame /\ BufAt(d) = <<>>
      /\ ~FLAG_SOF(d) => have_frame /\ g = cur_frame /\ BufAt(d) = buf
      /\ \A e \in Fragments : InLine(e) /\ e # d => d.frame <= e.frame
  BY <1>1, Reading
<1> HIDE DEF g
<1>4. BufAt(d) \in Seq(Fragments)
  BY <1>1, <1>3, AppendTypes DEF ChanInv, ChanTypes
<1>5. \A e : In(e, buf') <=> In(e, BufAt(d)) \/ e = d
  BY <1>2, <1>3, <1>4, EndOf
<1>6. \A e : In(e, BufAt(d)) => ~FLAG_SOF(d) /\ Stored(e)
  BY <1>3 DEF In, Stored
<1>7. /\ LastOut' = LastOut /\ \A e : (Sent(e)' <=> Sent(e)) /\ (Clean(e)' <=> Clean(e))
      /\ \A e : Stored(e)' <=> In(e, buf')
  BY <1>2 DEF LastOut, Sent, Clean, Stored
<1>8. Ahead'
  <2>1. hostNext.frame \in Nat /\ d.frame \in Nat /\ \A e \in Fragments : e.frame \in Nat
    BY <1>3, Numbers DEF ChanInv, ChanTypes
  <2>2. g <= hostNext.frame /\ \A e \in Fragments : InLine(e) /\ e # d => g <= e.frame
    BY <1>3, <2>1
  <2>3. QED
    BY <1>2, <1>3, <1>7, <2>2 DEF ChanInv, Ahead
<1>9. Collected'
  <2>1. \A e \in Fragments : In(e, buf') => Sent(e) /\ ~(InLine(e) /\ e # d)
    BY <1>3, <1>5, <1>6 DEF ChanInv, Collected
  <2>2. QED
    BY <1>7, <2>1 DEF Collected
<1>10. Untouched'
  <2>1. SUFFICES ASSUME NEW f \in Frames, Clean(f)
                 PROVE  /\ g = f => Len(buf') \in 1..(Parts[f] - 1) /\ buf' = Prefix(f, Len(buf'))
                        /\ \A i \in 1..Parts[f] :
                               Sent(Frag(f, i)) => \/ InLine(Frag(f, i))'
                                                   \/ (g = f /\ In(Frag(f, i), buf'))
    BY <1>2, <1>7 DEF Untouched
  <2>2. /\ have_frame /\ cur_frame = f => d.frame = f /\ d.idx = Len(buf) + 1
        /\ d.frame = f /\ d.idx # 1 => have_frame /\ cur_frame = f
    BY <2>1, Due
  <2>3. /\ d.idx \in 1..Parts[d.frame] /\ d = Frag(d.frame, d.idx) /\ d.idx # Parts[d.frame]
        /\ Parts[f] \in Nat
    BY <1>3, Numbers DEF FLAG_EOF
  <2>4. ASSUME g = f
        PROVE  Len(buf') \in 1..(Parts[f] - 1) /\ buf' = Prefix(f, Len(buf'))
    <3>1. CASE FLAG_SOF(d)
      <4>1. d.frame = f /\ d.idx = 1 /\ buf' = Append(<<>>, d)
        BY <1>2, <1>3, <2>4, <3>1 DEF FLAG_SOF
      <4>2. buf' = <<d>> /\ Len(buf') = 1 /\ d = Frag(f, 1)
        BY <2>3, <4>1
      <4>3. Prefix(f, 1) = <<Frag(f, 1)>>
        BY DEF Prefix
      <4>4. QED
        BY <2>3, <4>1, <4>2, <4>3
    <3>2. CASE ~FLAG_SOF(d)
      <4>1. /\ have_frame /\ cur_frame = f /\ buf' = Append(buf, d)
            /\ d.frame = f /\ d.idx = Len(buf) + 1
        BY <1>2, <1>3, <2>2, <2>4, <3>2
      <4>2. Len(buf) \in 1..(Parts[f] - 1) /\ buf = Prefix(f, Len(buf)) /\ buf \in Seq(Fragments)
        BY <2>1, <4>1 DEF ChanInv, Untouched, ChanTypes, TypeOK
      <4>3. /\ buf' \in Seq(Fragments) /\ Len(buf') = Len(buf) + 1
            /\ \A i \in 1..(Len(buf) + 1) : buf'[i] = IF i <= Len(buf) THEN buf[i] ELSE d
        BY <1>3, <4>1, <4>2
      <4>4. \A i \in 1..Len(buf) : buf[i] = Frag(f, i)
        BY <4>2 DEF Prefix
      <4>5. \A i \in 1..Len(buf') : buf'[i] = Frag(f, i)
        BY <2>3, <4>1, <4>2, <4>3, <4>4
      <4>6. buf' = Prefix(f, Len(buf'))
        BY <4>3, <4>5 DEF Prefix
      <4>7. Len(buf') \in 1..(Parts[f] - 1)
        BY <2>3, <4>1, <4>2, <4>3
      <4>8. QED
        BY <4>6, <4>7
    <3>3. QED
      BY <3>1, <3>2
  <2>5. ASSUME NEW i \in 1..Parts[f], Sent(Frag(f, i))
        PROVE  InLine(Frag(f, i))' \/ (g = f /\ In(Frag(f, i), buf'))
    <3> DEFINE e == Frag(f, i)
    <3>1. e \in Fragments /\ e.frame = f
      BY FragFields
    <3>2. InLine(e) \/ (cur_frame = f /\ Stored(e))
      BY <2>1, <2>5 DEF ChanInv, Untouched
    <3> HIDE DEF e
    <3>3. CASE InLine(e) /\ e # d
      BY <3>1, <3>3 DEF e
    <3>4. CASE e = d
      <4>1. g = f
        BY <1>3, <2>2, <3>1, <3>4 DEF FLAG_SOF
      <4>2. QED
        BY <1>5, <3>4, <4>1 DEF e
    <3>5. CASE cur_frame = f /\ Stored(e)
      <4>1. have_frame /\ In(e, buf) /\ d.frame = f /\ d.idx = Len(buf) + 1
        BY <2>2, <3>5 DEF Stored
      <4>2. Len(buf) \in 1..(Parts[f] - 1)
        BY <2>1, <3>5, <4>1 DEF ChanInv, Untouched
      <4>3. ~FLAG_SOF(d)
        BY <4>1, <4>2 DEF FLAG_SOF
      <4>4. QED
        BY <1>3, <1>5, <3>5, <4>1, <4>3 DEF e
    <3>6. QED
      BY <3>2, <3>3, <3>4, <3>5
  <2>6. QED
    BY <2>4, <2>5
<1>11. Torn'
  <2>1. SUFFICES ASSUME NEW f \in damaged
                 PROVE  \E i \in 1..Parts[f] : Missing(f, Frag(f, i))'
    BY DEF Torn
  <2>2. PICK i \in 1..Parts[f] : Missing(f, Frag(f, i))
    BY DEF ChanInv, Torn
  <2>3. Frag(f, i) \in Fragments /\ Frag(f, i) # d
    BY <1>3, <2>2, FragFields DEF ChanInv, ChanTypes, Missing
  <2>4. ~(g = f /\ In(Frag(f, i), buf'))
    BY <1>3, <1>5, <1>6, <2>2, <2>3 DEF Missing
  <2>5. QED
    BY <1>2, <1>7, <2>2, <2>3, <2>4 DEF Missing
<1>12. QED
  BY <1>8, <1>9, <1>10, <1>11

(* The end of a frame: it is emitted, the buffer empty. *)
LEMMA CompletedKeeps ==
    ASSUME ChanInv, NEW d, IsNext(d), Accepted(d), FLAG_EOF(d),
           LastOut' = FrameOf(d), have_frame' = FALSE, cur_frame' = FrameOf(d),
           UNCHANGED <<hostNext, damaged>>,
           \A e \in Fragments : InLine(e)' <=> InLine(e) /\ e # d
    PROVE  (Ahead /\ Collected /\ Untouched /\ Torn)'
<1> DEFINE g == FrameOf(d)
<1>1. /\ d \in Fragments /\ d.frame \in Frames
      /\ g \in Frames /\ g \in Nat /\ g <= d.frame
      /\ LastOut < g /\ d.frame < hostNext.frame
      /\ FLAG_SOF(d) => g = d.frame
      /\ ~FLAG_SOF(d) => have_frame /\ g = cur_frame
      /\ \A e \in Fragments : InLine(e) /\ e # d => d.frame < e.frame
  BY Reading
<1>2. /\ LastOut' = g /\ cur_frame' = g
      /\ \A e : (Sent(e)' <=> Sent(e)) /\ ~Stored(e)'
  BY DEF Sent, Stored
<1> HIDE DEF g
<1>3. d.frame \in Nat /\ hostNext.frame \in Nat /\ \A e \in Fragments : e.frame \in Nat
  BY <1>1, Numbers DEF ChanInv, ChanTypes
<1>4. Ahead'
  <2>1. g < hostNext.frame /\ \A e \in Fragments : InLine(e) /\ e # d => g < e.frame
    BY <1>1, <1>3
  <2>2. QED
    BY <1>2, <2>1 DEF Ahead
<1>5. Collected'
  BY <1>2 DEF Collected
<1>6. Untouched'
  <2>1. SUFFICES ASSUME NEW f \in Frames, Clean(f)', NEW i \in 1..Parts[f], Sent(Frag(f, i))
                 PROVE  InLine(Frag(f, i))'
    BY <1>2 DEF Untouched
  <2>2. g < f /\ Clean(f)
    <3>1. g < f /\ f \notin damaged
      BY <1>2, <2>1 DEF Clean
    <3>2. LastOut \in Nat /\ f \in Nat
      BY LastOutIs, Numbers DEF ChanInv
    <3>3. QED
      BY <1>1, <3>1, <3>2 DEF Clean
  <2>3. /\ have_frame /\ cur_frame = f => d.frame = f /\ d.idx = Len(buf) + 1
        /\ d.frame = f /\ d.idx # 1 => have_frame /\ cur_frame = f
    BY <2>2, Due
  <2>4. Frag(f, i) \in Fragments /\ Frag(f, i).frame = f
    BY FragFields
  <2>5. InLine(Frag(f, i)) \/ (cur_frame = f /\ Stored(Frag(f, i)))
    BY <2>1, <2>2 DEF ChanInv, Untouched
  <2>6. f # g /\ f \in Nat
    BY <1>1, <2>2, Numbers
  <2>7. d.frame # f
    BY <1>1, <2>3, <2>6 DEF FLAG_SOF
  <2>8. QED
    BY <2>3, <2>4, <2>5, <2>7 DEF Stored
<1>7. Torn'
  <2>1. SUFFICES ASSUME NEW f \in damaged
                 PROVE  \E i \in 1..Parts[f] : Missing(f, Frag(f, i))'
    BY DEF Torn
  <2>2. PICK i \in 1..Parts[f] : Missing(f, Frag(f, i))
    BY DEF ChanInv, Torn
  <2>3. Frag(f, i) \in Fragments
    BY FragFields DEF ChanInv, ChanTypes
  <2>4. QED
    BY <1>2, <2>2, <2>3 DEF Missing
<1>8. QED
  BY <1>4, <1>5, <1>6, <1>7

(* The reallocation fails: the frame the datagram is of is damaged.  *)
LEMMA OutOfMemoryKeeps ==
    ASSUME ChanInv, NEW d, IsNext(d), FeedOutOfMemory(d), UNCHANGED hostNext,
           damaged' = damaged \cup {d.frame},
           \A e \in Fragments : InLine(e)' <=> InLine(e) /\ e # d
    PROVE  (Ahead /\ Collected /\ Untouched /\ Torn)'
<1> DEFINE g == FrameOf(d)
<1>1. Accepted(d) /\ cur_frame' = g /\ have_frame' = TRUE /\ buf' = <<>> /\ out' = out
  BY DEF FeedOutOfMemory
<1>2. /\ d \in Fragments /\ d.frame \in Frames /\ InLine(d) /\ Sent(d) /\ ~Stored(d)
      /\ g \in Frames /\ g \in Nat /\ g <= d.frame
      /\ LastOut < g /\ d.frame <= hostNext.frame
      /\ FLAG_SOF(d) => g = d.frame
      /\ ~FLAG_SOF(d) => have_frame /\ g = cur_frame
      /\ \A e \in Fragments : InLine(e) /\ e # d => d.frame <= e.frame
  BY <1>1, Reading
<1>3. /\ LastOut' = LastOut
      /\ \A e : (Sent(e)' <=> Sent(e)) /\ ~Stored(e)'
      /\ \A f : Clean(f)' => Clean(f) /\ f # d.frame
  BY <1>1 DEF LastOut, Sent, Clean, Stored, In
<1> HIDE DEF g
<1>4. Ahead'
  <2>1. hostNext.frame \in Nat /\ d.frame \in Nat /\ \A e \in Fragments : e.frame \in Nat
    BY <1>2, Numbers DEF ChanInv, ChanTypes
  <2>2. g <= hostNext.frame /\ \A e \in Fragments : InLine(e) /\ e # d => g <= e.frame
    BY <1>2, <2>1
  <2>3. QED
    BY <1>1, <1>2, <1>3, <2>2 DEF ChanInv, Ahead
<1>5. Collected'
  BY <1>3 DEF Collected
<1>6. Untouched'
  <2>1. SUFFICES ASSUME NEW f \in Frames, Clean(f)'
                 PROVE  /\ g # f
                        /\ \A i \in 1..Parts[f] : Sent(Frag(f, i)) => InLine(Frag(f, i))'
    BY <1>1, <1>3 DEF Untouched
  <2>2. Clean(f) /\ f # d.frame
    BY <1>3, <2>1
  <2>3. ~(have_frame /\ cur_frame = f)
    BY <2>2, Due
  <2>4. \A i \in 1..Parts[f] : Frag(f, i) \in Fragments /\ Frag(f, i) # d
    BY <2>2, FragFields
  <2>5. \A i \in 1..Parts[f] : Sent(Frag(f, i)) => InLine(Frag(f, i))
    BY <2>2, <2>3 DEF ChanInv, Untouched, Stored
  <2>6. QED
    BY <1>2, <2>2, <2>3, <2>4, <2>5
<1>7. Torn'
  <2>1. SUFFICES ASSUME NEW f \in damaged'
                 PROVE  \E i \in 1..Parts[f] : Missing(f, Frag(f, i))'
    BY DEF Torn
  <2>2. CASE f \in damaged
    <3>1. PICK i \in 1..Parts[f] : Missing(f, Frag(f, i))
      BY <2>2 DEF ChanInv, Torn
    <3>2. Frag(f, i) \in Fragments
      BY <2>2, FragFields DEF ChanInv, ChanTypes
    <3>3. QED
      BY <1>3, <3>1, <3>2 DEF Missing
  <2>3. CASE f = d.frame
    <3>1. d.idx \in 1..Parts[f] /\ Frag(f, d.idx) = d
      BY <1>2, <2>3, Numbers
    <3>2. Missing(f, d)'
      BY <1>2, <1>3 DEF Missing
    <3>3. QED
      BY <3>1, <3>2
  <2>4. QED
    BY <2>1, <2>2, <2>3
<1>8. QED
  BY <1>4, <1>5, <1>6, <1>7

-----------------------------------------------------------------------------
(* The frame stream's state. *)
LEMMA Mapped ==
    ASSUME ChanTypes
    PROVE  /\ Stream!LastPts = LastOut
           /\ Stream!Frames = Frames
<1> DEFINE q == [n \in 1..Len(out) |-> View(out[n])]
<1>1. out \in Seq(EmittedFrame) /\ Len(out) \in Nat
  BY DEF ChanTypes, TypeOK
<1>2. Len(q) = Len(out) /\ \A n \in 1..Len(out) : q[n] = View(out[n])
  BY <1>1
<1>3. q = <<>> <=> out = <<>>
  BY <1>1
<1>4. out # <<>> => q[Len(q)].pts = out[Len(out)].pts
  <2>1. out # <<>> => Len(out) \in 1..Len(out)
    BY <1>1
  <2>2. QED
    BY <1>2, <2>1 DEF View
<1>5. Stream!LastPts = IF q = <<>> THEN 0 ELSE q[Len(q)].pts
  BY DEF Stream!LastPts
<1>6. QED
  BY <1>3, <1>4, <1>5 DEF LastOut, Stream!Frames, Frames

(* The end of frame f = FrameOf(d): the frames before it that were not     *)
(* emitted are damaged, and what is emitted is f if and only if f is not.  *)
LEMMA EmitsWhole ==
    ASSUME ChanInv, NEW d, IsNext(d), Accepted(d), FLAG_EOF(d)
    PROVE  /\ (LastOut + 1)..(FrameOf(d) - 1) \subseteq damaged
           /\ (Append(BufAt(d), d) = FrameSeq(FrameOf(d))) <=> FrameOf(d) \notin damaged
<1> DEFINE g == FrameOf(d)
           data == Append(BufAt(d), d)
<1>1. /\ d \in Fragments /\ d.frame \in Frames /\ InLine(d)
      /\ g \in Frames /\ g \in Nat /\ g <= d.frame /\ LastOut < g
      /\ FLAG_SOF(d) => g = d.frame /\ BufAt(d) = <<>>
      /\ ~FLAG_SOF(d) => have_frame /\ g = cur_frame /\ BufAt(d) = buf
  BY Reading
<1>2. /\ d.frame \in Nat /\ d.idx \in 1..Parts[d.frame] /\ d = Frag(d.frame, d.idx)
      /\ LastOut \in 0..NFrames /\ d.idx = Parts[d.frame] /\ Parts[g] \in Nat \ {0}
  BY <1>1, Numbers, LastOutIs DEF ChanInv, FLAG_EOF
<1>3. BufAt(d) \in Seq(Fragments) /\ buf \in Seq(Fragments)
  <2>1. TypeOK
    BY DEF ChanInv, ChanTypes
  <2>2. BufAt(d) \in Seq(Fragments)
    BY <1>1, <2>1, AppendTypes
  <2>3. QED
    BY <2>1, <2>2 DEF TypeOK
<1>4. \A e : In(e, data) <=> In(e, BufAt(d)) \/ e = d
  BY <1>1, <1>3, EndOf
<1>5. /\ data \in Seq(Fragments) /\ Len(data) = Len(BufAt(d)) + 1
      /\ \A i \in 1..Len(data) : data[i] = IF i <= Len(BufAt(d)) THEN BufAt(d)[i] ELSE d
  BY <1>1, <1>3
<1> HIDE DEF g, data
<1>6. ASSUME NEW f \in (LastOut + 1)..(g - 1) PROVE f \in damaged
  <2>1. SUFFICES ASSUME f \notin damaged PROVE FALSE
    OBVIOUS
  <2>2. f \in Frames /\ LastOut < f /\ f < g /\ f \in Nat
    <3>1. g \in 1..NFrames /\ NFrames \in Nat
      BY <1>1, Numbers DEF Frames
    <3>2. QED
      BY <1>2, <3>1 DEF Frames
  <2>3. d.frame <= f
    BY <2>1, <2>2, Due DEF Clean
  <2>4. QED
    BY <1>1, <1>2, <2>2, <2>3
<1>7. ASSUME g \in damaged PROVE data # FrameSeq(g)
  <2>1. PICK i \in 1..Parts[g] : Missing(g, Frag(g, i))
    BY <1>7 DEF ChanInv, Torn
  <2>2. ~In(Frag(g, i), data)
    <3>1. Frag(g, i) # d
      BY <1>1, <2>1 DEF Missing
    <3>2. ~In(Frag(g, i), BufAt(d))
      BY <1>1, <2>1 DEF Missing, Stored, In
    <3>3. QED
      BY <1>4, <3>1, <3>2
  <2>3. In(Frag(g, i), FrameSeq(g))
    BY <1>2 DEF In, FrameSeq
  <2>4. QED
    BY <2>2, <2>3
<1>8. ASSUME g \notin damaged PROVE data = FrameSeq(g)
  <2>1. Clean(g)
    BY <1>1, <1>8 DEF Clean
  <2>2. have_frame /\ cur_frame = g => d.frame = g /\ d.idx = Len(buf) + 1
    BY <1>1, <2>1, Due
  <2>3. FrameSeq(g) = [i \in 1..Parts[g] |-> Frag(g, i)]
    BY DEF FrameSeq
  <2>4. CASE FLAG_SOF(d)
    <3>1. d.frame = g /\ d.idx = 1 /\ Parts[g] = 1 /\ d = Frag(g, 1) /\ Len(BufAt(d)) = 0
      BY <1>1, <1>2, <2>4 DEF FLAG_SOF
    <3>2. Len(data) = 1 /\ data[1] = Frag(g, 1)
      BY <1>5, <3>1
    <3>3. QED
      BY <1>5, <2>3, <3>1, <3>2
  <2>5. CASE ~FLAG_SOF(d)
    <3>1. have_frame /\ cur_frame = g /\ BufAt(d) = buf /\ d.frame = g /\ d.idx = Len(buf) + 1
      BY <1>1, <2>2, <2>5
    <3>2. Len(buf) \in Nat /\ buf = Prefix(g, Len(buf)) /\ Parts[g] = Len(buf) + 1
      BY <1>1, <1>2, <1>3, <2>1, <3>1 DEF ChanInv, Untouched
    <3>3. \A i \in 1..Len(buf) : buf[i] = Frag(g, i)
      BY <3>2 DEF Prefix
    <3>4. Len(data) = Parts[g] /\ \A i \in 1..Parts[g] : data[i] = Frag(g, i)
      BY <1>2, <1>5, <3>1, <3>2, <3>3
    <3>5. QED
      BY <1>5, <2>3, <3>4
  <2>6. QED
    BY <2>4, <2>5
<1>9. QED
  BY <1>6, <1>7, <1>8 DEF g, data

LEMMA AppendElements ==
    ASSUME NEW S, NEW s \in Seq(S), NEW e \in S
    PROVE  /\ Append(s, e) \in Seq(S) /\ Append(s, e) # <<>>
           /\ Len(s) \in Nat /\ Len(Append(s, e)) = Len(s) + 1
           /\ \A n \in 1..(Len(s) + 1) : Append(s, e)[n] = IF n <= Len(s) THEN s[n] ELSE e
OBVIOUS

LEMMA EmitMapped ==
    ASSUME ChanInv, NEW d, IsNext(d), FeedAppended(d), FLAG_EOF(d),
           UNCHANGED <<hostNext, damaged>>
    PROVE  /\ Stream!Next
           /\ LastOut' = FrameOf(d) /\ have_frame' = FALSE /\ cur_frame' = FrameOf(d)
<1> DEFINE g == FrameOf(d)
           v == [pts |-> g, intact |-> g \notin damaged]
           q == [n \in 1..Len(out) |-> View(out[n])]
           r == [n \in 1..Len(out') |-> View(out'[n])]
<1>1. Accepted(d) /\ d \in Fragments
  BY DEF FeedAppended, IsNext
<1>2. Completes(d)
  <2>1. BuflenAt(d) \in Nat /\ PLen[d] \in Nat /\ PLen[d] > 0
    BY <1>1, AppendTypes, ChannelAssumption DEF ChanInv, ChanTypes
  <2>2. QED
    BY <2>1 DEF Completes
<1>3. /\ cur_frame' = g /\ have_frame' = FALSE /\ out' = Append(out, Emitted(d))
  BY <1>2 DEF FeedAppended
<1>4. /\ out \in Seq(EmittedFrame) /\ Emitted(d) \in EmittedFrame /\ Len(out) \in Nat
      /\ Emitted(d) = [pts |-> g, data |-> Append(BufAt(d), d)]
  BY <1>1, AppendTypes DEF ChanInv, ChanTypes, TypeOK, Emitted
<1>5. /\ out' \in Seq(EmittedFrame) /\ Len(out') = Len(out) + 1 /\ out' # <<>>
      /\ \A n \in 1..(Len(out) + 1) : out'[n] = IF n <= Len(out) THEN out[n] ELSE Emitted(d)
  BY <1>3, <1>4, AppendElements
<1>6. LastOut' = g
  <2>1. Len(out) + 1 \in 1..(Len(out) + 1) /\ ~(Len(out) + 1 <= Len(out))
    BY <1>4
  <2>2. out'[Len(out')] = Emitted(d)
    BY <1>5, <2>1
  <2>3. Emitted(d).pts = g
    BY <1>4
  <2>4. QED
    BY <1>5, <2>2, <2>3 DEF LastOut
<1>7. /\ g \in Frames /\ g \in Nat /\ LastOut < g /\ g <= d.frame /\ d.frame < hostNext.frame
  BY <1>1, Reading
<1>8. View(Emitted(d)) = v
  <2>1. (Append(BufAt(d), d) = FrameSeq(g)) <=> g \notin damaged
    BY <1>1, EmitsWhole
  <2>2. View(Emitted(d)) = [pts |-> g, intact |-> Append(BufAt(d), d) = FrameSeq(g)]
    BY <1>4 DEF View
  <2>3. (Append(BufAt(d), d) = FrameSeq(g)) = (g \notin damaged)
    BY <2>1
  <2>4. QED
    BY <2>2, <2>3
<1>9. r = Append(q, v)
  <2> DEFINE V == { View(e) : e \in EmittedFrame } \cup {v}
  <2>1. /\ q \in Seq(V) /\ Len(q) = Len(out)
        /\ \A n \in 1..Len(out) : q[n] = View(out[n])
    BY <1>4
  <2>2. /\ r \in Seq(V) /\ Len(r) = Len(out) + 1
        /\ \A n \in 1..(Len(out) + 1) : r[n] = IF n <= Len(out) THEN View(out[n]) ELSE v
    <3>1. \A n \in 1..(Len(out) + 1) : /\ View(out'[n]) = IF n <= Len(out) THEN View(out[n]) ELSE v
                                       /\ View(out'[n]) \in V
      <4>1. SUFFICES ASSUME NEW n \in 1..(Len(out) + 1)
                     PROVE  /\ View(out'[n]) = IF n <= Len(out) THEN View(out[n]) ELSE v
                            /\ View(out'[n]) \in V
        OBVIOUS
      <4>2. CASE n <= Len(out)
        <5>1. n \in 1..Len(out) /\ out'[n] = out[n] /\ out[n] \in EmittedFrame
          BY <1>4, <1>5, <4>2
        <5>2. QED
          BY <4>2, <5>1
      <4>3. CASE ~(n <= Len(out))
        BY <1>5, <1>8, <4>3
      <4>4. QED
        BY <4>2, <4>3
    <3>2. r = [n \in 1..(Len(out) + 1) |-> View(out'[n])]
      BY <1>5
    <3>3. Len(out) + 1 \in Nat
      BY <1>4
    <3>4. QED
      BY <3>1, <3>2, <3>3
  <2>3. v \in V
    OBVIOUS
  <2> HIDE DEF q, r, v, V
  <2>4. /\ Append(q, v) \in Seq(V) /\ Len(Append(q, v)) = Len(out) + 1
        /\ \A n \in 1..(Len(out) + 1) : Append(q, v)[n] = IF n <= Len(out) THEN View(out[n]) ELSE v
    BY <1>4, <2>1, <2>3
  <2>5. QED
    BY <1>4, <2>2, <2>4
<1>10. Stream!LastPts = LastOut /\ Stream!Frames = Frames
  BY Mapped DEF ChanInv
<1>11. g \in (LastOut + 1)..(hostNext.frame - 1)
  <2>1. LastOut \in Nat /\ d.frame \in Nat /\ hostNext.frame \in Nat
    BY <1>1, Numbers, LastOutIs DEF ChanInv, ChanTypes
  <2>2. QED
    BY <1>7, <2>1
<1>12. (LastOut + 1)..(g - 1) \subseteq damaged
  BY <1>1, EmitsWhole
<1>13. hostNext'.frame - 1 = hostNext.frame - 1 /\ damaged' = damaged
  OBVIOUS
<1>14. Stream!Emit(g)
  BY <1>9, <1>10, <1>11, <1>12, <1>13 DEF Stream!Emit
<1>15. QED
  BY <1>3, <1>6, <1>7, <1>10, <1>14 DEF Stream!Next

-----------------------------------------------------------------------------
(* What each step does to the datagrams under way. *)
LEMMA LoseLine ==
    ASSUME ChanInv, NEW i \in 1..Len(wire), NetLose(i)
    PROVE  /\ Line' /\ wire' \in Seq(Fragments) /\ sock' \in Seq(Fragments)
           /\ wire[i] \in Fragments /\ InLine(wire[i])
           /\ \A d \in Fragments : InLine(d)' <=> InLine(d) /\ d # wire[i]
<1>1. wire \in Seq(Fragments) /\ sock \in Seq(Fragments) /\ Ascending(wire)
  BY DEF ChanInv, ChanTypes, Line
<1>2. /\ wire' = [j \in 1..(Len(wire) - 1) |-> IF j < i THEN wire[j] ELSE wire[j + 1]]
      /\ sock' = sock /\ hostNext' = hostNext
  BY DEF NetLose
<1>3. /\ wire' \in Seq(Fragments) /\ Ascending(wire')
      /\ wire[i] \in Fragments /\ In(wire[i], wire)
      /\ \A d : In(d, wire') <=> In(d, wire) /\ d # wire[i]
  <2> DEFINE t == [j \in 1..(Len(wire) - 1) |-> IF j < i THEN wire[j] ELSE wire[j + 1]]
  <2>1. /\ t \in Seq(Fragments) /\ Ascending(t)
        /\ wire[i] \in Fragments /\ In(wire[i], wire)
        /\ \A d : In(d, t) <=> In(d, wire) /\ d # wire[i]
    BY <1>1, RemoveFrom, Zenon
  <2>2. wire' = t
    BY <1>2
  <2> HIDE DEF t
  <2>3. QED
    BY <2>1, <2>2
<1>4. \A d : In(d, sock)' <=> In(d, sock)
  BY <1>2 DEF In
<1>5. \A d \in Fragments : In(d, sock) => d # wire[i]
  BY <1>3, Order DEF ChanInv, Line
<1>6. \A d \in Fragments : InLine(d)' <=> InLine(d) /\ d # wire[i]
  BY <1>3, <1>4, <1>5 DEF InLine
<1>7. Line'
  <2>1. Ascending(sock') /\ \A d : Sent(d)' <=> Sent(d)
    BY <1>2 DEF ChanInv, Line, Sent
  <2>2. \A d, e \in Fragments : In(d, sock') /\ In(e, wire') => Before(d, e)
    BY <1>2, <1>3 DEF ChanInv, Line
  <2>3. \A d \in Fragments : InLine(d)' => Sent(d)'
    BY <1>6, <2>1 DEF ChanInv, Line
  <2>4. QED
    BY <1>3, <2>1, <2>2, <2>3 DEF Line
<1>8. QED
  BY <1>1, <1>2, <1>3, <1>6, <1>7 DEF InLine

LEMMA PumpLine ==
    ASSUME ChanInv, sock # <<>>, sock' = Tail(sock), UNCHANGED <<hostNext, wire>>
    PROVE  /\ IsNext(Head(sock)) /\ Head(sock) \in Fragments
           /\ Line' /\ wire' \in Seq(Fragments) /\ sock' \in Seq(Fragments)
           /\ \A d \in Fragments : InLine(d)' <=> InLine(d) /\ d # Head(sock)
<1> DEFINE h == Head(sock)
<1>1. wire \in Seq(Fragments) /\ sock \in Seq(Fragments) /\ Ascending(sock)
  BY DEF ChanInv, ChanTypes, Line
<1>2. /\ h \in Fragments /\ In(h, sock)
      /\ sock' \in Seq(Fragments) /\ Ascending(sock')
      /\ \A d : In(d, sock) <=> d = h \/ In(d, sock')
      /\ \A d \in Fragments : In(d, sock') => Before(h, d)
  BY <1>1, HeadOf
<1> HIDE DEF h
<1>3. \A d : In(d, wire)' <=> In(d, wire)
  BY DEF In
<1>4. \A d \in Fragments : In(d, wire) => Before(h, d)
  BY <1>2 DEF ChanInv, Line
<1>5. \A d \in Fragments : InLine(d) /\ d # h => Before(h, d)
  BY <1>2, <1>4 DEF InLine
<1>6. \A d \in Fragments : InLine(d)' <=> InLine(d) /\ d # h
  <2>1. \A d \in Fragments : In(d, sock') \/ In(d, wire) => d # h
    BY <1>2, <1>4, Order
  <2>2. QED
    BY <1>2, <1>3, <2>1 DEF InLine
<1>7. Line'
  <2>1. Ascending(wire') /\ \A d : Sent(d)' <=> Sent(d)
    BY DEF ChanInv, Line, Sent
  <2>2. \A d, e \in Fragments : In(d, sock') /\ In(e, wire') => Before(d, e)
    BY <1>2 DEF ChanInv, Line
  <2>3. \A d \in Fragments : InLine(d)' => Sent(d)'
    BY <1>6, <2>1 DEF ChanInv, Line
  <2>4. QED
    BY <1>2, <2>1, <2>2, <2>3 DEF Line
<1>8. QED
  BY <1>1, <1>2, <1>5, <1>6, <1>7 DEF h, IsNext, InLine

(* Head(wire) reaches a socket that has no room, or is not there. *)
LEMMA RefusedLine ==
    ASSUME ChanInv, wire # <<>>, wire' = Tail(wire), UNCHANGED <<hostNext, sock>>
    PROVE  /\ Head(wire) \in Fragments /\ InLine(Head(wire))
           /\ Line' /\ wire' \in Seq(Fragments) /\ sock' \in Seq(Fragments)
           /\ \A d \in Fragments : InLine(d)' <=> InLine(d) /\ d # Head(wire)
<1> DEFINE h == Head(wire)
<1>1. wire \in Seq(Fragments) /\ sock \in Seq(Fragments) /\ Ascending(wire)
  BY DEF ChanInv, ChanTypes, Line
<1>2. /\ h \in Fragments /\ In(h, wire)
      /\ wire' \in Seq(Fragments) /\ Ascending(wire')
      /\ \A d : In(d, wire) <=> d = h \/ In(d, wire')
      /\ \A d \in Fragments : In(d, wire') => Before(h, d)
  BY <1>1, HeadOf
<1> HIDE DEF h
<1>3. \A d : In(d, sock)' <=> In(d, sock)
  BY DEF In
<1>4. \A d \in Fragments : InLine(d)' <=> InLine(d) /\ d # h
  <2>1. \A d \in Fragments : In(d, sock) \/ In(d, wire') => d # h
    BY <1>2, Order DEF ChanInv, Line
  <2>2. QED
    BY <1>2, <1>3, <2>1 DEF InLine
<1>5. Line'
  <2>1. Ascending(sock') /\ \A d : Sent(d)' <=> Sent(d)
    BY DEF ChanInv, Line, Sent
  <2>2. \A d, e \in Fragments : In(d, sock') /\ In(e, wire') => Before(d, e)
    BY <1>2 DEF ChanInv, Line
  <2>3. \A d \in Fragments : InLine(d)' => Sent(d)'
    BY <1>4, <2>1 DEF ChanInv, Line
  <2>4. QED
    BY <1>2, <2>1, <2>2, <2>3 DEF Line
<1>6. QED
  BY <1>1, <1>2, <1>4, <1>5 DEF h, InLine

(* It reaches one that takes it. *)
LEMMA StoredLine ==
    ASSUME ChanInv, wire # <<>>, wire' = Tail(wire), sock' = Append(sock, Head(wire)),
           UNCHANGED hostNext
    PROVE  /\ Line' /\ wire' \in Seq(Fragments) /\ sock' \in Seq(Fragments)
           /\ \A d : InLine(d)' <=> InLine(d)
<1> DEFINE h == Head(wire)
<1>1. /\ wire \in Seq(Fragments) /\ sock \in Seq(Fragments)
      /\ Ascending(wire) /\ Ascending(sock)
  BY DEF ChanInv, ChanTypes, Line
<1>2. /\ h \in Fragments /\ In(h, wire)
      /\ wire' \in Seq(Fragments) /\ Ascending(wire')
      /\ \A d : In(d, wire) <=> d = h \/ In(d, wire')
      /\ \A d \in Fragments : In(d, wire') => Before(h, d)
  BY <1>1, HeadOf
<1>3. sock' = Append(sock, h)
  OBVIOUS
<1> HIDE DEF h
<1>4. \A d \in Fragments : In(d, sock) => Before(d, h)
  BY <1>2 DEF ChanInv, Line
<1>5. /\ sock' \in Seq(Fragments) /\ Ascending(sock')
      /\ \A d : In(d, sock') <=> In(d, sock) \/ d = h
  BY <1>1, <1>2, <1>3, <1>4, EndOf
<1>6. \A d : InLine(d)' <=> InLine(d)
  BY <1>2, <1>5 DEF InLine
<1>7. Line'
  <2>1. \A d : Sent(d)' <=> Sent(d)
    BY DEF Sent
  <2>2. \A d, e \in Fragments : In(d, sock') /\ In(e, wire') => Before(d, e)
    BY <1>2, <1>5 DEF ChanInv, Line
  <2>3. \A d \in Fragments : InLine(d)' => Sent(d)'
    BY <1>6, <2>1 DEF ChanInv, Line
  <2>4. QED
    BY <1>2, <1>5, <2>2, <2>3 DEF Line
<1>8. QED
  BY <1>2, <1>5, <1>6, <1>7

LEMMA QuietKeeps ==
    ASSUME ChanInv, UNCHANGED <<vars, hostNext, damaged>>, \A d : InLine(d)' <=> InLine(d)
    PROVE  (Ahead /\ Collected /\ Untouched /\ Torn)'
<1>1. /\ LastOut' = LastOut /\ have_frame' = have_frame /\ cur_frame' = cur_frame /\ buf' = buf
      /\ \A d : (Sent(d)' <=> Sent(d)) /\ (Stored(d)' <=> Stored(d)) /\ (Clean(d)' <=> Clean(d))
  BY DEF vars, LastOut, Sent, Stored, In, Clean
<1>2. Ahead'
  BY <1>1 DEF ChanInv, Ahead
<1>3. Collected'
  BY <1>1 DEF ChanInv, Collected
<1>4. Untouched'
  BY <1>1 DEF ChanInv, Untouched
<1>5. Torn'
  BY <1>1 DEF ChanInv, Torn, Missing
<1>6. QED
  BY <1>2, <1>3, <1>4, <1>5

-----------------------------------------------------------------------------
(* The decoder's side of the frame stream does not move when out does not. *)
LEMMA OutKept ==
    ASSUME out' = out, UNCHANGED <<hostNext, damaged>>
    PROVE  UNCHANGED Stream!fvars
  BY DEF Stream!fvars

LEMMA DamageMapped ==
    ASSUME ChanTypes, out' = out, hostNext' = hostNext, NEW f \in Frames, LastOut < f,
           damaged' = damaged \cup {f}
    PROVE  Stream!Next
<1>1. Stream!LastPts = LastOut /\ Stream!Frames = Frames
  BY Mapped
<1>2. Stream!Damage(f)
  BY <1>1 DEF Stream!Damage
<1>3. QED
  BY <1>1, <1>2 DEF Stream!Next

LEMMA HostSendMapped ==
    ASSUME ChanInv, HostSend
    PROVE  Stream!Next \/ UNCHANGED Stream!fvars
<1>1. hostNext \in Fragments /\ hostNext.frame \in Nat /\ NFrames \in Nat
  BY HostSends, Numbers DEF ChanInv
<1>2. out' = out /\ damaged' = damaged /\ hostNext.frame <= NFrames
  BY DEF HostSend, vars
<1>3. CASE FLAG_EOF(hostNext)
  <2>1. hostNext'.frame = hostNext.frame + 1
    BY <1>3 DEF HostSend, Frag
  <2>2. hostNext'.frame - 1 = (hostNext.frame - 1) + 1 /\ hostNext.frame - 1 < NFrames
    BY <1>1, <1>2, <2>1
  <2>3. Stream!Send
    BY <1>2, <2>2 DEF Stream!Send
  <2>4. QED
    BY <2>3 DEF Stream!Next
<1>4. CASE ~FLAG_EOF(hostNext)
  <2>1. hostNext'.frame = hostNext.frame
    BY <1>4 DEF HostSend, Frag
  <2>2. QED
    BY <1>2, <2>1 DEF Stream!fvars
<1>5. QED
  BY <1>3, <1>4

-----------------------------------------------------------------------------
(* Each step keeps the invariant and is one of the frame stream or none. *)
LEMMA NetLoseStep ==
    ASSUME ChanInv, NEW i \in 1..Len(wire), NetLose(i)
    PROVE  ChanInv' /\ Stream!Next
<1>1. /\ UNCHANGED <<vars, hostNext>> /\ damaged' = damaged \cup {wire[i].frame} /\ out' = out
  BY DEF NetLose, vars
<1>2. /\ Line' /\ wire' \in Seq(Fragments) /\ sock' \in Seq(Fragments)
      /\ wire[i] \in Fragments /\ InLine(wire[i])
      /\ \A d \in Fragments : InLine(d)' <=> InLine(d) /\ d # wire[i]
  BY LoseLine
<1>3. (Ahead /\ Collected /\ Untouched /\ Torn)' /\ LastOut < wire[i].frame
  BY <1>1, <1>2, LostKeeps
<1>4. wire[i].frame \in Frames
  BY <1>2, Numbers
<1>5. ChanTypes'
  <2>1. TypeOK'
    BY <1>1 DEF ChanInv, ChanTypes, TypeOK, vars
  <2>2. QED
    BY <1>1, <1>2, <1>4, <2>1 DEF ChanInv, ChanTypes
<1>6. Stream!Next
  BY <1>1, <1>3, <1>4, DamageMapped DEF ChanInv
<1>7. QED
  BY <1>2, <1>3, <1>5, <1>6 DEF ChanInv

LEMMA ArriveStep ==
    ASSUME ChanInv, Arrive
    PROVE  ChanInv' /\ (Stream!Next \/ UNCHANGED Stream!fvars)
<1>1. /\ UNCHANGED <<vars, hostNext>> /\ out' = out /\ wire # <<>> /\ wire' = Tail(wire)
  BY DEF Arrive, vars
<1>2. TypeOK'
  BY <1>1 DEF ChanInv, ChanTypes, TypeOK, vars
<1>3. CASE sock' = Append(sock, Head(wire)) /\ damaged' = damaged
  <2>1. /\ Line' /\ wire' \in Seq(Fragments) /\ sock' \in Seq(Fragments)
        /\ \A d : InLine(d)' <=> InLine(d)
    BY <1>1, <1>3, StoredLine
  <2>2. (Ahead /\ Collected /\ Untouched /\ Torn)'
    BY <1>1, <1>3, <2>1, QuietKeeps
  <2>3. ChanTypes'
    BY <1>1, <1>2, <1>3, <2>1 DEF ChanInv, ChanTypes
  <2>4. UNCHANGED Stream!fvars
    BY <1>1, <1>3, OutKept
  <2>5. QED
    BY <2>1, <2>2, <2>3, <2>4 DEF ChanInv
<1>4. CASE sock' = sock /\ damaged' = damaged \cup {Head(wire).frame}
  <2>1. /\ Head(wire) \in Fragments /\ InLine(Head(wire))
        /\ Line' /\ wire' \in Seq(Fragments) /\ sock' \in Seq(Fragments)
        /\ \A d \in Fragments : InLine(d)' <=> InLine(d) /\ d # Head(wire)
    BY <1>1, <1>4, RefusedLine
  <2>2. (Ahead /\ Collected /\ Untouched /\ Torn)' /\ LastOut < Head(wire).frame
    BY <1>1, <1>4, <2>1, LostKeeps
  <2>3. Head(wire).frame \in Frames
    BY <2>1, Numbers
  <2>4. ChanTypes'
    BY <1>1, <1>2, <1>4, <2>1, <2>3 DEF ChanInv, ChanTypes
  <2>5. Stream!Next
    BY <1>1, <1>4, <2>2, <2>3, DamageMapped DEF ChanInv
  <2>6. QED
    BY <2>1, <2>2, <2>4, <2>5 DEF ChanInv
<1>5. QED
  BY <1>3, <1>4 DEF Arrive

LEMMA PumpStoredStep ==
    ASSUME ChanInv, PumpStored
    PROVE  ChanInv' /\ (Stream!Next \/ UNCHANGED Stream!fvars)
<1> DEFINE d == Head(sock)
<1>1. /\ UNCHANGED <<hostNext, wire, damaged>> /\ sock # <<>> /\ sock' = Tail(sock)
      /\ FeedIgnored(d) \/ FeedAppended(d)
  BY DEF PumpStored
<1>2. /\ IsNext(d) /\ d \in Fragments
      /\ Line' /\ wire' \in Seq(Fragments) /\ sock' \in Seq(Fragments)
      /\ \A e \in Fragments : InLine(e)' <=> InLine(e) /\ e # d
  BY <1>1, PumpLine
<1> HIDE DEF d
<1>3. ChanTypes'
  <2>1. TypeOK
    BY DEF ChanInv, ChanTypes
  <2>2. TypeOK'
    BY <1>1, <1>2, <2>1, FeedTypes DEF Feed
  <2>3. QED
    BY <1>1, <1>2, <2>2 DEF ChanInv, ChanTypes
<1>4. /\ (Ahead /\ Collected /\ Untouched /\ Torn)'
      /\ Stream!Next \/ UNCHANGED Stream!fvars
  <2>1. CASE FeedIgnored(d)
    <3>1. out' = out
      BY <2>1 DEF FeedIgnored
    <3>2. (Ahead /\ Collected /\ Untouched /\ Torn)'
      BY <1>1, <1>2, <2>1, IgnoredKeeps
    <3>3. UNCHANGED Stream!fvars
      BY <1>1, <3>1, OutKept
    <3>4. QED
      BY <3>2, <3>3
  <2>2. CASE FeedAppended(d) /\ ~FLAG_EOF(d)
    <3>1. out' = out
      BY <2>2 DEF FeedAppended, Completes
    <3>2. (Ahead /\ Collected /\ Untouched /\ Torn)'
      BY <1>1, <1>2, <2>2, AppendedKeeps
    <3>3. UNCHANGED Stream!fvars
      BY <1>1, <3>1, OutKept
    <3>4. QED
      BY <3>2, <3>3
  <2>3. CASE FeedAppended(d) /\ FLAG_EOF(d)
    <3>1. /\ Stream!Next
          /\ LastOut' = FrameOf(d) /\ have_frame' = FALSE /\ cur_frame' = FrameOf(d)
      BY <1>1, <1>2, <2>3, EmitMapped
    <3>2. Accepted(d)
      BY <2>3 DEF FeedAppended
    <3>3. (Ahead /\ Collected /\ Untouched /\ Torn)'
      BY <1>1, <1>2, <2>3, <3>1, <3>2, CompletedKeeps
    <3>4. QED
      BY <3>1, <3>3
  <2>4. QED
    BY <1>1, <2>1, <2>2, <2>3
<1>5. QED
  BY <1>2, <1>3, <1>4 DEF ChanInv

LEMMA PumpOutOfMemoryStep ==
    ASSUME ChanInv, PumpOutOfMemory
    PROVE  ChanInv' /\ Stream!Next
<1> DEFINE d == Head(sock)
<1>1. /\ UNCHANGED <<hostNext, wire>> /\ sock # <<>> /\ sock' = Tail(sock)
      /\ FeedOutOfMemory(d) /\ damaged' = damaged \cup {d.frame}
  BY DEF PumpOutOfMemory
<1>2. /\ IsNext(d) /\ d \in Fragments
      /\ Line' /\ wire' \in Seq(Fragments) /\ sock' \in Seq(Fragments)
      /\ \A e \in Fragments : InLine(e)' <=> InLine(e) /\ e # d
  BY <1>1, PumpLine
<1> HIDE DEF d
<1>3. d.frame \in Frames /\ LastOut < d.frame
  BY <1>2, Numbers DEF IsNext, ChanInv, Ahead
<1>4. ChanTypes'
  <2>1. TypeOK
    BY DEF ChanInv, ChanTypes
  <2>2. TypeOK'
    BY <1>1, <1>2, <2>1, FeedTypes DEF Feed
  <2>3. QED
    BY <1>1, <1>2, <1>3, <2>2 DEF ChanInv, ChanTypes
<1>5. (Ahead /\ Collected /\ Untouched /\ Torn)'
  BY <1>1, <1>2, OutOfMemoryKeeps
<1>6. Stream!Next
  <2>1. out' = out
    BY <1>1 DEF FeedOutOfMemory
  <2>2. QED
    BY <1>1, <1>3, <2>1, DamageMapped DEF ChanInv
<1>7. QED
  BY <1>2, <1>4, <1>5, <1>6 DEF ChanInv

(* Binding the socket, and a step that changes nothing. *)
LEMMA QuietStep ==
    ASSUME ChanInv, UNCHANGED <<vars, hostNext, wire, sock, damaged>>
    PROVE  ChanInv' /\ UNCHANGED Stream!fvars
<1>1. \A d : (InLine(d)' <=> InLine(d)) /\ (Sent(d)' <=> Sent(d))
  BY DEF InLine, In, Sent
<1>2. (Ahead /\ Collected /\ Untouched /\ Torn)'
  BY <1>1, QuietKeeps
<1>3. Line'
  BY <1>1 DEF ChanInv, Line
<1>4. TypeOK'
  BY DEF ChanInv, ChanTypes, TypeOK, vars
<1>5. ChanTypes'
  BY <1>4 DEF ChanInv, ChanTypes
<1>6. UNCHANGED Stream!fvars
  BY OutKept DEF vars
<1>7. QED
  BY <1>2, <1>3, <1>5, <1>6 DEF ChanInv

LEMMA ChanStep ==
    ASSUME ChanInv, [ChanNext]_allVars
    PROVE  ChanInv' /\ (Stream!Next \/ UNCHANGED Stream!fvars)
<1>1. CASE HostSend
  BY <1>1, HostSendKeeps, HostSendMapped
<1>2. ASSUME NEW i \in 1..Len(wire), NetLose(i)
      PROVE  ChanInv' /\ Stream!Next
  BY <1>2, NetLoseStep
<1>3. CASE Bind
  BY <1>3, QuietStep DEF Bind
<1>4. CASE Arrive
  BY <1>4, ArriveStep
<1>5. CASE PumpStored
  BY <1>5, PumpStoredStep
<1>6. CASE PumpOutOfMemory
  BY <1>6, PumpOutOfMemoryStep
<1>7. CASE UNCHANGED allVars
  BY <1>7, QuietStep DEF allVars, chanVars
<1>8. QED
  BY <1>1, <1>2, <1>3, <1>4, <1>5, <1>6, <1>7 DEF ChanNext

LEMMA ChanStart == ASSUME ChanInit PROVE ChanInv /\ Stream!Init
<1>1. /\ hostNext = [frame |-> 1, idx |-> 1] /\ wire = <<>> /\ sock = <<>> /\ damaged = {}
      /\ have_frame = FALSE /\ out = <<>>
  BY DEF ChanInit, Init, Frag
<1>2. TypeOK
  BY TypesInit DEF ChanInit
<1>3. ChanTypes
  <2>1. 1 <= NFrames => 1 \in Frames
    BY Numbers DEF Frames
  <2>2. 1 <= NFrames => 1 <= Parts[1]
    BY <2>1, Numbers
  <2>3. hostNext \in [frame : 1..(NFrames + 1), idx : Nat \ {0}]
    BY <1>1, Numbers
  <2>4. QED
    BY <1>1, <1>2, <2>2, <2>3 DEF ChanTypes
<1>4. \A d \in Fragments : ~Sent(d) /\ ~InLine(d) /\ ~Stored(d)
  <2>1. \A d \in Fragments : ~InLine(d) /\ ~Stored(d)
    BY <1>1 DEF InLine, In, Stored
  <2>2. \A d \in Fragments : ~Sent(d)
    BY <1>1, Numbers DEF Sent, Before
  <2>3. QED
    BY <2>1, <2>2
<1>5. Line
  BY <1>1, <1>4 DEF Line, Ascending, In
<1>6. LastOut = 0
  BY <1>1 DEF LastOut
<1>7. Ahead
  BY <1>1, <1>4, <1>6 DEF Ahead
<1>8. Collected /\ Torn
  BY <1>1, <1>4 DEF Collected, Torn
<1>9. Untouched
  BY <1>1, <1>4, FragFields DEF Untouched
<1>10. Stream!Init
  BY <1>1 DEF Stream!Init
<1>11. QED
  BY <1>3, <1>5, <1>7, <1>8, <1>9, <1>10 DEF ChanInv

-----------------------------------------------------------------------------
(* The reassembler keeps its types when it is fed by the socket.  *)
THEOREM ChannelTypeCorrect == ChanSpec => []TypeOK
<1>1. ChanInit => ChanInv
  BY ChanStart
<1>2. ChanInv /\ [ChanNext]_allVars => ChanInv'
  BY ChanStep
<1>3. ChanInv => TypeOK
  BY DEF ChanInv, ChanTypes
<1>4. QED
  BY <1>1, <1>2, <1>3, PTL DEF ChanSpec

(* The receive path (session_pump and reasm_feed behind a lossy network    *)
(* and a finite socket) is a frame stream: whatever is lost, frames come   *)
(* out in order, none twice, a frame is skipped only if a datagram of it   *)
(* was lost, and is handed on intact if and only if none was.              *)
THEOREM StreamImplemented == ChanSpec => Stream!Init /\ [][Stream!Next]_(Stream!fvars)
<1>1. ChanInit => ChanInv /\ Stream!Init
  BY ChanStart
<1>2. ChanInv /\ [ChanNext]_allVars => ChanInv' /\ [Stream!Next]_(Stream!fvars)
  BY ChanStep
<1>3. QED
  BY <1>1, <1>2, PTL DEF ChanSpec
=============================================================================
