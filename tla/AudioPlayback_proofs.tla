------------------------ MODULE AudioPlayback_proofs ------------------------
(***************************************************************************)
(* Proofs about AudioPlayback for every ring, block size and input: what   *)
(* is staged is the end of the stream, cut at a block's beginning, the     *)
(* block being copied to is the one farthest from the hardware, and so     *)
(* what has not been heard lies before the hardware in the stream's order. *)
(* Then AudioPath, whose decoder never has to refuse a packet.             *)
(***************************************************************************)
EXTENDS AudioPath, TLAPS

(* The control state and the three places in the ring. *)
PlacesOK ==
    /\ pc \in {"idle", "write", "copy"}
    /\ wb \in Slots
    /\ readIndex \in Slots
    /\ lag \in 0..MaxLag

(* While a block is copied, the hardware is lag + 1 blocks beyond it.      *)
Behind == pc = "copy" => readIndex = (wb + 1 + lag) % NumBlocks

(* Going around a ring of n blocks. *)
LEMMA Around ==
    ASSUME NEW n \in Nat \ {0}, NEW i \in 0..(2 * n - 1)
    PROVE  i % n = IF i < n THEN i ELSE i - n
  OBVIOUS

(* One step onward from the block before i comes back to i.                *)
LEMMA BackAndForth ==
    ASSUME NEW n \in Nat \ {0}, NEW i \in 0..(n - 1)
    PROVE  /\ (i + n - 1) % n \in 0..(n - 1)
           /\ (((i + n - 1) % n) + 1) % n = i
<1> DEFINE j == i + n - 1
<1>1. j % n = IF j < n THEN j ELSE j - n
  <2>1. j \in 0..(2 * n - 1)
    OBVIOUS
  <2> HIDE DEF j
  <2>2. QED
    BY <2>1, Around
<1>2. CASE i = 0
  <2>1. (i + n - 1) % n = n - 1
    BY <1>1, <1>2
  <2>2. n % n = 0
    BY Around
  <2>3. QED
    BY <1>2, <2>1, <2>2
<1>3. CASE i # 0
  <2>1. (i + n - 1) % n = i - 1
    BY <1>1, <1>3
  <2>2. i % n = i
    BY Around
  <2>3. QED
    BY <1>3, <2>1, <2>2
<1>4. QED
  BY <1>2, <1>3

LEMMA PlacesInit == Init => PlacesOK /\ Behind
BY AudioAssumption DEF Init, PlacesOK, Behind, Slots

LEMMA PlacesNext == PlacesOK /\ Behind /\ [Next]_vars => (PlacesOK /\ Behind)'
<1> SUFFICES ASSUME PlacesOK, Behind, [Next]_vars
             PROVE  (PlacesOK /\ Behind)'
  OBVIOUS
<1>0. NumBlocks \in Nat \ {0} /\ MaxLag \in 0..(NumBlocks - 2)
  BY AudioAssumption
<1>1. ASSUME NEW in \in Inputs, Submit(in[1], in[2])
      PROVE  (PlacesOK /\ Behind)'
  BY <1>1 DEF Submit, PlacesOK, Behind
<1>2. CASE AskPort
  <2>1. wb' = (readIndex + NumBlocks - 1) % NumBlocks /\ lag' = 0
    BY <1>2 DEF AskPort, Target
  <2>2. readIndex \in 0..(NumBlocks - 1)
    BY DEF PlacesOK, Slots
  <2>3. wb' \in Slots /\ (wb' + 1) % NumBlocks = readIndex
    BY <1>0, <2>1, <2>2, BackAndForth DEF Slots
  <2>4. wb' + 1 + lag' = wb' + 1
    BY <2>1, <2>3 DEF Slots
  <2>5. PlacesOK'
    BY <1>0, <1>2, <2>1, <2>3 DEF AskPort, PlacesOK
  <2>6. readIndex' = (wb' + 1 + lag') % NumBlocks
    BY <1>2, <2>3, <2>4 DEF AskPort
  <2>7. QED
    BY <2>5, <2>6 DEF Behind
<1>3. CASE Copy
  BY <1>3 DEF Copy, PlacesOK, Behind
<1>4. CASE Submitted
  BY <1>4 DEF Submitted, PlacesOK, Behind
<1>5. CASE PlayNext
  <2>1. readIndex' \in Slots
    BY <1>0, <1>5 DEF PlayNext, PlacesOK, Slots
  <2>2. CASE pc = "copy"
    <3>1. lag < MaxLag /\ lag' = lag + 1 /\ readIndex' = (readIndex + 1) % NumBlocks
      BY <1>5, <2>2 DEF PlayNext
    <3>2. readIndex = IF wb + 1 + lag < NumBlocks THEN wb + 1 + lag ELSE wb + 1 + lag - NumBlocks
      BY <1>0, <2>2, <3>1, Around DEF Behind, PlacesOK, Slots
    <3> DEFINE r == readIndex + 1
               w == wb + 1 + lag'
    <3>3. r \in 0..(2 * NumBlocks - 1) /\ w \in 0..(2 * NumBlocks - 1)
      BY <1>0, <3>1 DEF PlacesOK, Slots
    <3>4. /\ r % NumBlocks = IF r < NumBlocks THEN r ELSE r - NumBlocks
          /\ w % NumBlocks = IF w < NumBlocks THEN w ELSE w - NumBlocks
      <4> HIDE DEF r, w
      <4>1. QED
        BY <1>0, <3>3, Around
    <3>5. readIndex' = w % NumBlocks
      BY <1>0, <3>1, <3>2, <3>4 DEF PlacesOK, Slots
    <3>6. PlacesOK'
      BY <1>0, <1>5, <2>1, <3>1 DEF PlayNext, PlacesOK
    <3>7. readIndex' = (wb' + 1 + lag') % NumBlocks
      BY <1>5, <3>5 DEF PlayNext
    <3>8. QED
      BY <3>6, <3>7 DEF Behind
  <2>3. CASE pc # "copy"
    BY <1>5, <2>1, <2>3 DEF PlayNext, PlacesOK, Behind
  <2>4. QED
    BY <2>2, <2>3
<1>6. CASE UNCHANGED vars
  BY <1>6 DEF vars, PlacesOK, Behind
<1>7. QED
  BY <1>1, <1>2, <1>3, <1>4, <1>5, <1>6 DEF Next

LEMMA BehindClear == PlacesOK /\ Behind /\ pc = "copy" => wb # readIndex
<1> SUFFICES ASSUME PlacesOK, Behind, pc = "copy" PROVE wb # readIndex
  OBVIOUS
<1>1. lag <= NumBlocks - 2
  BY AudioAssumption DEF PlacesOK
<1>2. readIndex = IF wb + 1 + lag < NumBlocks THEN wb + 1 + lag ELSE wb + 1 + lag - NumBlocks
  BY <1>1, Around, AudioAssumption DEF Behind, PlacesOK, Slots
<1>3. QED
  BY <1>1, <1>2, AudioAssumption DEF PlacesOK, Slots

(* The block being copied to is never the one the hardware plays, also     *)
(* when it moves on during the copy, by up to all blocks but two.          *)
THEOREM NeverClobbersCorrect == Spec => []NeverClobbers
<1>1. PlacesOK /\ Behind => NeverClobbers
  BY BehindClear DEF NeverClobbers
<1>2. QED
  BY PlacesInit, PlacesNext, <1>1, PTL DEF Spec

-----------------------------------------------------------------------------
(* What is staged: the end of the stream, from the beginning of a block.   *)
Staged(m, n) == [i \in 1..n |-> m - n + i]
StagingOK ==
    /\ staged \in 0..MaxStaged
    /\ \E n \in 0..staged : staging = Staged(staged, n)
    /\ \E k \in Nat : staged - Len(staging) = k * BlockSamples
    /\ pc = "copy" => Len(staging) >= BlockSamples

(* What is, was and was not played: blocks of the stream. *)
BlocksOK ==
    /\ ring \in [Slots -> Blocks \cup {Silence}]
    /\ heard \subseteq Blocks
    /\ lost \subseteq Blocks

LEMMA DivNat == ASSUME NEW a \in Nat, NEW b \in Nat \ {0} PROVE a \div b \in Nat
  OBVIOUS

LEMMA DivBound ==
    ASSUME NEW a \in Nat, NEW b \in Nat \ {0}, NEW q \in Nat, q * b <= a
    PROVE  q <= a \div b
  OBVIOUS

LEMMA ResampledNat ==
    ASSUME NEW in \in Inputs PROVE Resampled(in[1], in[2]) \in Nat
<1>1. in[1] \in Nat /\ in[2] \in Int /\ PortRate \in Nat \ {0}
  BY AudioAssumption
<1>2. in[1] * PortRate \in Nat
  BY <1>1
<1>3. (IF in[2] <= 0 THEN PortRate ELSE in[2]) \in Nat \ {0}
  BY <1>1
<1>4. QED
  BY <1>2, <1>3, DivNat DEF Resampled

LEMMA StagedLen == ASSUME NEW m \in Nat, NEW n \in 0..m
                   PROVE  /\ Staged(m, n) \in Seq(1..m)
                          /\ Len(Staged(m, n)) = n
                          /\ \A i \in 1..n : Staged(m, n)[i] = m - n + i
  BY DEF Staged

(* Samples are appended, and a block is taken away. *)
LEMMA StagedMore ==
    ASSUME NEW m \in Nat, NEW n \in 0..m, NEW k \in Nat
    PROVE  Staged(m, n) \o [i \in 1..k |-> m + i] = Staged(m + k, n + k)
  BY DEF Staged

LEMMA StagedLess ==
    ASSUME NEW m \in Nat, NEW n \in 0..m, NEW k \in 0..n
    PROVE  /\ SubSeq(Staged(m, n), k + 1, n) = Staged(m, n - k)
           /\ SubSeq(Staged(m, n), 1, k) = [i \in 1..k |-> m - n + i]
  BY DEF Staged

StreamInv == PlacesOK /\ Behind /\ StagingOK /\ BlocksOK

LEMMA StreamInit == Init => StreamInv
<1> SUFFICES ASSUME Init PROVE StreamInv
  OBVIOUS
<1>1. PlacesOK /\ Behind
  BY PlacesInit
<1>2. staging = Staged(staged, 0)
  BY DEF Init, Staged
<1>3. staged - Len(staging) = 0 * BlockSamples
  BY AudioAssumption DEF Init
<1>4. StagingOK
  BY <1>2, <1>3, AudioAssumption DEF Init, StagingOK
<1>5. BlocksOK
  BY DEF Init, BlocksOK
<1>6. QED
  BY <1>1, <1>4, <1>5 DEF StreamInv

(* Whole blocks lie at the beginning of what is staged. *)
LEMMA FirstBlock ==
    ASSUME StagingOK, Len(staging) >= BlockSamples
    PROVE  /\ SubSeq(staging, 1, BlockSamples) \in Blocks
           /\ \E n \in 0..staged : Rest = Staged(staged, n)
           /\ \E k \in Nat : staged - Len(Rest) = k * BlockSamples
<1> DEFINE B == BlockSamples
<1>0. B \in Nat \ {0} /\ MaxStaged \in Nat
  BY AudioAssumption
<1>1. PICK n \in 0..staged : staging = Staged(staged, n)
  BY DEF StagingOK
<1>2. staged \in Nat /\ staged <= MaxStaged
  BY <1>0 DEF StagingOK
<1>3. Len(staging) = n /\ B \in 0..n
  BY <1>0, <1>1, <1>2, StagedLen
<1>4. PICK k \in Nat : staged - n = k * B
  BY <1>3 DEF StagingOK
<1>5. (k + 1) * B = k * B + B
  BY <1>0
<1>6. k + 1 \in 1..(MaxStaged \div B)
  <2>1. (k + 1) * B <= MaxStaged
    BY <1>0, <1>2, <1>3, <1>4, <1>5
  <2>2. k + 1 \in Nat /\ k + 1 >= 1
    OBVIOUS
  <2> DEFINE q == k + 1
  <2> HIDE DEF q
  <2>3. q <= MaxStaged \div B
    BY <1>0, <2>1, <2>2, DivBound DEF q
  <2>4. MaxStaged \div B \in Nat
    BY <1>0, DivNat
  <2>5. q \in 1..(MaxStaged \div B)
    BY <2>2, <2>3, <2>4 DEF q
  <2>6. QED
    BY <2>5 DEF q
<1>7. SubSeq(staging, 1, B) = [i \in 1..B |-> staged - n + i]
  BY <1>1, <1>2, <1>3, StagedLess
<1>8. Block(k + 1) = [i \in 1..B |-> k * B + i]
  <2>1. (k + 1) - 1 = k
    OBVIOUS
  <2>2. QED
    BY <2>1 DEF Block
<1>9. SubSeq(staging, 1, B) = Block(k + 1)
  BY <1>4, <1>7, <1>8
<1>10. Rest = Staged(staged, n - B)
  <2>1. Rest = SubSeq(Staged(staged, n), B + 1, n)
    BY <1>1, <1>3 DEF Rest
  <2>2. QED
    BY <1>2, <1>3, <2>1, StagedLess
<1>11. n - B \in 0..staged
  BY <1>0, <1>2, <1>3
<1>12. staged - Len(Rest) = (k + 1) * B
  <2>1. Len(Rest) = n - B
    BY <1>2, <1>10, <1>11, StagedLen
  <2>2. QED
    BY <1>0, <1>2, <1>3, <1>4, <1>5, <2>1
<1>13. QED
  BY <1>6, <1>9, <1>10, <1>11, <1>12 DEF Blocks

LEMMA StreamNext == StreamInv /\ [Next]_vars => StreamInv'
<1> SUFFICES ASSUME StreamInv, [Next]_vars
             PROVE  StagingOK' /\ BlocksOK'
  BY PlacesNext DEF StreamInv
<1>0. BlockSamples \in Nat \ {0} /\ MaxStaged \in Nat /\ StagingOK /\ BlocksOK /\ PlacesOK
  BY AudioAssumption DEF StreamInv
<1>1. ASSUME NEW in \in Inputs, Submit(in[1], in[2])
      PROVE  StagingOK' /\ BlocksOK'
  <2> DEFINE m == Resampled(in[1], in[2])
  <2>1. m \in Nat
    BY ResampledNat
  <2>2. PICK n \in 0..staged : staging = Staged(staged, n)
    BY <1>0 DEF StagingOK
  <2>3. staged \in Nat
    BY <1>0 DEF StagingOK
  <2>4. /\ staging' = staging \o [i \in 1..m |-> staged + i]
        /\ staged' = staged + m
        /\ staged' <= MaxStaged
        /\ pc' = "write"
    BY <1>1 DEF Submit
  <2> HIDE DEF m
  <2>5. staging' = Staged(staged', n + m)
    BY <2>1, <2>2, <2>3, <2>4, StagedMore
  <2>6. n + m \in 0..staged' /\ staged' \in Nat
    BY <2>1, <2>3, <2>4
  <2>7. Len(staging) = n /\ Len(staging') = n + m
    BY <2>2, <2>3, <2>5, <2>6, StagedLen
  <2>8. staged' - Len(staging') = staged - Len(staging)
    BY <2>1, <2>3, <2>4, <2>7
  <2>9. StagingOK'
    <3>1. staged' \in 0..MaxStaged
      BY <1>0, <2>4, <2>6
    <3>2. \E k \in Nat : staged' - Len(staging') = k * BlockSamples
      BY <1>0, <2>8 DEF StagingOK
    <3>3. \E j \in 0..staged' : staging' = Staged(staged', j)
      BY <2>5, <2>6
    <3>4. pc' # "copy"
      BY <2>4
    <3>5. QED
      BY <3>1, <3>2, <3>3, <3>4 DEF StagingOK
  <2>10. BlocksOK'
    BY <1>0, <1>1 DEF Submit, BlocksOK
  <2>11. QED
    BY <2>9, <2>10
<1>2. CASE AskPort
  BY <1>0, <1>2 DEF AskPort, WholeBlock, StagingOK, BlocksOK
<1>3. CASE Copy
  <2>1. Len(staging) >= BlockSamples
    BY <1>0, <1>3 DEF Copy, StagingOK
  <2>2. /\ SubSeq(staging, 1, BlockSamples) \in Blocks
        /\ \E n \in 0..staged : Rest = Staged(staged, n)
        /\ \E k \in Nat : staged - Len(Rest) = k * BlockSamples
    BY <1>0, <2>1, FirstBlock
  <2>3. StagingOK'
    BY <1>0, <1>3, <2>2 DEF Copy, StagingOK
  <2>4. BlocksOK'
    BY <1>0, <1>3, <2>2 DEF Copy, BlocksOK, PlacesOK
  <2>5. QED
    BY <2>3, <2>4
<1>4. CASE Submitted
  BY <1>0, <1>4 DEF Submitted, StagingOK, BlocksOK
<1>5. CASE PlayNext
  <2>1. StagingOK'
    BY <1>0, <1>5 DEF PlayNext, StagingOK
  <2>2. readIndex' \in Slots
    BY <1>5, PlacesNext DEF StreamInv, PlacesOK
  <2>3. BlocksOK'
    BY <1>0, <1>5, <2>2 DEF PlayNext, BlocksOK
  <2>4. QED
    BY <2>1, <2>3
<1>6. CASE UNCHANGED vars
  BY <1>0, <1>6 DEF vars, StagingOK, BlocksOK
<1>7. QED
  BY <1>1, <1>2, <1>3, <1>4, <1>5, <1>6 DEF Next

LEMMA StreamTypes == StreamInv => TypeOK
<1> SUFFICES ASSUME StreamInv PROVE TypeOK
  OBVIOUS
<1>1. PICK n \in 0..staged : staging = Staged(staged, n)
  BY DEF StreamInv, StagingOK
<1>2. staged \in 0..MaxStaged /\ MaxStaged \in Nat
  BY AudioAssumption DEF StreamInv, StagingOK
<1>3. staging \in Seq(1..staged)
  BY <1>1, <1>2, StagedLen
<1>4. staging \in Seq(1..MaxStaged)
  BY <1>2, <1>3
<1>5. QED
  BY <1>2, <1>4 DEF StreamInv, PlacesOK, BlocksOK, TypeOK

(* The type invariant: whatever is submitted at whatever rate, the ring    *)
(* holds nothing but whole blocks of the stream, cut where blocks begin.   *)
THEOREM TypeCorrect == Spec => []TypeOK
BY StreamInit, StreamNext, StreamTypes, PTL DEF Spec

-----------------------------------------------------------------------------
(* How far the hardware has to go to play the block at p; it plays the one *)
(* it is at now after all the others.                                      *)
Ahead(p) == IF p > readIndex THEN p - readIndex ELSE p - readIndex + NumBlocks

Unheard(p) == ring[p] \notin heard \cup {Silence}

(* Of the blocks not heard yet, the nearer to the hardware is the earlier  *)
(* one of the stream, and each is later than all that were heard.          *)
UnheardInOrder ==
    /\ \A p, q \in Slots : Unheard(p) /\ Unheard(q) /\ Ahead(p) < Ahead(q)
                             => ring[p][1] < ring[q][1]
    /\ \A p \in Slots : Unheard(p) => \A c \in heard : c[1] < ring[p][1]

(* The hardware's block was heard, and so were, while one is copied, the   *)
(* blocks beyond that one.                                                 *)
HeardBeyond ==
    /\ ~Unheard(readIndex)
    /\ pc = "copy" => \A q \in Slots : Ahead(wb) < Ahead(q) => ~Unheard(q)

(* What was copied is earlier in the stream than what is staged.           *)
CopiedBefore ==
    /\ \A p \in Slots : ring[p] # Silence => ring[p][1] <= staged - Len(staging)
    /\ \A c \in heard : c[1] <= staged - Len(staging)

OrderInv == UnheardInOrder /\ HeardBeyond /\ CopiedBefore

LEMMA OrderInit == Init => OrderInv
BY AudioAssumption DEF Init, OrderInv, UnheardInOrder, HeardBeyond, CopiedBefore, Unheard, Slots

LEMMA BlockFirst == \A b \in Blocks : b # Silence /\ b[1] \in Int
BY AudioAssumption DEF Blocks, Block, Silence

LEMMA StagedAfter == StagingOK => staged \in Nat /\ Len(staging) \in Nat
BY AudioAssumption DEF StagingOK, Staged

(* Samples come to the end of what is staged.                              *)
LEMMA SubmitOrder ==
    ASSUME StreamInv, OrderInv, NEW in \in Inputs, Submit(in[1], in[2])
    PROVE  OrderInv'
<1> DEFINE m == Resampled(in[1], in[2])
<1>1. m \in Nat
  BY ResampledNat
<1>2. PICK n \in 0..staged : staging = Staged(staged, n)
  BY DEF StreamInv, StagingOK
<1>3. staged \in Nat
  BY StagedAfter DEF StreamInv
<1>4. staging' = staging \o [i \in 1..m |-> staged + i] /\ staged' = staged + m
  BY DEF Submit
<1> HIDE DEF m
<1>5. staged' - Len(staging') = staged - Len(staging)
  <2>1. staging' = Staged(staged + m, n + m)
    BY <1>1, <1>2, <1>3, <1>4, StagedMore
  <2>2. staged + m \in Nat /\ n + m \in 0..(staged + m)
    BY <1>1, <1>3
  <2>3. Len(staging) = n /\ Len(staging') = n + m
    BY <1>2, <1>3, <2>1, <2>2, StagedLen
  <2>4. QED
    BY <1>1, <1>2, <1>3, <1>4, <2>3
<1>6. /\ UNCHANGED <<wb, ring, readIndex, lag, heard, lost>>
      /\ pc' = "write"
  BY DEF Submit
<1>7. CopiedBefore'
  BY <1>5, <1>6 DEF OrderInv, CopiedBefore
<1>8. QED
  BY <1>6, <1>7 DEF OrderInv, UnheardInOrder, HeardBeyond, Unheard, Ahead

(* The block asked for is the farthest but one, and that one was heard.    *)
LEMMA AskPortOrder ==
    ASSUME StreamInv, OrderInv, AskPort
    PROVE  OrderInv'
<1>1. /\ UNCHANGED <<staging, staged, ring, readIndex, heard>>
      /\ wb' = (readIndex + NumBlocks - 1) % NumBlocks
  BY DEF AskPort, Target
<1>2. NumBlocks \in Nat \ {0, 1} /\ readIndex \in 0..(NumBlocks - 1)
  BY AudioAssumption DEF StreamInv, PlacesOK, Slots
<1>3. wb' = IF readIndex = 0 THEN NumBlocks - 1 ELSE readIndex - 1
  <2> DEFINE j == readIndex + NumBlocks - 1
  <2>1. j \in 0..(2 * NumBlocks - 1)
    BY <1>2
  <2>2. j % NumBlocks = IF j < NumBlocks THEN j ELSE j - NumBlocks
    <3> HIDE DEF j
    <3>1. QED
      BY <1>2, <2>1, Around
  <2>3. QED
    BY <1>1, <1>2, <2>2
<1>4. \A q \in Slots : Ahead(wb') < Ahead(q) => q = readIndex
  BY <1>2, <1>3 DEF Slots, Ahead
<1>5. HeardBeyond'
  BY <1>1, <1>4 DEF OrderInv, HeardBeyond, Unheard, Ahead
<1>6. QED
  BY <1>1, <1>5 DEF OrderInv, UnheardInOrder, CopiedBefore, Unheard, Ahead

(* The block copied is the latest, and nothing unheard is beyond it.       *)
LEMMA CopyOrder ==
    ASSUME StreamInv, OrderInv, Copy
    PROVE  OrderInv'
<1> DEFINE b == SubSeq(staging, 1, BlockSamples)
<1>1. /\ UNCHANGED <<staged, wb, readIndex, heard>>
      /\ ring' = [ring EXCEPT ![wb] = b]
      /\ staging' = Rest
      /\ pc = "copy" /\ pc' = "write"
  BY DEF Copy
<1>2. BlockSamples \in Nat \ {0} /\ NumBlocks \in Nat
  BY AudioAssumption
<1>3. /\ wb \in Slots /\ readIndex \in Slots
      /\ ring \in [Slots -> Blocks \cup {Silence}] /\ heard \subseteq Blocks
  BY DEF StreamInv, PlacesOK, BlocksOK
<1>4. PICK n \in 0..staged : staging = Staged(staged, n)
  BY DEF StreamInv, StagingOK
<1>5. staged \in Nat /\ Len(staging) = n /\ BlockSamples \in 0..n
  <2>1. staged \in Nat /\ Len(staging) >= BlockSamples
    BY <1>1, StagedAfter DEF StreamInv, StagingOK
  <2>2. QED
    BY <1>2, <1>4, <2>1, StagedLen
<1>6. b[1] = staged - n + 1
  <2>1. b = [i \in 1..BlockSamples |-> staged - n + i]
    BY <1>4, <1>5, StagedLess
  <2>2. QED
    BY <1>2, <2>1
<1>7. staged - Len(staging') = staged - n + BlockSamples
  <2>1. Rest = SubSeq(Staged(staged, n), BlockSamples + 1, n)
    BY <1>4, <1>5 DEF Rest
  <2>2. Rest = Staged(staged, n - BlockSamples)
    BY <1>5, <2>1, StagedLess
  <2>3. n - BlockSamples \in 0..staged
    BY <1>2, <1>5
  <2>4. Len(Rest) = n - BlockSamples
    BY <1>5, <2>2, <2>3, StagedLen
  <2>5. QED
    BY <1>1, <1>2, <1>5, <2>4
<1>8. b \in Blocks
  BY <1>5, FirstBlock DEF StreamInv
<1> HIDE DEF b
<1>9. \A p \in Slots : ring'[p] = IF p = wb THEN b ELSE ring[p]
  BY <1>1, <1>3
<1>10. /\ \A p \in Slots : ring[p] # Silence => ring[p][1] \in Int /\ ring[p][1] < b[1]
       /\ \A c \in heard : c[1] \in Int /\ c[1] < b[1]
  <2>1. /\ \A p \in Slots : ring[p] # Silence => ring[p][1] <= staged - n
        /\ \A c \in heard : c[1] <= staged - n
    BY <1>5 DEF OrderInv, CopiedBefore
  <2>2. \A p \in Slots : ring[p] # Silence => ring[p] \in Blocks
    BY <1>3
  <2>3. QED
    BY <1>3, <1>5, <1>6, <2>1, <2>2, BlockFirst
<1>11. \A q \in Slots : Ahead(wb) < Ahead(q) => ~Unheard(q)
  BY <1>1 DEF OrderInv, HeardBeyond
<1>12. UnheardInOrder'
  <2>1. ASSUME NEW p \in Slots, NEW q \in Slots,
               Unheard(p)', Unheard(q)', (Ahead(p) < Ahead(q))'
        PROVE  ring'[p][1] < ring'[q][1]
    <3>1. Ahead(p) < Ahead(q) /\ p # q
      BY <1>1, <1>2, <1>3, <2>1 DEF Ahead, Slots
    <3>2. CASE q = wb
      BY <1>1, <1>9, <1>10, <2>1, <3>1, <3>2 DEF Unheard
    <3>3. CASE p = wb
      BY <1>1, <1>9, <1>11, <2>1, <3>1, <3>3 DEF Unheard
    <3>4. CASE p # wb /\ q # wb
      BY <1>1, <1>9, <2>1, <3>1, <3>4 DEF Unheard, OrderInv, UnheardInOrder
    <3>5. QED
      BY <3>2, <3>3, <3>4
  <2>2. ASSUME NEW p \in Slots, Unheard(p)' PROVE \A c \in heard' : c[1] < ring'[p][1]
    BY <1>1, <1>9, <1>10, <2>2 DEF Unheard, OrderInv, UnheardInOrder
  <2>3. QED
    BY <2>1, <2>2 DEF UnheardInOrder, Slots
<1>13. HeardBeyond'
  <2>1. wb # readIndex
    BY <1>1, BehindClear DEF StreamInv
  <2>2. QED
    BY <1>1, <1>3, <1>9, <2>1 DEF OrderInv, HeardBeyond, Unheard
<1>14. CopiedBefore'
  <2>1. /\ \A p \in Slots : ring[p] # Silence => ring[p][1] <= staged - n
        /\ \A c \in heard : c[1] <= staged - n
    BY <1>5 DEF OrderInv, CopiedBefore
  <2>2. \A p \in Slots : ring'[p] # Silence => ring'[p][1] <= staged - n + BlockSamples
    BY <1>2, <1>5, <1>6, <1>9, <1>10, <2>1
  <2>3. \A c \in heard : c[1] <= staged - n + BlockSamples
    BY <1>2, <1>5, <1>10, <2>1
  <2>4. QED
    BY <1>1, <1>7, <2>2, <2>3 DEF CopiedBefore, Slots
<1>15. QED
  BY <1>12, <1>13, <1>14 DEF OrderInv

(* The hardware comes to its next block: what it plays for the first time  *)
(* is later than all it has played.                                        *)
LEMMA PlayNextOrder ==
    ASSUME StreamInv, StreamInv', OrderInv, PlayNext
    PROVE  /\ OrderInv'
           /\ \A b \in heard' \ heard : \A c \in heard : c[1] < b[1]
<1>1. /\ UNCHANGED <<pc, staging, staged, wb, ring>>
      /\ readIndex' = (readIndex + 1) % NumBlocks
      /\ heard' = heard \cup ({ring[readIndex']} \ {Silence})
  BY DEF PlayNext
<1>2. NumBlocks \in Nat \ {0, 1} /\ readIndex \in 0..(NumBlocks - 1) /\ wb \in 0..(NumBlocks - 1)
  BY AudioAssumption DEF StreamInv, PlacesOK, Slots
<1>3. readIndex' = IF readIndex + 1 < NumBlocks THEN readIndex + 1 ELSE 0
  <2> DEFINE j == readIndex + 1
  <2>1. j \in 0..(2 * NumBlocks - 1)
    BY <1>2
  <2>2. j % NumBlocks = IF j < NumBlocks THEN j ELSE j - NumBlocks
    <3> HIDE DEF j
    <3>1. QED
      BY <1>2, <2>1, Around
  <2>3. QED
    BY <1>1, <1>2, <2>2
<1>4. PICK r \in Slots : r = readIndex'
  BY <1>2, <1>3 DEF Slots
<1>5. ASSUME NEW p \in Slots
      PROVE  /\ p # r => Ahead(p)' = Ahead(p) - 1 /\ Ahead(r) < Ahead(p)
             /\ Ahead(p)' <= Ahead(r)'
             /\ Ahead(p) \in Int /\ Ahead(p)' \in Int
  <2>0. p \in 0..(NumBlocks - 1)
    BY DEF Slots
  <2>1. /\ Ahead(p) = IF p > readIndex THEN p - readIndex ELSE p - readIndex + NumBlocks
        /\ Ahead(p)' = IF p > r THEN p - r ELSE p - r + NumBlocks
    BY <1>4 DEF Ahead
  <2>2. Ahead(r) = 1 /\ Ahead(r)' = NumBlocks
    BY <1>2, <1>3, <1>4 DEF Ahead
  <2>3. QED
    BY <1>2, <1>3, <1>4, <2>0, <2>1, <2>2
<1>6. \A p \in Slots : Unheard(p)' => Unheard(p) /\ ring[p] # ring[r] /\ p # r
  BY <1>1, <1>4 DEF Unheard
<1>7. \A b \in heard' \ heard : b = ring[r] /\ Unheard(r)
  BY <1>1, <1>4 DEF Unheard
<1>8. \A b \in heard' \ heard : \A c \in heard : c[1] < b[1]
  BY <1>4, <1>7 DEF OrderInv, UnheardInOrder
<1>9. UnheardInOrder'
  <2>1. ASSUME NEW p \in Slots, NEW q \in Slots,
               Unheard(p)', Unheard(q)', (Ahead(p) < Ahead(q))'
        PROVE  ring[p][1] < ring[q][1]
    <3>1. Unheard(p) /\ Unheard(q) /\ Ahead(p) < Ahead(q)
      BY <1>5, <1>6, <2>1
    <3>2. QED
      BY <3>1 DEF OrderInv, UnheardInOrder
  <2>2. ASSUME NEW p \in Slots, Unheard(p)', NEW c \in heard' PROVE c[1] < ring[p][1]
    <3>1. Unheard(p) /\ p # r
      BY <1>6, <2>2
    <3>2. CASE c \in heard
      BY <3>1, <3>2 DEF OrderInv, UnheardInOrder
    <3>3. CASE c \notin heard
      BY <1>4, <1>5, <1>7, <3>1, <3>3 DEF OrderInv, UnheardInOrder
    <3>4. QED
      BY <3>2, <3>3
  <2>3. QED
    BY <1>1, <2>1, <2>2 DEF UnheardInOrder, Slots
<1>10. HeardBeyond'
  <2>1. ~Unheard(readIndex)'
    BY <1>1 DEF Unheard
  <2>2. ASSUME pc = "copy", NEW q \in Slots, (Ahead(wb) < Ahead(q))' PROVE ~Unheard(q)'
    <3>1. wb \in Slots /\ wb # r
      <4>1. (PlacesOK /\ Behind /\ pc = "copy" => wb # readIndex)'
        BY BehindClear, PTL
      <4>2. QED
        BY <1>1, <1>2, <1>4, <2>2, <4>1 DEF StreamInv, Slots
    <3>2. CASE q = r
      BY <1>4, <2>1, <3>2
    <3>3. CASE q # r
      <4>1. Ahead(wb) < Ahead(q)
        BY <1>1, <1>5, <2>2, <3>1, <3>3
      <4>2. QED
        BY <1>6, <2>2, <4>1 DEF OrderInv, HeardBeyond
    <3>4. QED
      BY <3>2, <3>3
  <2>3. QED
    BY <1>1, <2>1, <2>2 DEF HeardBeyond, Slots
<1>11. CopiedBefore'
  <2>1. \A c \in heard' : c[1] <= staged - Len(staging)
    BY <1>1, <1>4 DEF OrderInv, CopiedBefore
  <2>2. QED
    BY <1>1, <2>1 DEF OrderInv, CopiedBefore, Slots
<1>12. QED
  BY <1>8, <1>9, <1>10, <1>11 DEF OrderInv

PlaysLater == \A b \in heard' \ heard : \A c \in heard : c[1] < b[1]

LEMMA OrderNext ==
    StreamInv /\ StreamInv' /\ OrderInv /\ [Next]_vars => OrderInv' /\ [PlaysLater]_vars
<1> SUFFICES ASSUME StreamInv, StreamInv', OrderInv, [Next]_vars
             PROVE  OrderInv' /\ [PlaysLater]_vars
  OBVIOUS
<1>1. ASSUME NEW in \in Inputs, Submit(in[1], in[2]) PROVE OrderInv' /\ [PlaysLater]_vars
  BY <1>1, SubmitOrder DEF Submit, PlaysLater
<1>2. CASE AskPort
  BY <1>2, AskPortOrder DEF AskPort, PlaysLater
<1>3. CASE Copy
  BY <1>3, CopyOrder DEF Copy, PlaysLater
<1>4. CASE Submitted
  BY <1>4 DEF Submitted, PlaysLater, OrderInv, UnheardInOrder, HeardBeyond, CopiedBefore,
              Unheard, Ahead
<1>5. CASE PlayNext
  BY <1>5, PlayNextOrder DEF PlaysLater
<1>6. CASE UNCHANGED vars
  BY <1>6 DEF vars, OrderInv, UnheardInOrder, HeardBeyond, CopiedBefore, Unheard, Ahead, Slots
<1>7. QED
  BY <1>1, <1>2, <1>3, <1>4, <1>5, <1>6 DEF Next

(* A block that plays for the first time is later in the stream than all   *)
(* that have played, for every ring, however the copies and the hardware   *)
(* interleave and however many blocks are overwritten unheard.             *)
THEOREM FirstPlaysInOrderCorrect == Spec => FirstPlaysInOrder
BY StreamInit, StreamNext, OrderInit, OrderNext, PTL DEF Spec, FirstPlaysInOrder, PlaysLater

-----------------------------------------------------------------------------
(* AudioPath.  What is in the decoder is in order, later than what was     *)
(* submitted, and received.                                                *)
InOrder ==
    /\ packets \in Nat
    /\ dec \in Seq(Packet)
    /\ submitted \in Seq(Nat)
    /\ \A i, j \in 1..Len(dec) : i < j => dec[i].frame < dec[j].frame
    /\ \A j \in 1..Len(dec) : dec[j].frame <= packets
    /\ \A i \in 1..Len(submitted) : submitted[i] <= packets
    /\ \A i \in 1..Len(submitted) : \A j \in 1..Len(dec) : submitted[i] < dec[j].frame
    /\ \A i \in 1..(Len(submitted) - 1) : submitted[i] <= submitted[i + 1]

(* The pump's variable is junk or still holds what was submitted last.     *)
LastSubmitted ==
    af # Junk => /\ af.pcm \in Inputs
                 /\ submitted # <<>> /\ af.frame = submitted[Len(submitted)]

(* The decoder is drained before it is given a packet, so it takes it.     *)
TakesPacket ==
    /\ turn \in {"recv", "pump", "crashed"}
    /\ turn = "recv" => Len(dec) <= DecDelay
    /\ turn = "pump" => Len(dec) <= DecDelay + 1

(* As long as every packet is decoded, none is missing.                    *)
Gapless ==
    ~failed => /\ \A i \in 1..Len(submitted) : submitted[i] = i
               /\ \A i \in 1..Len(dec) : dec[i].frame = Len(submitted) + i
               /\ packets = Len(submitted) + Len(dec)
               /\ turn # "crashed"

PathInv == InOrder /\ LastSubmitted /\ TakesPacket /\ Gapless

LEMMA PathInvInit == PathInit => PathInv
BY AudioPathAssumption DEF PathInit, PathInv, InOrder, LastSubmitted, TakesPacket, Gapless

LEMMA PacketFrame == \A p \in Packet : p.frame \in Nat
BY AudioPathAssumption DEF Packet

LEMMA Decoding ==
    ASSUME InOrder
    PROVE  \A j \in 1..Len(dec) : dec[j] \in Packet /\ dec[j].frame \in Nat
BY PacketFrame DEF InOrder

LEMMA ReceiveInv == ASSUME PathInv, Receive PROVE PathInv'
<1>1. /\ turn = "recv" /\ turn' = "pump" /\ packets < MaxPackets /\ packets' = packets + 1
      /\ af' \in {Junk, af} /\ UNCHANGED <<submitted, failed>>
  BY DEF Receive, BeginPump
<1>2. /\ packets \in Nat /\ dec \in Seq(Packet) /\ MaxPackets \in Nat
      /\ Len(dec) <= DecDelay /\ DecDelay \in Nat
  BY <1>1, AudioPathAssumption DEF PathInv, InOrder, TakesPacket
<1>3. PICK ok \in BOOLEAN, in \in Inputs :
         dec' = Append(dec, [frame |-> packets', ok |-> ok, pcm |-> in])
  <2>1. Len(dec) < DecDepth
    BY <1>2 DEF DecDepth
  <2>2. QED
    BY <2>1 DEF Receive
<1> DEFINE d == [frame |-> packets', ok |-> ok, pcm |-> in]
<1>4. d \in Packet /\ d.frame = packets + 1
  BY <1>1, <1>2 DEF Packet
<1> HIDE DEF d
<1>5. /\ dec' \in Seq(Packet) /\ Len(dec') = Len(dec) + 1
      /\ \A i \in 1..Len(dec') : dec'[i] = IF i <= Len(dec) THEN dec[i] ELSE d
  BY <1>2, <1>3, <1>4 DEF d
<1>6. InOrder'
  <2>0. /\ submitted \in Seq(Nat) /\ submitted' = submitted
        /\ \A i \in 1..Len(submitted) : submitted[i] \in Nat /\ submitted[i] <= packets
        /\ \A j \in 1..Len(dec) : dec[j].frame \in Nat /\ dec[j].frame <= packets
    BY <1>1, Decoding DEF PathInv, InOrder
  <2>1. ASSUME NEW i \in 1..Len(dec'), NEW j \in 1..Len(dec'), i < j
        PROVE  dec'[i].frame < dec'[j].frame
    <3>1. CASE j <= Len(dec)
      <4>1. i \in 1..Len(dec) /\ j \in 1..Len(dec) /\ dec'[i] = dec[i] /\ dec'[j] = dec[j]
        BY <1>2, <1>5, <2>1, <3>1
      <4>2. QED
        BY <2>1, <4>1 DEF PathInv, InOrder
    <3>2. CASE j = Len(dec) + 1
      <4>1. i \in 1..Len(dec) /\ dec'[i] = dec[i] /\ dec'[j] = d
        BY <1>2, <1>5, <2>1, <3>2
      <4>2. dec[i].frame \in Nat /\ dec[i].frame <= packets
        BY <2>0, <4>1
      <4>3. QED
        BY <1>2, <1>4, <4>1, <4>2
    <3>3. QED
      BY <1>2, <1>5, <3>1, <3>2
  <2>2. ASSUME NEW j \in 1..Len(dec') PROVE dec'[j].frame <= packets'
    <3>1. CASE j <= Len(dec)
      <4>1. dec'[j] = dec[j] /\ dec[j].frame \in Nat /\ dec[j].frame <= packets
        BY <1>2, <1>5, <2>0, <3>1
      <4>2. QED
        BY <1>1, <1>2, <4>1
    <3>2. CASE j = Len(dec) + 1
      BY <1>1, <1>2, <1>4, <1>5, <3>2
    <3>3. QED
      BY <1>2, <1>5, <3>1, <3>2
  <2>3. ASSUME NEW i \in 1..Len(submitted), NEW j \in 1..Len(dec')
        PROVE  submitted[i] < dec'[j].frame
    <3>1. CASE j <= Len(dec)
      BY <1>2, <1>5, <3>1 DEF PathInv, InOrder
    <3>2. CASE j = Len(dec) + 1
      <4>1. submitted[i] \in Nat /\ submitted[i] <= packets
        BY <2>0
      <4>2. dec'[j].frame = packets + 1
        BY <1>2, <1>4, <1>5, <3>2
      <4>3. QED
        BY <1>2, <4>1, <4>2
    <3>3. QED
      BY <1>2, <1>5, <3>1, <3>2
  <2>4. \A i \in 1..Len(submitted) : submitted[i] <= packets'
    BY <1>1, <1>2, <2>0
  <2>5. \A i \in 1..(Len(submitted) - 1) : submitted[i] <= submitted[i + 1]
    BY DEF PathInv, InOrder
  <2>6. packets' \in Nat /\ dec' \in Seq(Packet) /\ submitted' \in Seq(Nat) /\ submitted' = submitted
    BY <1>1, <1>2, <1>5, <2>0
  <2>7. /\ \A i, j \in 1..Len(dec') : i < j => dec'[i].frame < dec'[j].frame
        /\ \A j \in 1..Len(dec') : dec'[j].frame <= packets'
    BY <2>1, <2>2
  <2>8. /\ \A i \in 1..Len(submitted') : submitted'[i] <= packets'
        /\ \A i \in 1..Len(submitted') : \A j \in 1..Len(dec') : submitted'[i] < dec'[j].frame
        /\ \A i \in 1..(Len(submitted') - 1) : submitted'[i] <= submitted'[i + 1]
    BY <2>3, <2>4, <2>5, <2>6
  <2>9. QED
    BY <2>6, <2>7, <2>8 DEF InOrder
<1>7. LastSubmitted'
  BY <1>1 DEF PathInv, LastSubmitted
<1>8. TakesPacket'
  BY <1>1, <1>2, <1>5 DEF TakesPacket
<1>9. Gapless'
  <2> SUFFICES ASSUME ~failed PROVE Gapless'
    BY <1>1 DEF Gapless
  <2>1. /\ \A i \in 1..Len(submitted) : submitted[i] = i
        /\ \A i \in 1..Len(dec) : dec[i].frame = Len(submitted) + i
        /\ packets = Len(submitted) + Len(dec)
        /\ Len(submitted) \in Nat
    BY DEF PathInv, Gapless, InOrder
  <2>2. ASSUME NEW i \in 1..Len(dec') PROVE dec'[i].frame = Len(submitted) + i
    <3>1. CASE i <= Len(dec)
      BY <1>2, <1>5, <2>1, <3>1
    <3>2. CASE i = Len(dec) + 1
      BY <1>2, <1>4, <1>5, <2>1, <3>2
    <3>3. QED
      BY <1>2, <1>5, <3>1, <3>2
  <2>3. packets' = Len(submitted) + Len(dec')
    BY <1>1, <1>2, <1>5, <2>1
  <2>4. QED
    BY <1>1, <2>1, <2>2, <2>3 DEF Gapless
<1>10. QED
  BY <1>6, <1>7, <1>8, <1>9 DEF PathInv

LEMMA PumpFrameInv == ASSUME PathInv, PumpFrame PROVE PathInv' /\ af'.pcm \in Inputs
<1>1. /\ turn = "pump" /\ dec # <<>> /\ dec' = Tail(dec)
      /\ af' = Pumped /\ af' # Junk
      /\ failed' = (failed \/ ~Head(dec).ok)
      /\ submitted' = Append(submitted, af'.frame)
      /\ UNCHANGED <<turn, packets>>
  BY DEF PumpFrame
<1>2. dec \in Seq(Packet) /\ submitted \in Seq(Nat) /\ packets \in Nat /\ DecDelay \in Nat
  BY AudioPathAssumption DEF PathInv, InOrder
<1>3. /\ Len(dec) \in Nat \ {0} /\ Head(dec) = dec[1] /\ dec[1] \in Packet
      /\ dec' \in Seq(Packet) /\ Len(dec') = Len(dec) - 1
      /\ \A i \in 1..Len(dec') : i + 1 \in 1..Len(dec) /\ dec'[i] = dec[i + 1]
  BY <1>1, <1>2
<1> DEFINE f == af'.frame
<1>4. /\ af'.pcm \in Inputs
      /\ \/ dec[1].ok /\ f = dec[1].frame /\ f \in Nat
         \/ ~dec[1].ok /\ submitted # <<>> /\ f = submitted[Len(submitted)]
  BY <1>1, <1>3 DEF Pumped, Packet, PathInv, LastSubmitted
<1> HIDE DEF f
<1>5. /\ f \in Nat
      /\ f <= packets
      /\ \A j \in 1..Len(dec') : f < dec'[j].frame
      /\ submitted # <<>> => submitted[Len(submitted)] <= f
  <2>0. 1 \in 1..Len(dec) /\ \A j \in 1..Len(dec') : 1 < j + 1
    BY <1>2, <1>3
  <2>1. CASE dec[1].ok
    <3>1. f = dec[1].frame /\ f \in Nat
      BY <1>4, <2>1
    <3>2. submitted # <<>> => submitted[Len(submitted)] < f /\ submitted[Len(submitted)] \in Nat
      <4>1. submitted # <<>> => Len(submitted) \in 1..Len(submitted)
        BY <1>2
      <4>2. QED
        BY <1>2, <2>0, <3>1, <4>1 DEF PathInv, InOrder
    <3>3. f <= packets /\ \A j \in 1..Len(dec') : f < dec'[j].frame
      BY <1>3, <2>0, <3>1 DEF PathInv, InOrder
    <3>4. QED
      BY <3>1, <3>2, <3>3
  <2>2. CASE ~dec[1].ok
    <3>1. /\ f = submitted[Len(submitted)] /\ Len(submitted) \in 1..Len(submitted)
          /\ submitted # <<>>
      BY <1>2, <1>4, <2>2
    <3>2. f \in Nat
      BY <1>2, <3>1
    <3>3. f <= packets /\ \A j \in 1..Len(dec') : f < dec'[j].frame
      BY <1>3, <3>1 DEF PathInv, InOrder
    <3>4. QED
      BY <3>1, <3>2, <3>3
  <2>3. QED
    BY <2>1, <2>2
<1>6. /\ submitted' \in Seq(Nat) /\ Len(submitted') = Len(submitted) + 1
      /\ \A i \in 1..Len(submitted') : submitted'[i] = IF i <= Len(submitted) THEN submitted[i] ELSE f
  BY <1>1, <1>2, <1>5 DEF f
<1>7. InOrder'
  <2>1. /\ \A i, j \in 1..Len(dec') : i < j => dec'[i].frame < dec'[j].frame
        /\ \A j \in 1..Len(dec') : dec'[j].frame <= packets'
    BY <1>1, <1>2, <1>3 DEF PathInv, InOrder
  <2>2. /\ \A i \in 1..Len(submitted') : submitted'[i] <= packets'
        /\ \A i \in 1..Len(submitted') : \A j \in 1..Len(dec') : submitted'[i] < dec'[j].frame
    BY <1>1, <1>2, <1>3, <1>5, <1>6, SMTT(30) DEF PathInv, InOrder
  <2>3. ASSUME NEW i \in 1..(Len(submitted') - 1) PROVE submitted'[i] <= submitted'[i + 1]
    <3>1. CASE i < Len(submitted)
      <4>1. i \in 1..(Len(submitted) - 1) /\ submitted'[i] = submitted[i] /\ submitted'[i + 1] = submitted[i + 1]
        BY <1>2, <1>6, <3>1, SMTT(30)
      <4>2. QED
        BY <4>1 DEF PathInv, InOrder
    <3>2. CASE i = Len(submitted)
      <4>1. submitted # <<>> /\ submitted'[i] = submitted[Len(submitted)] /\ submitted'[i + 1] = f
        BY <1>2, <1>6, <3>2
      <4>2. QED
        BY <1>5, <4>1
    <3>3. QED
      BY <1>2, <1>6, <3>1, <3>2
  <2>4. QED
    BY <1>1, <1>2, <1>3, <1>6, <2>1, <2>2, <2>3 DEF InOrder
<1>8. LastSubmitted'
  <2>1. submitted' # <<>> /\ submitted'[Len(submitted')] = f
    BY <1>2, <1>6
  <2>2. QED
    BY <1>4, <2>1 DEF LastSubmitted, f
<1>9. TakesPacket'
  BY <1>1, <1>2, <1>3 DEF PathInv, TakesPacket
<1>10. Gapless'
  <2> SUFFICES ASSUME ~failed' PROVE Gapless'
    BY DEF Gapless
  <2>1. /\ \A i \in 1..Len(submitted) : submitted[i] = i
        /\ \A i \in 1..Len(dec) : dec[i].frame = Len(submitted) + i
        /\ packets = Len(submitted) + Len(dec)
        /\ Len(submitted) \in Nat
    <3>1. ~failed
      BY <1>1
    <3>2. QED
      BY <1>2, <3>1 DEF PathInv, Gapless
  <2>2. f = Len(submitted) + 1
    <3>1. dec[1].ok
      BY <1>1, <1>3
    <3>2. QED
      BY <1>3, <1>4, <2>1, <3>1
  <2>3. \A i \in 1..Len(submitted') : submitted'[i] = i
    BY <1>6, <2>1, <2>2
  <2>4. ASSUME NEW i \in 1..Len(dec') PROVE dec'[i].frame = Len(submitted') + i
    <3>1. i + 1 \in 1..Len(dec) /\ dec'[i] = dec[i + 1]
      BY <1>3
    <3>2. dec[i + 1].frame = Len(submitted) + (i + 1)
      BY <2>1, <3>1
    <3>3. QED
      BY <1>6, <2>1, <3>1, <3>2
  <2>5. packets' = Len(submitted') + Len(dec')
    BY <1>1, <1>2, <1>3, <1>6, <2>1
  <2>6. QED
    BY <1>1, <2>3, <2>4, <2>5 DEF Gapless
<1>11. QED
  BY <1>4, <1>7, <1>8, <1>9, <1>10 DEF PathInv

LEMMA PathInvNext == PathInv /\ [PathNext]_allVars => PathInv' /\ [Next]_vars
<1> SUFFICES ASSUME PathInv, [PathNext]_allVars PROVE PathInv' /\ [Next]_vars
  OBVIOUS
<1>1. CASE Receive
  BY <1>1, ReceiveInv DEF Receive
<1>2. CASE ReceiveNothing
  BY <1>2, AudioPathAssumption
     DEF ReceiveNothing, BeginPump, PathInv, InOrder, LastSubmitted, TakesPacket, Gapless
<1>3. CASE PumpFrame
  BY <1>3, PumpFrameInv DEF PumpFrame, Next
<1>4. CASE PumpJunk
  BY <1>4 DEF PumpJunk, PathInv, InOrder, LastSubmitted, TakesPacket, Gapless
<1>5. CASE PumpEnds
  BY <1>5 DEF PumpEnds, Drained, PathInv, InOrder, LastSubmitted, TakesPacket, Gapless
<1>6. CASE Playback \/ Hardware \/ UNCHANGED allVars
  <2>1. [Next]_vars /\ UNCHANGED pathVars
    BY <1>6 DEF Playback, Hardware, allVars, Next
  <2>2. QED
    BY <2>1 DEF pathVars, PathInv, InOrder, LastSubmitted, TakesPacket, Gapless
<1>7. QED
  BY <1>1, <1>2, <1>3, <1>4, <1>5, <1>6 DEF PathNext

(* What is submitted is in the stream's order, and complete as long as     *)
(* every packet is decoded, for every delay of the decoder.                *)
THEOREM SubmittedInOrderCorrect == PathSpec => []SubmittedInOrder
<1>1. PathInv => SubmittedInOrder
  BY DEF PathInv, InOrder, Gapless, SubmittedInOrder
<1>2. QED
  BY PathInvInit, PathInvNext, <1>1, PTL DEF PathSpec

(* The output's properties hold of what the decoder makes it play.         *)
THEOREM PathKeepsPlayback == PathSpec => [](TypeOK /\ NeverClobbers) /\ FirstPlaysInOrder
<1>1. PathInit => PathInv /\ StreamInv /\ OrderInv
  BY PathInvInit, StreamInit, OrderInit DEF PathInit
<1>2. StreamInv => TypeOK /\ NeverClobbers
  BY StreamTypes, BehindClear DEF StreamInv, NeverClobbers
<1>3. QED
  BY <1>1, <1>2, PathInvNext, StreamNext, OrderNext, PTL DEF PathSpec, FirstPlaysInOrder, PlaysLater
=============================================================================
