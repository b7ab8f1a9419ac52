--------------------------- MODULE Jitter_proofs ---------------------------
(***************************************************************************)
(* Proofs about Jitter for every capacity, heap and stream of frames: the  *)
(* linked list stays well formed, no node is leaked or used after free,    *)
(* and the buffer implements DropOldestFifo.                               *)
(***************************************************************************)
EXTENDS Jitter, WellFoundedInduction, TLAPS

(* Following next from the same head visits the same nodes: by minimality, *)
(* there is no first position at which two such walks differ.              *)
Walk(c, N, nx, h) ==
    /\ c \in [1..N -> Nodes]
    /\ N > 0 => c[1] = h
    /\ \A i \in 1..(N - 1) : c[i + 1] = nx[c[i]]

LEMMA WalkUnique ==
    ASSUME NEW N \in Nat, NEW nx, NEW h, NEW c, NEW d,
           Walk(c, N, nx, h), Walk(d, N, nx, h)
    PROVE  c = d
<1> USE DEF Walk
<1> DEFINE T == { i \in 1..N : c[i] # d[i] }
<1>1. ASSUME T # {} PROVE FALSE
  <2>1. IsWellFoundedOn(OpToRel(<, Nat), Nat)
    BY NatLessThanWellFounded
  <2>2. T \subseteq Nat
    OBVIOUS
  <2>3. PICK i \in T : \A j \in T : ~(<<j, i>> \in OpToRel(<, Nat))
    BY <1>1, <2>1, <2>2, WFMin
  <2>4. \A j \in T : ~(j < i)
    BY <2>2, <2>3 DEF OpToRel
  <2>5. i # 1
    OBVIOUS
  <2>6. i - 1 \in 1..(N - 1) /\ i - 1 \notin T
    BY <2>4, <2>5
  <2>7. c[i - 1] = d[i - 1]
    BY <2>6
  <2>8. QED
    BY <2>6, <2>7
<1>2. QED
  BY <1>1

-----------------------------------------------------------------------------
(* The list at a state, with the sequence c of its nodes made explicit.    *)
IsList(c) ==
    /\ c \in [1..count -> Nodes]
    /\ count > 0 => c[1] = head /\ c[count] = tail /\ next[tail] = NULL
    /\ count = 0 => head = NULL /\ tail = NULL
    /\ \A i \in 1..(count - 1) : c[i + 1] = next[c[i]]
    /\ \A i, j \in 1..count : c[i] = c[j] => i = j

Range(c) == { c[i] : i \in 1..count }

(* A destroyed buffer is empty. *)
EmptyWhenGone == ~alive => count = 0

Inv == TypeOK /\ ListOK /\ NodesAccounted /\ EmptyWhenGone

(* There is one list, and Chain and Queued speak about it.                 *)
LEMMA ListFacts ==
    ASSUME count \in Nat, NEW c, IsList(c)
    PROVE  /\ c \in Chains
           /\ Chains = {c}
           /\ Chain = c
           /\ Queued = Range(c)
           /\ ListOK
<1>1. c \in Chains
  BY DEF IsList, Chains
<1>2. \A d \in Chains : d = c
  <2> SUFFICES ASSUME NEW d \in Chains PROVE d = c
    OBVIOUS
  <2>1. Walk(c, count, next, head) /\ Walk(d, count, next, head)
    BY <1>1 DEF Chains, Walk
  <2>2. QED
    BY <2>1, WalkUnique
<1>3. Chains = {c}
  BY <1>1, <1>2
<1>4. Chain = c
  BY <1>3 DEF Chain
<1>5. Queued = Range(c)
  BY <1>3 DEF Queued, Range
<1>6. ListOK
  BY <1>1 DEF IsList, ListOK
<1>7. QED
  BY <1>1, <1>3, <1>4, <1>5, <1>6

(* The same about the state after a step. *)
LEMMA ListFactsAll ==
    \A c : count \in Nat /\ IsList(c) => Queued = Range(c) /\ ListOK /\ Chains = {c}
BY ListFacts

LEMMA ListFactsNext ==
    \A c : (count \in Nat /\ IsList(c))' => (Queued = Range(c) /\ ListOK /\ Chains = {c})'
<1>1. (\A c : count \in Nat /\ IsList(c) => Queued = Range(c) /\ ListOK /\ Chains = {c})'
  BY ListFactsAll, PTL
<1>2. QED
  BY <1>1

LEMMA ListExists ==
    ASSUME count \in Nat, ListOK
    PROVE  \E c : IsList(c)
<1>1. PICK c \in Chains : /\ \A i, j \in 1..count : c[i] = c[j] => i = j
                          /\ count > 0 => c[count] = tail /\ next[tail] = NULL
  BY DEF ListOK
<1>2. IsList(c)
  BY <1>1 DEF ListOK, IsList, Chains
<1>3. QED
  BY <1>2

-----------------------------------------------------------------------------
(* The list after a push: n behind the left nodes that stay.               *)
Pushed(c, n, left, off) == [i \in 1..(left + 1) |-> IF i = left + 1 THEN n ELSE c[i + off]]

Off == IF Full THEN 1 ELSE 0

(* A push links n behind the nodes of the list that are not dropped.       *)
LEMMA PushList ==
    ASSUME TypeOK, NodesAccounted, NEW c, IsList(c),
           NEW p, NEW n \in Nodes \ liveNodes, NEW y, NEW u, NEW v,
           PushInto(p, n, y, u, v)
    PROVE  \E left \in Nat, off \in {0, 1} :
               /\ off = Off /\ left = count - off /\ count' = left + 1
               /\ IsList(Pushed(c, n, left, off))'
               /\ Range(Pushed(c, n, left, off))' = (Range(c) \ Dropped) \cup {n}
               /\ \A i \in 1..left : i + off \in 1..count
                                   /\ c[i + off] \notin Dropped \cup {n}
               /\ Full => count > 0 /\ Dropped = {c[1]}
               /\ c \in [1..count -> Nodes]
<1>1. count \in Nat /\ max \in Nat \ {0} /\ count <= max /\ NULL \notin Nodes
  BY JitterAssumption DEF TypeOK
<1> PICK off \in {0, 1} : off = Off
  BY DEF Off
<1>o. (Full <=> off = 1) /\ (~Full <=> off = 0)
  BY DEF Off
<1>f. Full => count > 0
  BY <1>1 DEF Full
<1> PICK left \in Nat : left = count - off
  BY <1>1, <1>o, <1>f
<1> DEFINE d == Pushed(c, n, left, off)
<1>2. count = left + off /\ count' = left + 1
  BY <1>1, <1>o DEF PushInto
<1>3. c \in [1..count -> Nodes] /\ \A i \in 1..count : c[i] # n
  <2>1. Queued = Range(c)
    BY <1>1, ListFacts
  <2>2. QED
    BY <2>1 DEF IsList, NodesAccounted, InUse, Range
<1>4. (Full => Dropped = {c[1]}) /\ (~Full => Dropped = {})
  BY <1>1, <1>f DEF Dropped, IsList
<1>5. left = 0 => TailLeft = NULL
  <2>1. CASE Full /\ left = 0
    <3>1. count = 1
      BY <1>2, <1>o, <2>1
    <3>2. head = tail /\ next[tail] = NULL
      BY <3>1 DEF IsList
    <3>3. QED
      BY <2>1, <3>2 DEF TailLeft
  <2>2. CASE ~Full /\ left = 0
    <3>1. count = 0
      BY <1>2, <1>o, <2>2
    <3>2. tail = NULL
      BY <3>1 DEF IsList
    <3>3. QED
      BY <2>2, <3>2 DEF TailLeft
  <2>3. QED
    BY <2>1, <2>2
<1>6. left > 0 => TailLeft = c[count] /\ TailLeft # NULL /\ HeadLeft = c[1 + off]
  <2>1. CASE Full /\ left > 0
    <3>1. next[head] = c[2] /\ c[2] \in Nodes
      BY <1>1, <1>2, <1>3, <1>o, <2>1 DEF IsList
    <3>2. QED
      BY <1>1, <1>2, <1>3, <1>o, <2>1, <3>1 DEF TailLeft, HeadLeft, IsList
  <2>2. CASE ~Full
    BY <1>1, <1>2, <1>3, <1>o, <2>2 DEF TailLeft, HeadLeft, IsList
  <2>3. QED
    BY <2>1, <2>2
<1>7. \A i \in 1..left : i + off \in 1..count /\ c[i + off] \in Nodes
  BY <1>2, <1>3
<1>8. d \in [1..(left + 1) -> Nodes] /\ d[left + 1] = n /\ \A i \in 1..left : d[i] = c[i + off]
  BY <1>7 DEF Pushed
<1>9. head' = d[1] /\ tail' = d[left + 1]
  <2>1. CASE left = 0
    BY <1>5, <1>8, <2>1 DEF PushInto
  <2>2. CASE left > 0
    BY <1>6, <1>8, <2>2 DEF PushInto
  <2>3. QED
    BY <2>1, <2>2
<1>10. next'[n] = NULL
  BY DEF PushInto
<1>11. ASSUME NEW i \in 1..left PROVE c[i + off] \notin Dropped \cup {n}
  <2>1. c[i + off] # n
    BY <1>3, <1>7
  <2>2. CASE Full
    <3>1. i + off \in 1..count /\ 1 \in 1..count /\ i + off # 1
      BY <1>2, <1>7, <1>o, <2>2
    <3>2. c[i + off] # c[1]
      BY <3>1 DEF IsList
    <3>3. QED
      BY <1>4, <2>1, <2>2, <3>2
  <2>3. CASE ~Full
    BY <1>4, <2>1, <2>3
  <2>4. QED
    BY <2>2, <2>3
<1>12. ASSUME NEW i \in 1..left PROVE d[i + 1] = next'[d[i]]
  <2>1. d[i] \in Nodes /\ d[i] \notin {n} \cup Dropped /\ d[i] = c[i + off]
    BY <1>7, <1>8, <1>11
  <2>2. CASE i = left
    <3>1. d[i] = TailLeft
      BY <1>2, <1>6, <2>1, <2>2
    <3>2. QED
      BY <1>8, <2>1, <2>2, <3>1 DEF PushInto
  <2>3. CASE i # left
    <3>1. i + off \in 1..(count - 1) /\ i + 1 \in 1..left
      BY <1>2, <2>3
    <3>2. i + off \in 1..count /\ count \in 1..count /\ i + off # count
      BY <1>1, <3>1
    <3>3. d[i] # TailLeft
      BY <1>2, <1>6, <2>1, <3>2 DEF IsList
    <3>4. next'[d[i]] = next[d[i]]
      BY <2>1, <3>3 DEF PushInto
    <3>5. next[c[i + off]] = c[(i + off) + 1]
      BY <3>1 DEF IsList
    <3>6. d[i + 1] = c[(i + 1) + off] /\ (i + 1) + off = (i + off) + 1
      BY <1>8, <3>1
    <3>7. QED
      BY <2>1, <3>4, <3>5, <3>6
  <2>4. QED
    BY <2>2, <2>3
<1>13. ASSUME NEW i \in 1..(left + 1), NEW j \in 1..(left + 1), d[i] = d[j]
       PROVE  i = j
  <2>1. CASE i = left + 1 \/ j = left + 1
    BY <1>8, <1>11, <1>13, <2>1
  <2>2. CASE i # left + 1 /\ j # left + 1
    <3>1. i \in 1..left /\ j \in 1..left
      BY <2>2
    <3>2. i + off \in 1..count /\ j + off \in 1..count /\ c[i + off] = c[j + off]
      BY <1>7, <1>8, <1>13, <3>1
    <3>3. i + off = j + off
      BY <3>2 DEF IsList
    <3>4. QED
      BY <3>3
  <2>3. QED
    BY <2>1, <2>2
<1>14. ASSUME NEW z \in Range(c), z \notin Dropped PROVE \E i \in 1..left : z = d[i]
  <2>1. PICK j \in 1..count : z = c[j]
    BY DEF Range
  <2>2. j - off \in 1..left /\ (j - off) + off = j
    BY <1>1, <1>2, <1>4, <1>14, <1>o, <2>1
  <2>3. QED
    BY <1>8, <2>1, <2>2
<1>15. { d[i] : i \in 1..(left + 1) } = (Range(c) \ Dropped) \cup {n}
  <2>1. ASSUME NEW i \in 1..(left + 1) PROVE d[i] \in (Range(c) \ Dropped) \cup {n}
    BY <1>7, <1>8, <1>11, SMTT(30) DEF Range
  <2>2. ASSUME NEW z \in (Range(c) \ Dropped) \cup {n}
        PROVE  \E i \in 1..(left + 1) : z = d[i]
    <3>1. left + 1 \in 1..(left + 1) /\ \A i \in 1..left : i \in 1..(left + 1)
      OBVIOUS
    <3>2. QED
      BY <1>8, <1>14, <3>1
  <2>3. QED
    BY <2>1, <2>2
<1>16. IsList(d)'
  <2> HIDE DEF d
  <2>1. d \in [1..count' -> Nodes] /\ count' > 0
    BY <1>2, <1>8
  <2>2. d[1] = head' /\ d[count'] = tail' /\ next'[tail'] = NULL
    BY <1>2, <1>8, <1>9, <1>10
  <2>3. \A i \in 1..(count' - 1) : d[i + 1] = next'[d[i]]
    BY <1>2, <1>12
  <2>4. \A i, j \in 1..count' : d[i] = d[j] => i = j
    BY <1>2, <1>13
  <2>5. QED
    BY <2>1, <2>2, <2>3, <2>4 DEF IsList
<1>17. Range(d)' = (Range(c) \ Dropped) \cup {n}
  BY <1>2, <1>15 DEF Range
<1>18. QED
  BY <1>2, <1>3, <1>4, <1>7, <1>11, <1>16, <1>17, <1>f

(* A pop takes the first node off the list.                                *)
Popped(c, left) == [i \in 1..left |-> c[i + 1]]

LEMMA PopList ==
    ASSUME TypeOK, NEW c, IsList(c), Pop
    PROVE  \E left \in Nat :
               /\ count = left + 1 /\ count' = left
               /\ head = c[1] /\ head \in Range(c)
               /\ c \in [1..count -> Nodes]
               /\ IsList(Popped(c, left))'
               /\ Range(Popped(c, left))' = Range(c) \ {head}
<1>1. count \in Nat \ {0} /\ NULL \notin Nodes
  BY JitterAssumption DEF TypeOK, Pop
<1> PICK left \in Nat : count = left + 1
  BY <1>1
<1> DEFINE d == Popped(c, left)
<1>2. count' = left /\ head' = next[head]
  BY DEF Pop
<1>3. c \in [1..count -> Nodes] /\ head = c[1] /\ tail = c[count] /\ next[tail] = NULL
  BY <1>1 DEF IsList
<1>4. 1 \in 1..count /\ \A i \in 1..left : i + 1 \in 1..count /\ i \in 1..(count - 1)
  OBVIOUS
<1>5. d \in [1..left -> Nodes] /\ \A i \in 1..left : d[i] = c[i + 1]
  BY <1>3, <1>4 DEF Popped
<1>6. CASE left = 0
  <2>1. head' = NULL /\ tail' = NULL /\ count' = 0
    BY <1>2, <1>3, <1>6 DEF Pop
  <2>2. IsList(d)'
    <3> HIDE DEF d
    <3>1. QED
      BY <1>5, <1>6, <2>1 DEF IsList
  <2>3. Range(d)' = Range(c) \ {head}
    BY <1>3, <1>6, <2>1 DEF Range
  <2>4. QED
    BY <1>2, <1>3, <1>4, <2>2, <2>3 DEF Range
<1>7. CASE left > 0
  <2>1. next[head] = c[2] /\ c[2] \in Nodes /\ 1 \in 1..left
    BY <1>3, <1>4, <1>7 DEF IsList
  <2>2. head' = d[1] /\ tail' = tail /\ next' = next
    BY <1>1, <1>2, <1>5, <2>1 DEF Pop
  <2>3. tail = d[left]
    BY <1>3, <1>5, <1>7
  <2>4. ASSUME NEW i \in 1..(left - 1) PROVE d[i + 1] = next[d[i]]
    <3>1. i \in 1..left /\ i + 1 \in 1..left /\ i + 1 \in 1..(count - 1)
      OBVIOUS
    <3>2. d[i] = c[i + 1] /\ d[i + 1] = c[(i + 1) + 1]
      BY <1>5, <3>1
    <3>3. QED
      BY <3>1, <3>2 DEF IsList
  <2>5. ASSUME NEW i \in 1..left, NEW j \in 1..left, d[i] = d[j] PROVE i = j
    <3>1. i + 1 \in 1..count /\ j + 1 \in 1..count /\ c[i + 1] = c[j + 1]
      BY <1>4, <1>5, <2>5
    <3>2. i + 1 = j + 1
      BY <3>1 DEF IsList
    <3>3. QED
      BY <3>2
  <2>6. IsList(d)'
    <3> HIDE DEF d
    <3>1. d \in [1..count' -> Nodes] /\ count' > 0
      BY <1>2, <1>5, <1>7
    <3>2. d[1] = head' /\ d[count'] = tail' /\ next'[tail'] = NULL
      BY <1>2, <1>3, <2>2, <2>3
    <3>3. QED
      BY <1>2, <2>2, <2>4, <2>5, <3>1, <3>2 DEF IsList
  <2>7. { d[i] : i \in 1..left } = { c[i] : i \in 1..count } \ {c[1]}
    <3>1. ASSUME NEW i \in 1..left
          PROVE  d[i] \in { c[j] : j \in 1..count } /\ d[i] # c[1]
      <4>1. i + 1 \in 1..count /\ i + 1 # 1 /\ d[i] = c[i + 1]
        BY <1>4, <1>5
      <4>2. c[i + 1] # c[1]
        BY <1>4, <4>1 DEF IsList
      <4>3. QED
        BY <4>1, <4>2
    <3>2. ASSUME NEW i \in 1..count, c[i] # c[1] PROVE \E j \in 1..left : c[i] = d[j]
      <4>1. i - 1 \in 1..left /\ (i - 1) + 1 = i
        BY <3>2
      <4>2. QED
        BY <1>5, <4>1
    <3>3. QED
      BY <3>1, <3>2
  <2>8. QED
    BY <1>2, <1>3, <1>4, <2>6, <2>7 DEF Range
<1>8. QED
  BY <1>6, <1>7

(* A step that leaves the ends and the links of the list alone leaves the  *)
(* list as it is.                                                          *)
LEMMA KeptList ==
    ASSUME count \in Nat, NEW c, IsList(c), UNCHANGED <<count, head, tail>>,
           \A m \in Range(c) : next'[m] = next[m]
    PROVE  IsList(c)' /\ Range(c)' = Range(c)
<1>1. c \in [1..count -> Nodes] /\ \A i \in 1..count : next'[c[i]] = next[c[i]]
  BY DEF IsList, Range
<1>2. \A i \in 1..(count - 1) : c[i + 1] = next'[c[i]]
  <2>1. \A i \in 1..(count - 1) : i \in 1..count
    OBVIOUS
  <2>2. QED
    BY <1>1, <2>1 DEF IsList
<1>3. count > 0 => next'[tail] = NULL
  <2>1. count > 0 => count \in 1..count
    OBVIOUS
  <2>2. QED
    BY <1>1, <2>1 DEF IsList
<1>4. IsList(c)'
  BY <1>2, <1>3 DEF IsList
<1>5. QED
  BY <1>4 DEF Range

(* An empty list, whatever the heap holds. *)
LEMMA EmptyList ==
    ASSUME count = 0, head = NULL, tail = NULL
    PROVE  IsList(<<>>) /\ Range(<<>>) = {}
BY DEF IsList, Range

-----------------------------------------------------------------------------
(* Type correctness of each operation.                                     *)
LEMMA FreeTypes ==
    ASSUME TypeOK, NEW ns, FreeNodes(ns)
    PROVE  /\ next' \in [Nodes -> Nodes \cup {NULL}]
           /\ f' \in [Nodes -> Frame]
           /\ liveNodes' \subseteq Nodes
           /\ liveBlocks' \subseteq Blocks
           /\ data' \in [Blocks -> Pts \cup {NULL}]
<1>1. Zero \in Frame
  BY DEF Zero, Frame
<1>2. QED
  BY <1>1 DEF TypeOK, FreeNodes

LEMMA PushTypes ==
    ASSUME TypeOK, NodesAccounted, NEW c, IsList(c), NEW p \in Pts,
           NEW n \in Nodes \ liveNodes,
           NEW y \in Blocks \cup {NULL}, NEW u \in Blocks \cup {NULL},
           NEW v \in Blocks \cup {NULL}, PushInto(p, n, y, u, v)
    PROVE  TypeOK'
<1>1. Zero \in Frame /\ Copied(p, y, u, v) \in Frame
  BY DEF Zero, Frame, Copied
<1>2. f' \in [Nodes -> Frame] /\ data' \in [Blocks -> Pts \cup {NULL}]
  BY <1>1 DEF TypeOK, PushInto
<1>3. liveNodes' \subseteq Nodes /\ liveBlocks' \subseteq Blocks
  BY DEF TypeOK, PushInto
<1>4. next' \in [Nodes -> Nodes \cup {NULL}]
  BY DEF TypeOK, PushInto
<1>5. count' \in 0..max'
  BY JitterAssumption DEF TypeOK, PushInto, Full
<1>6. PICK left \in Nat, off \in {0, 1} : IsList(Pushed(c, n, left, off))' /\ count' = left + 1
  BY PushList
<1>7. head' \in Nodes
  <2> DEFINE d == Pushed(c, n, left, off)
  <2> HIDE DEF d
  <2>1. d \in [1..count' -> Nodes] /\ d[1] = head' /\ 1 \in 1..count'
    <3>1. IsList(d)'
      BY <1>6 DEF d
    <3>2. QED
      BY <1>6, <3>1 DEF IsList
  <2>2. QED
    BY <2>1
<1>8. tail' = n /\ UNCHANGED <<alive, max, popped>>
  BY DEF PushInto
<1>9. QED
  BY <1>2, <1>3, <1>4, <1>5, <1>7, <1>8 DEF TypeOK

-----------------------------------------------------------------------------
(* Each operation preserves the invariant.                                 *)
LEMMA CreateStep ==
    ASSUME Inv, NEW m \in 0..MaxFrames, Create(m)
    PROVE  Inv'
<1>1. count = 0 /\ count \in Nat
  BY DEF Inv, EmptyWhenGone, Create
<1>2. PICK c : IsList(c)
  BY <1>1, ListExists DEF Inv
<1>3. IsList(c)' /\ Range(c)' = Range(c) /\ Queued = Range(c)
  BY <1>1, <1>2, KeptList, ListFacts DEF Create
<1>4. TypeOK'
  BY <1>1, JitterAssumption DEF Inv, TypeOK, Create
<1>5. count' \in Nat
  BY <1>1 DEF Create
<1>6. ListOK' /\ Queued' = Range(c)'
  BY <1>3, <1>5, ListFactsNext
<1>7. NodesAccounted'
  BY <1>3, <1>6 DEF Inv, NodesAccounted, InUse, Create
<1>8. QED
  BY <1>1, <1>4, <1>6, <1>7 DEF Inv, EmptyWhenGone, Create

LEMMA PushStep ==
    ASSUME Inv, NEW p \in Pts, NEW n \in Nodes \ liveNodes,
           NEW y \in Blocks \cup {NULL}, NEW u \in Blocks \cup {NULL},
           NEW v \in Blocks \cup {NULL}, alive, PushInto(p, n, y, u, v)
    PROVE  Inv'
<1>1. count \in Nat
  BY DEF Inv, TypeOK
<1>2. PICK c : IsList(c)
  BY <1>1, ListExists DEF Inv
<1>3. Queued = Range(c)
  BY <1>1, <1>2, ListFacts
<1>4. TypeOK'
  BY <1>2, PushTypes DEF Inv
<1>5. PICK left \in Nat, off \in {0, 1} :
         /\ off = Off /\ left = count - off /\ count' = left + 1
         /\ IsList(Pushed(c, n, left, off))'
         /\ Range(Pushed(c, n, left, off))' = (Range(c) \ Dropped) \cup {n}
         /\ \A i \in 1..left : i + off \in 1..count
                             /\ c[i + off] \notin Dropped \cup {n}
         /\ Full => count > 0 /\ Dropped = {c[1]}
         /\ c \in [1..count -> Nodes]
  BY <1>2, PushList DEF Inv
<1>6. ListOK' /\ Queued' = (Range(c) \ Dropped) \cup {n}
  <2> DEFINE d == Pushed(c, n, left, off)
  <2> HIDE DEF d
  <2>1. IsList(d)' /\ Range(d)' = (Range(c) \ Dropped) \cup {n} /\ count' \in Nat
    BY <1>5 DEF d
  <2>2. QED
    BY <2>1, ListFactsNext
<1>7. Dropped \subseteq Range(c)
  BY <1>1, <1>5 DEF Dropped, Range
<1>8. popped \notin Range(c) /\ popped # n
  BY <1>3, JitterAssumption DEF Inv, NodesAccounted, InUse, TypeOK
<1>9. liveNodes' = (liveNodes \cup {n}) \ Dropped /\ UNCHANGED popped
  BY DEF PushInto
<1>10. n \notin Range(c)
  BY <1>3 DEF Inv, NodesAccounted, InUse
<1>11. NodesAccounted'
  BY <1>3, <1>6, <1>7, <1>8, <1>9, <1>10 DEF Inv, NodesAccounted, InUse
<1>12. QED
  BY <1>4, <1>6, <1>11 DEF Inv, EmptyWhenGone, PushInto

LEMMA PopStep ==
    ASSUME Inv, Pop
    PROVE  Inv'
<1>1. count \in Nat /\ NULL \notin Nodes
  BY JitterAssumption DEF Inv, TypeOK
<1>2. PICK c : IsList(c)
  BY <1>1, ListExists DEF Inv
<1>3. Queued = Range(c)
  BY <1>1, <1>2, ListFacts
<1>4. PICK left \in Nat :
         /\ count = left + 1 /\ count' = left
         /\ head = c[1] /\ head \in Range(c)
         /\ c \in [1..count -> Nodes]
         /\ IsList(Popped(c, left))'
         /\ Range(Popped(c, left))' = Range(c) \ {head}
  BY <1>2, PopList DEF Inv
<1>5. ListOK' /\ Queued' = Range(c) \ {head}
  <2> DEFINE d == Popped(c, left)
  <2> HIDE DEF d
  <2>1. IsList(d)' /\ Range(d)' = Range(c) \ {head} /\ count' \in Nat
    BY <1>4 DEF d
  <2>2. QED
    BY <2>1, ListFactsNext
<1>6. head \in Nodes
  BY <1>4
<1>7. TypeOK'
  BY <1>4, <1>6 DEF Inv, TypeOK, Pop
<1>8. NodesAccounted'
  BY <1>1, <1>3, <1>4, <1>5, <1>6 DEF Inv, NodesAccounted, InUse, Pop
<1>9. QED
  BY <1>5, <1>7, <1>8 DEF Inv, EmptyWhenGone, Pop

LEMMA ReleaseStep ==
    ASSUME Inv, Release
    PROVE  Inv'
<1>1. count \in Nat
  BY DEF Inv, TypeOK
<1>2. PICK c : IsList(c)
  BY <1>1, ListExists DEF Inv
<1>3. Queued = Range(c) /\ popped \notin Range(c)
  BY <1>1, <1>2, ListFacts DEF Inv, NodesAccounted
<1>4. \A m \in Range(c) : next'[m] = next[m]
  <2>1. Range(c) \subseteq Nodes
    BY <1>2 DEF IsList, Range
  <2>2. QED
    BY <1>3, <2>1 DEF Release, FreeNodes
<1>5. IsList(c)' /\ Range(c)' = Range(c)
  BY <1>1, <1>2, <1>4, KeptList DEF Release
<1>6. count' \in Nat
  BY <1>1 DEF Release
<1>7. ListOK' /\ Queued' = Range(c)
  BY <1>5, <1>6, ListFactsNext
<1>8. TypeOK'
  BY FreeTypes DEF Inv, TypeOK, Release
<1>9. NodesAccounted'
  <2>1. NULL \notin Range(c)
    BY <1>2, JitterAssumption DEF IsList, Range
  <2>2. QED
    BY <1>3, <1>7, <2>1 DEF Inv, NodesAccounted, InUse, Release, FreeNodes
<1>10. QED
  BY <1>7, <1>8, <1>9 DEF Inv, EmptyWhenGone, Release

LEMMA DestroyStep ==
    ASSUME Inv, Destroy
    PROVE  Inv'
<1>1. count' = 0 /\ head' = NULL /\ tail' = NULL
  BY DEF Destroy
<1>2. (IsList(<<>>) /\ Range(<<>>) = {})'
  BY <1>1 DEF IsList, Range
<1>3. ListOK' /\ Queued' = {}
  BY <1>1, <1>2, ListFactsNext
<1>4. TypeOK'
  <2>1. max' \in 1..MaxFrames /\ count' \in 0..max'
    BY <1>1 DEF Inv, TypeOK, Destroy
  <2>2. TypeOK /\ FreeNodes(Queued)
    BY DEF Inv, Destroy
  <2>3. QED
    BY <1>1, <2>1, <2>2, FreeTypes DEF TypeOK, Destroy
<1>5. NodesAccounted'
  BY <1>3 DEF Inv, NodesAccounted, InUse, Destroy, FreeNodes
<1>6. QED
  BY <1>1, <1>3, <1>4, <1>5 DEF Inv, EmptyWhenGone

LEMMA StutterStep ==
    ASSUME Inv, UNCHANGED vars
    PROVE  Inv'
BY SMTT(30) DEF vars, Inv, TypeOK, ListOK, Chains, NodesAccounted, InUse, Queued, EmptyWhenGone

LEMMA InvInit == Init => Inv
<1> SUFFICES ASSUME Init PROVE Inv
  OBVIOUS
<1>1. IsList(<<>>) /\ Range(<<>>) = {} /\ count = 0
  BY EmptyList DEF Init
<1>2. ListOK /\ Queued = {}
  BY <1>1, ListFacts
<1>3. Zero \in Frame
  BY DEF Zero, Frame
<1>4. TypeOK
  <2>1. max \in 1..MaxFrames /\ count \in 0..max
    BY JitterAssumption DEF Init
  <2>2. QED
    BY <1>3, <2>1 DEF Init, TypeOK
<1>5. QED
  BY <1>2, <1>4 DEF Init, Inv, NodesAccounted, InUse, EmptyWhenGone

LEMMA InvNext == Inv /\ [Next]_vars => Inv'
<1> SUFFICES ASSUME Inv, [Next]_vars PROVE Inv'
  OBVIOUS
<1>1. ASSUME NEW m \in 0..MaxFrames, Create(m) PROVE Inv'
  BY <1>1, CreateStep
<1>2. ASSUME NEW p \in Pts, Push(p) PROVE Inv'
  <2>1. PICK n \in Nodes \ liveNodes, y \in Blocks \cup {NULL},
             u \in Blocks \cup {NULL}, v \in Blocks \cup {NULL} :
             alive /\ PushInto(p, n, y, u, v)
    BY <1>2 DEF Push, Malloc
  <2>2. QED
    BY <2>1, PushStep
<1>3. CASE Pop
  BY <1>3, PopStep
<1>4. CASE Release
  BY <1>4, ReleaseStep
<1>5. CASE Destroy
  BY <1>5, DestroyStep
<1>6. CASE UNCHANGED vars
  BY <1>6, StutterStep
<1>7. QED
  BY <1>1, <1>2, <1>3, <1>4, <1>5, <1>6 DEF Next

(* The types, with the counter between 0 and the capacity the buffer was   *)
(* created with: jitter_buf_push never holds more than max frames.         *)
THEOREM TypeCorrect == Spec => []TypeOK
<1>1. Inv => TypeOK
  BY DEF Inv
<1>2. QED
  BY InvInit, InvNext, <1>1, PTL DEF Spec

(* The links always form one list of count nodes from head to tail,        *)
(* whatever is pushed, dropped, popped, released or destroyed.             *)
THEOREM ListCorrect == Spec => []ListOK
<1>1. Inv => ListOK
  BY DEF Inv
<1>2. QED
  BY InvInit, InvNext, <1>1, PTL DEF Spec

(* No node of the buffer leaks, is freed twice or is used after it was     *)
(* freed: the allocated nodes are the queued ones and the popped one.      *)
THEOREM NodesCorrect == Spec => []NodesAccounted
<1>1. Inv => NodesAccounted
  BY DEF Inv
<1>2. QED
  BY InvInit, InvNext, <1>1, PTL DEF Spec

-----------------------------------------------------------------------------
(* The planes of the frames in use.                                        *)
LEMMA NodesInUse == Inv => InUse = liveNodes /\ (Full => head \in liveNodes) /\ Queued \subseteq liveNodes
<1> SUFFICES ASSUME Inv
             PROVE  InUse = liveNodes /\ (Full => head \in liveNodes) /\ Queued \subseteq liveNodes
  OBVIOUS
<1>1. count \in Nat /\ max \in Nat \ {0}
  BY JitterAssumption DEF Inv, TypeOK
<1>2. PICK c : IsList(c)
  BY <1>1, ListExists DEF Inv
<1>3. Queued = Range(c)
  BY <1>1, <1>2, ListFacts
<1>4. InUse = liveNodes
  BY DEF Inv, NodesAccounted
<1>5. Full => head \in Range(c)
  BY <1>1, <1>2 DEF Full, IsList, Range
<1>6. QED
  BY <1>3, <1>4, <1>5 DEF InUse

LEMMA FreePlanes ==
    ASSUME Inv, Inv', PlanesIntact, NEW ns \in SUBSET liveNodes, FreeNodes(ns)
    PROVE  PlanesIntact'
<1>1. InUse = liveNodes /\ InUse' = liveNodes \ ns
  BY NodesInUse DEF FreeNodes, Inv, NodesAccounted
<1>2. liveNodes \subseteq Nodes /\ data \in [Blocks -> Pts \cup {NULL}] /\ liveBlocks \subseteq Blocks
  BY DEF Inv, TypeOK
<1>3. ASSUME NEW m \in liveNodes \ ns
      PROVE  f'[m] = f[m] /\ Planes(m)' = Planes(m)
  BY <1>2 DEF FreeNodes, Planes
<1>4. ASSUME NEW m \in liveNodes \ ns, NEW b \in Planes(m)
      PROVE  b \in liveBlocks' /\ data'[b] = f'[m].pts
  <2>1. b \in liveBlocks /\ data[b] = f[m].pts /\ \A k \in ns : b \notin Planes(k)
    BY <1>1 DEF PlanesIntact
  <2>2. QED
    BY <1>2, <1>3, <2>1 DEF FreeNodes
<1>5. QED
  BY <1>1, <1>3, <1>4 DEF PlanesIntact

LEMMA PushPlanes ==
    ASSUME Inv, Inv', PlanesIntact, NEW p \in Pts, NEW n \in Nodes \ liveNodes,
           NEW y \in (Blocks \ liveBlocks) \cup {NULL},
           NEW u \in (Blocks \ liveBlocks) \cup {NULL},
           NEW v \in (Blocks \ liveBlocks) \cup {NULL},
           PushInto(p, n, y, u, v)
    PROVE  PlanesIntact'
<1>1. InUse = liveNodes /\ Dropped \subseteq liveNodes
  BY NodesInUse DEF Dropped
<1>2. InUse' = (liveNodes \ Dropped) \cup {n} /\ n \notin Dropped
  BY <1>1 DEF PushInto, Inv, NodesAccounted
<1>3. liveNodes \subseteq Nodes /\ data \in [Blocks -> Pts \cup {NULL}]
      /\ liveBlocks \subseteq Blocks /\ NULL \notin Blocks
  BY JitterAssumption DEF Inv, TypeOK
<1>4. f'[n].pts = p /\ Planes(n)' = {u, v} \ {NULL}
  <2>1. f'[n] = Copied(p, y, u, v)
    BY DEF PushInto
  <2>2. QED
    BY <2>1 DEF Copied, Planes
<1>5. ASSUME NEW m \in liveNodes \ Dropped
      PROVE  f'[m] = f[m] /\ Planes(m)' = Planes(m)
  BY <1>2, <1>3 DEF PushInto, Planes
<1>6. ASSUME NEW m \in liveNodes \ Dropped, NEW b \in Planes(m)
      PROVE  b \in liveBlocks' /\ b \notin {y, u, v} /\ data'[b] = f'[m].pts
  <2>1. b \in liveBlocks /\ data[b] = f[m].pts /\ b \notin GonePlanes
    BY <1>1 DEF PlanesIntact, GonePlanes
  <2>2. b \in Blocks /\ b \notin {y, u, v}
    BY <1>3, <2>1
  <2>3. QED
    BY <1>5, <2>1, <2>2 DEF PushInto
<1>7. GonePlanes \subseteq liveBlocks
  BY <1>1 DEF PlanesIntact, GonePlanes
<1>8. ASSUME NEW b \in {u, v} \ {NULL} PROVE b \in liveBlocks' /\ data'[b] = p
  BY <1>3, <1>7 DEF PushInto
<1>9. \A m \in liveNodes \ Dropped : Planes(m)' \cap Planes(n)' = {}
  BY <1>4, <1>5, <1>6
<1>10. \A m, k \in liveNodes \ Dropped : m # k => Planes(m)' \cap Planes(k)' = {}
  BY <1>1, <1>5 DEF PlanesIntact
<1>11. QED
  <2> SUFFICES ASSUME NEW m \in InUse'
               PROVE  /\ Planes(m)' \subseteq liveBlocks'
                      /\ \A b \in Planes(m)' : data'[b] = f'[m].pts
                      /\ \A k \in InUse' : k # m => Planes(k)' \cap Planes(m)' = {}
    BY DEF PlanesIntact
  <2>1. CASE m = n
    BY <1>2, <1>4, <1>8, <1>9, <2>1
  <2>2. CASE m \in liveNodes \ Dropped
    <3>1. \A b \in Planes(m)' : b \in liveBlocks' /\ data'[b] = f'[m].pts
      BY <1>5, <1>6, <2>2
    <3>2. \A k \in InUse' : k # m => Planes(k)' \cap Planes(m)' = {}
      BY <1>2, <1>9, <1>10, <2>2
    <3>3. QED
      BY <3>1, <3>2
  <2>3. QED
    BY <1>2, <2>1, <2>2

(* The planes of a buffered or popped frame are never freed under it and   *)
(* never shared with another frame, and still show its own picture.        *)
THEOREM PlanesCorrect == Spec => []PlanesIntact
<1>1. Init => PlanesIntact
  <2> SUFFICES ASSUME Init PROVE PlanesIntact
    OBVIOUS
  <2>1. InUse = {}
    BY InvInit, NodesInUse DEF Init
  <2>2. QED
    BY <2>1 DEF PlanesIntact
<1>2. Inv /\ Inv' /\ PlanesIntact /\ [Next]_vars => PlanesIntact'
  <2> SUFFICES ASSUME Inv, Inv', PlanesIntact, [Next]_vars PROVE PlanesIntact'
    OBVIOUS
  <2>0. InUse = liveNodes /\ InUse' = liveNodes'
    BY DEF Inv, NodesAccounted
  <2>1. ASSUME UNCHANGED <<f, data, liveNodes, liveBlocks>> PROVE PlanesIntact'
    BY <2>0, <2>1 DEF PlanesIntact, Planes
  <2>2. ASSUME NEW m \in 0..MaxFrames, Create(m) PROVE PlanesIntact'
    BY <2>1, <2>2 DEF Create
  <2>3. ASSUME NEW p \in Pts, Push(p) PROVE PlanesIntact'
    <3>1. PICK n \in Nodes \ liveNodes, y \in (Blocks \ liveBlocks) \cup {NULL},
               u \in (Blocks \ liveBlocks) \cup {NULL},
               v \in (Blocks \ liveBlocks) \cup {NULL} : PushInto(p, n, y, u, v)
      BY <2>3 DEF Push, Malloc
    <3>2. QED
      BY <3>1, PushPlanes
  <2>4. CASE Pop
    BY <2>1, <2>4 DEF Pop
  <2>5. CASE Release
    <3>1. {popped} \in SUBSET liveNodes /\ FreeNodes({popped})
      BY <2>0, <2>5 DEF Release, InUse
    <3>2. QED
      BY <3>1, FreePlanes
  <2>6. CASE Destroy
    <3>1. Queued \in SUBSET liveNodes /\ FreeNodes(Queued)
      BY <2>6, NodesInUse DEF Destroy
    <3>2. QED
      BY <3>1, FreePlanes
  <2>7. CASE UNCHANGED vars
    BY <2>1, <2>7 DEF vars
  <2>8. QED
    BY <2>2, <2>3, <2>4, <2>5, <2>6, <2>7 DEF Next
<1>3. QED
  BY InvInit, InvNext, <1>1, <1>2, PTL DEF Spec

-----------------------------------------------------------------------------
(* Sequences given by their elements.                                      *)
LEMMA SeqOf ==
    ASSUME NEW S, NEW N \in Nat, NEW q \in [1..N -> S]
    PROVE  q \in Seq(S) /\ Len(q) = N
OBVIOUS

LEMMA TailOf ==
    ASSUME NEW S, NEW N \in Nat, NEW q \in [1..(N + 1) -> S], NEW r \in [1..N -> S],
           \A i \in 1..N : r[i] = q[i + 1]
    PROVE  r = Tail(q) /\ Head(q) = q[1] /\ q # <<>>
<1>1. q \in Seq(S) /\ Len(q) = N + 1 /\ r \in Seq(S) /\ Len(r) = N
  BY SeqOf
<1>2. q # <<>>
  BY <1>1
<1>3. Tail(q) \in Seq(S) /\ Len(Tail(q)) = N /\ \A i \in 1..N : Tail(q)[i] = q[i + 1]
  BY <1>1, <1>2
<1>4. r = Tail(q)
  BY <1>1, <1>3
<1>5. QED
  BY <1>1, <1>2, <1>4

LEMMA AppendOf ==
    ASSUME NEW S, NEW N \in Nat, NEW q \in [1..N -> S], NEW p \in S,
           NEW r \in [1..(N + 1) -> S],
           r[N + 1] = p, \A i \in 1..N : r[i] = q[i]
    PROVE  r = Append(q, p)
<1>1. q \in Seq(S) /\ Len(q) = N /\ r \in Seq(S) /\ Len(r) = N + 1
  BY SeqOf
<1>2. Append(q, p) \in Seq(S) /\ Len(Append(q, p)) = N + 1
  BY <1>1
<1>3. \A i \in 1..(N + 1) : Append(q, p)[i] = r[i]
  BY <1>1
<1>4. QED
  BY <1>1, <1>2, <1>3

(* The queue the list stands for, in this state and in the next.           *)
PtsAlong(c, N, frames) == [i \in 1..N |-> frames[c[i]].pts]

LEMMA QueueAll ==
    \A c : count \in Nat /\ IsList(c) => QueuePts = PtsAlong(c, count, f)
BY ListFacts DEF QueuePts, PtsAlong

LEMMA QueueNext ==
    \A c : (count \in Nat /\ IsList(c))' => QueuePts' = PtsAlong(c, count', f')
<1>1. (\A c : count \in Nat /\ IsList(c) => QueuePts = PtsAlong(c, count, f))'
  BY QueueAll, PTL
<1>2. QED
  BY <1>1 DEF PtsAlong

LEMMA PtsAlongType ==
    ASSUME NEW N \in Nat, NEW c \in [1..N -> Nodes], NEW frames \in [Nodes -> Frame]
    PROVE  PtsAlong(c, N, frames) \in [1..N -> Pts \cup {NULL}]
BY DEF PtsAlong, Frame

(* A push is the abstract one.                                             *)
LEMMA PushMapped ==
    ASSUME Inv, Inv', NEW p \in Pts, NEW n \in Nodes \ liveNodes,
           NEW y, NEW u, NEW v, PushInto(p, n, y, u, v)
    PROVE  Fifo!Push(p)
<1>1. count \in Nat /\ count' \in Nat /\ max \in Nat \ {0} /\ count <= max /\ NULL \notin Nodes
      /\ f \in [Nodes -> Frame] /\ f' \in [Nodes -> Frame]
  BY JitterAssumption DEF Inv, TypeOK
<1>2. PICK c : IsList(c)
  BY <1>1, ListExists DEF Inv
<1>3. PICK left \in Nat, off \in {0, 1} :
         /\ off = Off /\ left = count - off /\ count' = left + 1
         /\ IsList(Pushed(c, n, left, off))'
         /\ Range(Pushed(c, n, left, off))' = (Range(c) \ Dropped) \cup {n}
         /\ \A i \in 1..left : i + off \in 1..count
                             /\ c[i + off] \notin Dropped \cup {n}
         /\ Full => count > 0 /\ Dropped = {c[1]}
         /\ c \in [1..count -> Nodes]
  BY <1>2, PushList DEF Inv
<1> DEFINE d == Pushed(c, n, left, off)
           S == Pts \cup {NULL}
           q == PtsAlong(c, count, f)
           r == PtsAlong(d, left + 1, f')
           kept == [i \in 1..left |-> f[c[i + off]].pts]
<1>4. d \in [1..(left + 1) -> Nodes] /\ d[left + 1] = n /\ \A i \in 1..left : d[i] = c[i + off]
  <2>1. \A i \in 1..left : c[i + off] \in Nodes
    BY <1>3
  <2>2. QED
    BY <2>1 DEF Pushed
<1>5. QueuePts = q /\ QueuePts' = r
  <2>1. QueuePts = q
    BY <1>1, <1>2, QueueAll
  <2>2. QueuePts' = r
    <3> HIDE DEF d
    <3>1. IsList(d)'
      BY <1>3 DEF d
    <3>2. QED
      BY <1>1, <1>3, <3>1, QueueNext
  <2>3. QED
    BY <2>1, <2>2
<1>6. q \in [1..count -> S] /\ r \in [1..(left + 1) -> S]
  BY <1>1, <1>3, <1>4, PtsAlongType
<1>7. kept \in [1..left -> S]
  BY <1>1, <1>3 DEF Frame
<1>8. \A i \in 1..left : kept[i] = q[i + off]
  BY <1>3 DEF PtsAlong
<1>9. r[left + 1] = p
  <2>1. left + 1 \in 1..(left + 1)
    OBVIOUS
  <2>2. f'[n] = Copied(p, y, u, v)
    BY DEF PushInto
  <2>3. QED
    BY <1>4, <2>1, <2>2 DEF PtsAlong, Copied
<1>10. ASSUME NEW i \in 1..left PROVE r[i] = kept[i]
  <2>1. i \in 1..(left + 1) /\ d[i] = c[i + off] /\ c[i + off] \in Nodes
    BY <1>3, <1>4
  <2>2. f'[c[i + off]] = f[c[i + off]]
    BY <1>3, <2>1 DEF PushInto
  <2>3. QED
    BY <2>1, <2>2 DEF PtsAlong
<1>11. r = Append(kept, p)
  <2> HIDE DEF r, kept
  <2>1. QED
    BY <1>6, <1>7, <1>9, <1>10, AppendOf
<1>12. Len(q) = count
  <2> HIDE DEF q
  <2>1. QED
    BY <1>1, <1>6, SeqOf
<1>13. kept = IF Len(q) < max THEN q ELSE Tail(q)
  <2>1. CASE Full
    <3>1. off = 1 /\ ~(Len(q) < max) /\ count = left + 1
      BY <1>1, <1>3, <1>12, <2>1 DEF Full, Off
    <3>2. kept = Tail(q)
      <4> HIDE DEF q, kept
      <4>1. QED
        BY <1>6, <1>7, <1>8, <3>1, TailOf
    <3>3. QED
      BY <3>1, <3>2
  <2>2. CASE ~Full
    <3>1. off = 0 /\ Len(q) < max /\ count = left
      BY <1>1, <1>3, <1>12, <2>2 DEF Full, Off
    <3>2. kept = q
      <4> HIDE DEF q, kept
      <4>1. QED
        BY <1>6, <1>7, <1>8, <3>1
    <3>3. QED
      BY <3>1, <3>2
  <2>3. QED
    BY <2>1, <2>2
<1>14. QueuePts' = Append(IF Len(QueuePts) < max THEN QueuePts ELSE Tail(QueuePts), p)
  BY <1>5, <1>11, <1>13
<1>15. HeldPts' = HeldPts /\ max' = max
  <2>1. popped' = popped /\ max' = max
    BY DEF PushInto
  <2>2. popped # NULL => popped \in liveNodes /\ popped \in Nodes
    BY DEF Inv, NodesAccounted, InUse, TypeOK
  <2>3. popped # NULL => popped \notin Dropped
    <3>1. 1 \in 1..count <=> count > 0
      BY <1>1
    <3>2. popped \notin Range(c)
      BY <1>1, <1>2, ListFacts DEF Inv, NodesAccounted
    <3>3. QED
      BY <1>3, <3>1, <3>2 DEF Range, Dropped
  <2>4. popped # NULL => f'[popped] = f[popped]
    BY <2>2, <2>3 DEF PushInto
  <2>5. QED
    BY <2>1, <2>4 DEF HeldPts
<1>16. QED
  BY <1>14, <1>15 DEF Fifo!Push

LEMMA PopMapped ==
    ASSUME Inv, Inv', Pop
    PROVE  Fifo!Pop
<1>1. count \in Nat /\ count' \in Nat /\ f \in [Nodes -> Frame] /\ NULL \notin Nodes
  BY JitterAssumption DEF Inv, TypeOK
<1>2. PICK c : IsList(c)
  BY <1>1, ListExists DEF Inv
<1>3. PICK left \in Nat :
         /\ count = left + 1 /\ count' = left
         /\ head = c[1] /\ head \in Range(c)
         /\ c \in [1..count -> Nodes]
         /\ IsList(Popped(c, left))'
         /\ Range(Popped(c, left))' = Range(c) \ {head}
  BY <1>2, PopList DEF Inv
<1> DEFINE d == Popped(c, left)
           S == Pts \cup {NULL}
           q == PtsAlong(c, count, f)
           r == PtsAlong(d, left, f)
<1>4. d \in [1..left -> Nodes] /\ \A i \in 1..left : d[i] = c[i + 1] /\ i + 1 \in 1..count
  BY <1>3 DEF Popped
<1>5. QueuePts = q /\ QueuePts' = r
  <2>1. QueuePts = q
    BY <1>1, <1>2, QueueAll
  <2>2. QueuePts' = r
    <3> HIDE DEF d
    <3>1. IsList(d)' /\ f' = f
      BY <1>3 DEF d, Pop
    <3>2. QED
      BY <1>1, <1>3, <3>1, QueueNext
  <2>3. QED
    BY <2>1, <2>2
<1>6. q \in [1..(left + 1) -> S] /\ r \in [1..left -> S]
  BY <1>1, <1>3, <1>4, PtsAlongType
<1>7. \A i \in 1..left : r[i] = q[i + 1]
  BY <1>3, <1>4 DEF PtsAlong
<1>8. r = Tail(q) /\ Head(q) = q[1] /\ q # <<>>
  <2> HIDE DEF q, r
  <2>1. QED
    BY <1>6, <1>7, TailOf
<1>9. q[1] = f[head].pts
  BY <1>3 DEF PtsAlong
<1>10. HeldPts = NULL /\ HeldPts' = f[head].pts
  <2>1. head \in Nodes
    BY <1>3
  <2>2. QED
    BY <1>1, <2>1 DEF HeldPts, Pop
<1>11. QED
  BY <1>5, <1>8, <1>9, <1>10 DEF Fifo!Pop, Pop

(* A step that frees the frames of ns leaves every other frame as it was.  *)
LEMMA OthersKept ==
    ASSUME NEW ns, FreeNodes(ns), NEW m \in Nodes \ ns
    PROVE  f'[m] = f[m]
BY DEF FreeNodes

LEMMA ReleaseMapped ==
    ASSUME Inv, Inv', Release
    PROVE  Fifo!Release
<1>1. count \in Nat /\ count' = count /\ popped' = NULL /\ max' = max
  BY DEF Inv, TypeOK, Release
<1>2. PICK c : IsList(c)
  BY <1>1, ListExists DEF Inv
<1>3. popped \notin Range(c) /\ c \in [1..count -> Nodes]
  BY <1>1, <1>2, ListFacts DEF Inv, NodesAccounted, IsList
<1>4. \A i \in 1..count : f'[c[i]] = f[c[i]] /\ next'[c[i]] = next[c[i]]
  BY <1>3 DEF Release, FreeNodes, Range
<1>5. IsList(c)'
  BY <1>1, <1>2, <1>4, KeptList DEF Release, Range
<1>6. QueuePts = PtsAlong(c, count, f) /\ QueuePts' = PtsAlong(c, count', f')
  BY <1>1, <1>2, <1>5, QueueAll, QueueNext
<1>7. QueuePts' = QueuePts
  BY <1>1, <1>4, <1>6 DEF PtsAlong
<1>8. HeldPts' = NULL
  BY <1>1 DEF HeldPts
<1>9. QED
  BY <1>1, <1>7, <1>8 DEF Fifo!Release

(* Without frames, the queue is empty. *)
LEMMA EmptyQueueNext == (count = 0 /\ head = NULL /\ tail = NULL)' => QueuePts' = <<>>
<1>1. (count = 0 /\ head = NULL /\ tail = NULL)' => IsList(<<>>)'
  BY DEF IsList
<1>2. (count \in Nat /\ IsList(<<>>))' => QueuePts' = PtsAlong(<<>>, count', f')
  BY QueueNext
<1>3. count' = 0 => PtsAlong(<<>>, count', f') = <<>>
  BY DEF PtsAlong
<1>4. QED
  BY <1>1, <1>2, <1>3

LEMMA ClearMapped ==
    ASSUME Inv, Inv', Destroy \/ \E m \in 0..MaxFrames : Create(m)
    PROVE  Fifo!Clear
<1>1. count' = 0 /\ head' = NULL /\ tail' = NULL
  BY DEF Inv, EmptyWhenGone, ListOK, Create, Destroy
<1>2. QueuePts' = <<>>
  BY <1>1, EmptyQueueNext
<1>3. max' \in Nat \ {0}
  BY JitterAssumption DEF Inv, TypeOK
<1>4. HeldPts' = HeldPts
  <2>1. CASE Destroy
    <3>1. popped \notin Queued /\ popped' = popped /\ FreeNodes(Queued)
          /\ popped \in Nodes \cup {NULL}
      BY <2>1 DEF Inv, TypeOK, NodesAccounted, Destroy
    <3>2. popped # NULL => f'[popped] = f[popped]
      BY <3>1, OthersKept
    <3>3. QED
      BY <3>1, <3>2 DEF HeldPts
  <2>2. CASE \E m \in 0..MaxFrames : Create(m)
    BY <2>2 DEF Create, HeldPts
  <2>3. QED
    BY <2>1, <2>2
<1>5. QED
  BY <1>2, <1>3, <1>4 DEF Fifo!Clear

(* The linked list implements the drop-oldest FIFO: a push into a full     *)
(* buffer drops the oldest frame and no other, frames come out in the      *)
(* order they went in, and a popped frame is not disturbed by later calls. *)
THEOREM FifoImplemented == Spec => ImplementsFifo
<1>1. Init => Fifo!Init
  <2> SUFFICES ASSUME Init PROVE Fifo!Init
    OBVIOUS
  <2>1. IsList(<<>>) /\ count = 0
    BY EmptyList DEF Init
  <2>2. QueuePts = <<>>
    BY <2>1, QueueAll DEF PtsAlong
  <2>3. QED
    BY <2>2 DEF Init, Fifo!Init, HeldPts
<1>2. Inv /\ Inv' /\ [Next]_vars => [Fifo!Next]_(Fifo!fifoVars)
  <2> SUFFICES ASSUME Inv, Inv', [Next]_vars PROVE [Fifo!Next]_(Fifo!fifoVars)
    OBVIOUS
  <2>1. ASSUME NEW p \in Pts, Push(p) PROVE Fifo!Next
    <3>1. PICK n \in Nodes \ liveNodes, y \in Blocks \cup {NULL}, u \in Blocks \cup {NULL}, v \in Blocks \cup {NULL} :
             PushInto(p, n, y, u, v)
      BY <2>1 DEF Push, Malloc
    <3>2. QED
      BY <3>1, PushMapped DEF Fifo!Next
  <2>2. CASE Pop
    BY <2>2, PopMapped DEF Fifo!Next
  <2>3. CASE Release
    BY <2>3, ReleaseMapped DEF Fifo!Next
  <2>4. CASE Destroy \/ \E m \in 0..MaxFrames : Create(m)
    BY <2>4, ClearMapped DEF Fifo!Next
  <2>5. CASE UNCHANGED vars
    BY <2>5 DEF vars, Fifo!fifoVars, QueuePts, Chain, Chains, HeldPts
  <2>6. QED
    BY <2>1, <2>2, <2>3, <2>4, <2>5 DEF Next
<1>3. QED
  BY InvInit, InvNext, <1>1, <1>2, PTL DEF Spec, ImplementsFifo, Fifo!Spec
=============================================================================
