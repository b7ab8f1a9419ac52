--------------------------- MODULE Pairing_proofs ---------------------------
(***************************************************************************)
(* Proofs about Pairing for all hosts, addresses and sizes, whenever the   *)
(* program ends and wherever a write or read falls short: a store is sound *)
(* record by record, which no torn file undoes, and what was reported and  *)
(* is not lost is in memory while the program runs, and in whole records   *)
(* of the file unless it is being written.                                 *)
(***************************************************************************)
EXTENDS Pairing, SequenceTheorems, TLAPS

(* A record: a key belongs to the certificate beside it, and paired means  *)
(* that the certificate is among those trusted.                            *)
Sound(r, accepted) ==
    /\ r.key \in {None, Half, r.cert}
    /\ r.cert = None => r.key = None
    /\ r.paired => r.key = r.cert /\ Pairing(r) \in accepted /\ r.cert \in 1..MaxCerts

OnePerHost(s) ==
    \A i, j \in 1..Len(s) : s[i].ip = s[j].ip /\ Plain(s[i].ip) => i = j

Store(s, accepted) ==
    /\ s \in Seq(Record)
    /\ Len(s) <= MAX_HOSTS
    /\ \A i \in 1..Len(s) : Sound(s[i], accepted)
    /\ OnePerHost(s)

StoresSound ==
    /\ disk \in [recs : Seq(Record), len : Nat]
    /\ Store(mem, trusted)
    /\ Store(disk.recs, trusted)
    /\ pc \in {"writing", "writing again"} => disk.recs = mem

(* The host being paired has been told its certificate's owner, and counts *)
(* as paired before the file is written.                                   *)
CurrentSound ==
    /\ pc = "pairchallenge" => mem[cur].key = mem[cur].cert /\ mem[cur].cert \in 1..MaxCerts
    /\ pc \in Saves => mem[cur].paired

Kept ==
    /\ pc # "off" => won \ lost \subseteq Pairings(mem)
    /\ pc \notin {"writing", "writing again"} => won \ lost \subseteq Stored(disk)

Inv == TypeOK /\ StoresSound /\ CurrentSound /\ Kept

-----------------------------------------------------------------------------
(* Addresses. *)
LEMMA CutString ==
    ASSUME NEW S, NEW s \in Seq(S), NEW n \in Int
    PROVE  /\ Cut(s, n) \in Seq(S)
           /\ Len(Cut(s, n)) = IF n >= Len(s) THEN Len(s) ELSE IF n >= 0 THEN n ELSE 0
           /\ \A i \in 1..Len(Cut(s, n)) : Cut(s, n)[i] = s[i]
<1>1. CASE n >= Len(s)
  BY <1>1 DEF Cut
<1>2. CASE n < Len(s) /\ n >= 0
  <2>1. Cut(s, n) = SubSeq(s, 1, n)
    BY <1>2 DEF Cut
  <2>2. QED
    BY <1>2, <2>1
<1>3. CASE n < 0
  <2>1. Cut(s, n) = SubSeq(s, 1, n) /\ n < Len(s)
    BY <1>3 DEF Cut
  <2>2. SubSeq(s, 1, n) = <<>>
    BY <1>3
  <2>3. QED
    BY <1>3, <2>1, <2>2
<1>4. QED
  BY <1>1, <1>2, <1>3

(* An address cut in two places is one cut at the earlier of them. *)
LEMMA CutCut ==
    ASSUME NEW a \in Addresses, NEW n \in Int
    PROVE  /\ Cut(a, n) \in Addresses
           /\ n >= IpLen => Cut(a, n) = a
           /\ Plain(Cut(a, n)) => Cut(a, n) = a
<1>1. PICK ip \in Ips : \E m \in 0..IpLen : a = Cut(ip, m)
  BY DEF Addresses
<1>2. PICK m \in 0..IpLen : a = Cut(ip, m)
  BY <1>1
<1> DEFINE S == Range(ip)
<1>3. ip \in Seq(S) /\ Len(ip) \in 1..IpLen /\ IpLen \in Nat
  BY PairingAssumption
<1> HIDE DEF S
<1>4. /\ a \in Seq(S)
      /\ Len(a) = IF m >= Len(ip) THEN Len(ip) ELSE m
      /\ \A i \in 1..Len(a) : a[i] = ip[i]
  BY <1>2, <1>3, CutString
<1> DEFINE c == Cut(a, n)
           k == IF n < 0 THEN 0 ELSE IF n < m THEN n ELSE m
           d == Cut(ip, k)
<1>5. /\ c \in Seq(S)
      /\ Len(c) = IF n >= Len(a) THEN Len(a) ELSE IF n >= 0 THEN n ELSE 0
      /\ \A i \in 1..Len(c) : c[i] = a[i]
  BY <1>4, CutString
<1>6. k \in 0..IpLen
  BY <1>3
<1>7. /\ d \in Seq(S)
      /\ Len(d) = IF k >= Len(ip) THEN Len(ip) ELSE k
      /\ \A i \in 1..Len(d) : d[i] = ip[i]
  BY <1>3, <1>6, CutString
<1>8. n >= Len(a) => c = a
  BY DEF Cut
<1> HIDE DEF c, d
<1>9. Len(c) = Len(d) /\ \A i \in 1..Len(c) : c[i] = d[i]
  <2>1. Len(c) = Len(d)
    BY <1>3, <1>4, <1>5, <1>7
  <2>2. Len(c) <= Len(a) /\ Len(a) \in Nat /\ Len(c) \in Nat
    BY <1>3, <1>4, <1>5
  <2>3. QED
    BY <1>4, <1>5, <1>7, <2>1, <2>2
<1>10. c = d
  BY <1>5, <1>7, <1>9, SeqEqual
<1>11. c \in Addresses
  BY <1>6, <1>10 DEF Addresses, d
<1>12. n >= IpLen => c = a
  BY <1>3, <1>4, <1>8
<1>13. ASSUME Plain(c) PROVE c = a
  <2>1. c \in Ips /\ \A q \in Ips, j \in 1..IpLen : Cut(q, j) = c => q = c
    BY <1>13 DEF Plain
  <2>2. Len(c) >= 1
    BY <2>1, PairingAssumption
  <2>3. k \in 1..IpLen
    <3> HIDE DEF k
    <3>1. QED
      BY <1>3, <1>6, <1>7, <1>9, <2>2
  <2>4. ip = c
    BY <1>10, <2>1, <2>3 DEF d
  <2>5. n >= Len(a)
    <3>1. Len(c) = Len(ip)
      BY <2>4
    <3>2. QED
      BY <1>3, <1>4, <1>5, <2>2, <3>1
  <2>6. QED
    BY <1>8, <2>5
<1>14. QED
  BY <1>11, <1>12, <1>13 DEF c

LEMMA WholeAddress == ASSUME NEW ip \in Ips PROVE ip \in Addresses
<1>1. IpLen \in Nat /\ Len(ip) \in 1..IpLen
  BY PairingAssumption
<1>2. Cut(ip, IpLen) = ip /\ IpLen \in 0..IpLen
  BY <1>1 DEF Cut
<1>3. QED
  BY <1>2 DEF Addresses

-----------------------------------------------------------------------------
(* Records. *)
LEMMA RecordFields ==
    ASSUME NEW r \in Record
    PROVE  /\ r = [ip |-> r.ip, cert |-> r.cert, key |-> r.key, paired |-> r.paired]
           /\ r.ip \in Addresses /\ r.cert \in Pem /\ r.key \in Pem
           /\ r.paired \in BOOLEAN
BY DEF Record

LEMMA Pems == {None, Half} \subseteq Pem /\ Pem \subseteq Int /\ 1..MaxCerts \subseteq Pem
BY PairingAssumption DEF Pem, None, Half

LEMMA NewRecord ==
    ASSUME NEW ip \in Ips
    PROVE  /\ [Zeroed EXCEPT !.ip = ip] \in Record
           /\ [Zeroed EXCEPT !.ip = ip].ip = ip
           /\ \A accepted : Sound([Zeroed EXCEPT !.ip = ip], accepted)
BY Pems, WholeAddress DEF Zeroed, Record, Sound

(* What is left of a record is sound if it was; all of it is the record.   *)
LEMMA TornRecord ==
    ASSUME NEW r \in Record, NEW n \in Int
    PROVE  /\ Torn(r, n) \in Record
           /\ Plain(Torn(r, n).ip) => Torn(r, n).ip = r.ip
           /\ \A accepted : Sound(r, accepted) => Sound(Torn(r, n), accepted)
           /\ n >= RecordLen => Torn(r, n) = r
<1> DEFINE t == Torn(r, n)
<1>1. /\ t = [ip |-> t.ip, cert |-> t.cert, key |-> t.key, paired |-> t.paired]
      /\ t.ip = Cut(r.ip, n)
      /\ t.cert = Part(r.cert, n - IpLen)
      /\ t.key = Part(r.key, n - IpLen - 2)
      /\ t.paired = (n >= RecordLen /\ r.paired)
  BY DEF Torn
<1>2. IpLen \in Nat /\ RecordLen = IpLen + 5
  BY PairingAssumption DEF RecordLen
<1>3. r.ip \in Addresses /\ r.cert \in Pem /\ r.key \in Pem /\ r.paired \in BOOLEAN
  BY RecordFields
<1>4. \A v \in Pem, i \in Int : Part(v, i) \in {None, Half, v} /\ Part(v, i) \in Pem
  BY Pems DEF Part
<1> HIDE DEF t
<1>5. /\ t.ip \in Addresses
      /\ Plain(t.ip) => t.ip = r.ip
      /\ n >= RecordLen => t.ip = r.ip
  <2>1. n >= RecordLen => n >= IpLen
    BY <1>2
  <2>2. QED
    BY <1>1, <1>3, <2>1, CutCut
<1>6. t.cert \in {None, Half, r.cert} /\ t.cert \in Pem /\ t.key \in {None, Half, r.key} /\ t.key \in Pem
  BY <1>1, <1>2, <1>3, <1>4
<1>7. t \in Record
  <2>1. t.paired \in BOOLEAN
    BY <1>1
  <2>2. QED
    BY <1>1, <1>5, <1>6, <2>1 DEF Record
<1>8. n >= RecordLen => t.cert = r.cert /\ t.key = r.key
  BY <1>1, <1>2, <1>3, Pems DEF Part, None
<1>9. n >= RecordLen => t = r
  <2> SUFFICES ASSUME n >= RecordLen PROVE t = r
    OBVIOUS
  <2>1. t.paired = r.paired
    <3>1. t.paired = (TRUE /\ r.paired)
      BY <1>1
    <3>2. r.paired \in BOOLEAN
      BY <1>3
    <3>3. QED
      BY <3>1, <3>2
  <2>2. QED
    BY <1>1, <1>5, <1>8, <2>1, RecordFields
<1>10. ASSUME NEW accepted, Sound(r, accepted) PROVE Sound(t, accepted)
  <2>1. t.key = None \/ t.cert = r.cert
    BY <1>1, <1>2, <1>3, Pems DEF Part, None
  <2>2. t.key \in {None, Half, t.cert}
    BY <1>6, <1>10, <2>1 DEF Sound
  <2>3. t.cert = None => t.key = None
    <3>1. t.cert = None /\ t.key # None => r.cert = None
      BY <2>1
    <3>2. r.cert = None => r.key = None
      BY <1>10 DEF Sound
    <3>3. r.key = None => t.key = None
      BY <1>1 DEF Part
    <3>4. QED
      BY <3>1, <3>2, <3>3
  <2>4. t.paired => t = r /\ r.paired
    BY <1>1, <1>9
  <2>5. QED
    BY <1>10, <2>2, <2>3, <2>4 DEF Sound
<1>11. QED
  BY <1>5, <1>7, <1>9, <1>10 DEF t

-----------------------------------------------------------------------------
(* Stores. *)
LEMMA StoreTrusts ==
    ASSUME NEW s, NEW A, NEW B, A \subseteq B, Store(s, A)
    PROVE  Store(s, B)
BY DEF Store, Sound

LEMMA StoreAppends ==
    ASSUME NEW s, NEW A, Store(s, A), Len(s) < MAX_HOSTS, NEW ip \in Ips,
           ip \in LongIps \/ \A i \in 1..Len(s) : s[i].ip # ip
    PROVE  Store(Append(s, [Zeroed EXCEPT !.ip = ip]), A)
<1> DEFINE r == [Zeroed EXCEPT !.ip = ip]
           t == Append(s, r)
<1>1. r \in Record /\ r.ip = ip /\ Sound(r, A)
  BY NewRecord
<1>2. s \in Seq(Record)
  BY DEF Store
<1> HIDE DEF r
<1>3. /\ t \in Seq(Record) /\ Len(t) = Len(s) + 1
      /\ \A i \in 1..Len(t) : t[i] = IF i <= Len(s) THEN s[i] ELSE r
  BY <1>1, <1>2
<1> HIDE DEF t
<1>4. Len(t) <= MAX_HOSTS
  BY <1>2, <1>3, PairingAssumption
<1>5. \A i \in 1..Len(t) : Sound(t[i], A)
  BY <1>1, <1>2, <1>3 DEF Store
<1>6. OnePerHost(t)
  <2> SUFFICES ASSUME NEW i \in 1..Len(t), NEW j \in 1..Len(t), t[i].ip = t[j].ip,
                      Plain(t[i].ip), i < j
               PROVE  FALSE
    BY <1>2, <1>3 DEF OnePerHost
  <2>1. i \in 1..Len(s) /\ t[i] = s[i]
    BY <1>2, <1>3
  <2>2. CASE j \in 1..Len(s)
    BY <1>3, <2>1, <2>2 DEF Store, OnePerHost
  <2>3. CASE j = Len(s) + 1
    <3>1. Plain(ip) => ip \notin LongIps
      BY DEF Plain
    <3>2. t[i].ip = ip /\ s[i].ip = ip
      BY <1>1, <1>2, <1>3, <2>1, <2>3
    <3>3. QED
      BY <2>1, <3>1, <3>2
  <2>4. QED
    BY <1>2, <1>3, <2>2, <2>3
<1>7. QED
  BY <1>3, <1>4, <1>5, <1>6 DEF Store, t, r

LEMMA StoreReplaces ==
    ASSUME NEW s, NEW A, Store(s, A), NEW i \in 1..Len(s), NEW r \in Record,
           Sound(r, A), r.ip = s[i].ip
    PROVE  /\ Store([s EXCEPT ![i] = r], A)
           /\ Len([s EXCEPT ![i] = r]) = Len(s)
           /\ \A j \in 1..Len(s) : [s EXCEPT ![i] = r][j] = IF j = i THEN r ELSE s[j]
<1> DEFINE t == [s EXCEPT ![i] = r]
<1>1. s \in Seq(Record)
  BY DEF Store
<1>2. /\ t \in Seq(Record) /\ Len(t) = Len(s)
      /\ \A j \in 1..Len(s) : t[j] = IF j = i THEN r ELSE s[j]
  BY <1>1
<1> HIDE DEF t
<1>3. \A j \in 1..Len(t) : Sound(t[j], A) /\ t[j].ip = s[j].ip
  BY <1>2 DEF Store
<1>4. Store(t, A)
  BY <1>2, <1>3 DEF Store, OnePerHost
<1>5. QED
  BY <1>2, <1>4 DEF t

(* Whatever is there of the file, loading it gives a store, with every     *)
(* pairing that is in a whole record.                                      *)
LEMMA StoreLoaded ==
    ASSUME NEW file \in [recs : Seq(Record), len : Nat], NEW A, Store(file.recs, A)
    PROVE  /\ Store(Loaded(file), A)
           /\ Stored(file) \subseteq Pairings(Loaded(file))
<1> DEFINE s == file.recs
<1>0. s \in Seq(Record) /\ Len(s) \in Nat /\ file.len \in Nat /\ RecordLen \in Nat
  BY PairingAssumption DEF RecordLen
<1>1. CASE file.len = 0
  <2>1. Loaded(file) = <<>>
    BY <1>1 DEF Loaded
  <2>2. Store(<<>>, A)
    BY PairingAssumption DEF Store, OnePerHost
  <2>3. Stored(file) = {}
    <3>1. \A j \in 1..Len(s) : ~(file.len >= 1 + RecordLen * j)
      BY <1>0, <1>1
    <3>2. QED
      BY <3>1 DEF Stored
  <2>4. QED
    BY <2>1, <2>2, <2>3
<1>2. CASE file.len # 0
  <2> DEFINE left(i) == file.len - 1 - RecordLen * (i - 1)
             t == [i \in 1..Len(s) |-> Torn(s[i], left(i))]
  <2>1. Loaded(file) = t
    BY <1>2 DEF Loaded, Read
  <2>2. ASSUME NEW i \in 1..Len(s)
        PROVE  /\ left(i) \in Int
               /\ s[i] \in Record
               /\ file.len >= 1 + RecordLen * i => left(i) >= RecordLen
    <3>1. RecordLen * i = RecordLen * (i - 1) + RecordLen /\ RecordLen * (i - 1) \in Int
      BY <1>0
    <3>2. left(i) \in Int /\ s[i] \in Record
      BY <1>0, <3>1
    <3>3. QED
      BY <1>0, <3>1, <3>2
  <2> HIDE DEF left
  <2>3. \A i \in 1..Len(s) : /\ t[i] \in Record
                             /\ Plain(t[i].ip) => t[i].ip = s[i].ip
                             /\ Sound(s[i], A) => Sound(t[i], A)
                             /\ file.len >= 1 + RecordLen * i => t[i] = s[i]
    <3> SUFFICES ASSUME NEW i \in 1..Len(s)
                 PROVE  /\ t[i] \in Record
                        /\ Plain(t[i].ip) => t[i].ip = s[i].ip
                        /\ Sound(s[i], A) => Sound(t[i], A)
                        /\ file.len >= 1 + RecordLen * i => t[i] = s[i]
      OBVIOUS
    <3>1. t[i] = Torn(s[i], left(i))
      OBVIOUS
    <3> HIDE DEF t
    <3>2. QED
      BY <2>2, <3>1, TornRecord
  <2>4. t \in Seq(Record) /\ Len(t) = Len(s)
    <3>1. \A i \in 1..Len(s) : Torn(s[i], left(i)) \in Record
      BY <2>2, TornRecord
    <3>2. QED
      BY <1>0, <3>1
  <2> HIDE DEF t
  <2>5. Store(t, A)
    <3>1. OnePerHost(s) /\ Len(s) <= MAX_HOSTS /\ \A i \in 1..Len(s) : Sound(s[i], A)
      BY DEF Store
    <3>2. OnePerHost(t)
      BY <2>3, <2>4, <3>1 DEF OnePerHost
    <3>3. QED
      BY <2>3, <2>4, <3>1, <3>2 DEF Store
  <2>6. ASSUME NEW w \in Stored(file) PROVE w \in Pairings(t)
    <3>1. PICK i \in 1..Len(s) : s[i].paired /\ file.len >= 1 + RecordLen * i /\ w = Pairing(s[i])
      BY <2>6 DEF Stored
    <3>2. i \in 1..Len(t) /\ t[i] = s[i]
      BY <2>3, <2>4, <3>1
    <3>3. QED
      BY <3>1, <3>2 DEF Pairings
  <2>7. QED
    BY <2>1, <2>5, <2>6
<1>3. QED
  BY <1>1, <1>2

-----------------------------------------------------------------------------
(* What is held stays held as long as the records that are paired stay.    *)
LEMMA HoldsStill ==
    ASSUME NEW s \in Seq(Record), NEW t \in Seq(Record), Len(s) <= Len(t),
           \A i \in 1..Len(s) : s[i].paired =>
               t[i].paired /\ t[i].ip = s[i].ip /\ t[i].cert = s[i].cert
    PROVE  Pairings(s) \subseteq Pairings(t)
<1> SUFFICES ASSUME NEW w \in Pairings(s) PROVE w \in Pairings(t)
  OBVIOUS
<1>1. PICK i \in 1..Len(s) : s[i].paired /\ w = Pairing(s[i])
  BY DEF Pairings
<1>2. i \in 1..Len(t) /\ t[i].paired /\ w = Pairing(t[i])
  BY <1>1 DEF Pairing
<1>3. QED
  BY <1>2 DEF Pairings

LEMMA StoredThere == ASSUME NEW file PROVE Stored(file) \subseteq Pairings(file.recs)
BY DEF Stored, Pairings

(* Less of a file holds no more. *)
LEMMA ReadLess ==
    ASSUME NEW file \in [recs : Seq(Record), len : Nat], NEW n \in 0..file.len
    PROVE  /\ [file EXCEPT !.len = n] \in [recs : Seq(Record), len : Nat]
           /\ [file EXCEPT !.len = n].recs = file.recs
           /\ Stored([file EXCEPT !.len = n]) \subseteq Stored(file)
<1> DEFINE less == [file EXCEPT !.len = n]
<1>1. /\ less \in [recs : Seq(Record), len : Nat]
      /\ less.recs = file.recs /\ less.len = n /\ n <= file.len /\ file.len \in Nat
  OBVIOUS
<1> HIDE DEF less
<1>2. \A j \in 1..Len(file.recs) : less.len >= 1 + RecordLen * j => file.len >= 1 + RecordLen * j
  <2>1. \A j \in 1..Len(file.recs) : RecordLen * j \in Int
    BY <1>1, PairingAssumption DEF RecordLen
  <2>2. QED
    BY <1>1, <2>1
<1>3. Stored(less) \subseteq Stored(file)
  BY <1>1, <1>2 DEF Stored
<1>4. QED
  BY <1>1, <1>3 DEF less

(* A pairing in a store is one that its host accepted. *)
LEMMA PairingsTrusted == ASSUME NEW s, NEW A, Store(s, A) PROVE Pairings(s) \subseteq A
BY DEF Store, Sound, Pairings

LEMMA InvInit == Init => Inv
<1> SUFFICES ASSUME Init PROVE Inv
  OBVIOUS
<1>1. TypeOK
  <2>1. /\ scan \in [round : 0..Rounds, found : 0..MAX_DISCOVERED]
        /\ cur \in 1..MAX_HOSTS /\ certs \in 0..MaxCerts /\ boots \in 0..MaxBoots
    BY PairingAssumption DEF Init
  <2>2. mem \in Seq(Record) /\ Len(mem) <= MAX_HOSTS
    BY PairingAssumption DEF Init
  <2>3. disk.recs \in Seq(Record) /\ disk.len \in 0..FileLen(disk.recs)
    BY PairingAssumption DEF Init, FileLen, RecordLen
  <2>4. QED
    BY <2>1, <2>2, <2>3 DEF Init, TypeOK, Requests, Saves
<1>2. Store(<<>>, {})
  BY PairingAssumption DEF Store, OnePerHost
<1>3. StoresSound
  BY <1>2 DEF Init, StoresSound
<1>4. CurrentSound /\ Kept
  BY DEF Init, CurrentSound, Kept, Saves
<1>5. QED
  BY <1>1, <1>3, <1>4 DEF Inv

(* A start of the program. *)
LEMMA BootInv == ASSUME Inv, Boot PROVE Inv'
<1>1. PICK n \in 0..disk.len :
         /\ mem' = Loaded([disk EXCEPT !.len = n])
         /\ lost' = (lost \cup Pairings(disk.recs)) \ Stored([disk EXCEPT !.len = n])
  BY DEF Boot
<1>2. /\ pc = "off" /\ pc' = "discovering"
      /\ boots < MaxBoots /\ boots' = boots + 1
      /\ scan' = [round |-> 0, found |-> 0]
      /\ UNCHANGED <<cur, disk, trusted, certs, won>>
  BY DEF Boot
<1> DEFINE read == [disk EXCEPT !.len = n]
<1>3. /\ disk \in [recs : Seq(Record), len : Nat] /\ Store(disk.recs, trusted)
      /\ read \in [recs : Seq(Record), len : Nat] /\ read.recs = disk.recs
      /\ Stored(read) \subseteq Stored(disk)
  BY ReadLess DEF Inv, StoresSound
<1>4. mem' = Loaded(read) /\ lost' = (lost \cup Pairings(disk.recs)) \ Stored(read)
  BY <1>1
<1> HIDE DEF read
<1>5. Store(mem', trusted) /\ Stored(read) \subseteq Pairings(mem')
  BY <1>3, <1>4, StoreLoaded
<1>6. lost' \subseteq trusted
  BY <1>3, <1>4, PairingsTrusted DEF Inv, TypeOK
<1>7. TypeOK'
  <2>1. boots' \in 0..MaxBoots /\ scan' \in [round : 0..Rounds, found : 0..MAX_DISCOVERED]
    BY <1>2, PairingAssumption DEF Inv, TypeOK
  <2>2. mem' \in Seq(Record) /\ Len(mem') <= MAX_HOSTS
    BY <1>5 DEF Store
  <2>3. QED
    BY <1>2, <1>6, <2>1, <2>2 DEF Inv, TypeOK, Requests, Saves
<1>8. StoresSound'
  BY <1>2, <1>5 DEF Inv, StoresSound
<1>9. CurrentSound'
  BY <1>2 DEF CurrentSound, Saves
<1>10. Kept'
  <2>1. won' \ lost' \subseteq Stored(read)
    <3>1. won \ lost \subseteq Stored(disk)
      BY <1>2 DEF Inv, Kept
    <3>2. Stored(disk) \subseteq Pairings(disk.recs)
      BY StoredThere
    <3>3. QED
      BY <1>2, <1>4, <3>1, <3>2
  <2>2. disk' = disk
    BY <1>2
  <2>3. QED
    BY <1>3, <1>5, <2>1, <2>2 DEF Kept
<1>11. QED
  BY <1>7, <1>8, <1>9, <1>10 DEF Inv

(* The records of what is found come after those that are there.           *)
LEMMA DiscoverInv == ASSUME Inv, NEW ip \in Ips, Discover(ip) PROVE Inv'
<1>1. /\ pc = "discovering" /\ scan.round < Rounds /\ scan.found < MAX_DISCOVERED
      /\ scan' = [round |-> scan.round + 1, found |-> scan.found + 1]
      /\ UNCHANGED <<pc, cur, disk, trusted, certs, boots, won, lost>>
  BY DEF Discover
<1>2. mem \in Seq(Record) /\ Store(mem, trusted)
  BY DEF Inv, StoresSound, TypeOK
<1>3. \/ mem' = mem
      \/ /\ Len(mem) < MAX_HOSTS /\ mem' = Append(mem, [Zeroed EXCEPT !.ip = ip])
         /\ ip \in LongIps \/ \A i \in 1..Len(mem) : mem[i].ip # ip
  BY DEF Discover, Added, Appended, IsNew, Known, Room
<1>4. Store(mem', trusted)
  BY <1>2, <1>3, StoreAppends
<1>5. /\ mem' \in Seq(Record) /\ Len(mem) <= Len(mem')
      /\ \A i \in 1..Len(mem) : mem'[i] = mem[i]
  <2>1. CASE mem' = mem
    BY <1>2, <2>1
  <2>2. CASE mem' = Append(mem, [Zeroed EXCEPT !.ip = ip])
    <3>1. [Zeroed EXCEPT !.ip = ip] \in Record
      BY NewRecord
    <3>2. QED
      BY <1>2, <2>2, <3>1
  <2>3. QED
    BY <1>3, <2>1, <2>2
<1>6. TypeOK'
  <2>1. scan' \in [round : 0..Rounds, found : 0..MAX_DISCOVERED]
    BY <1>1, PairingAssumption, SMTT(30) DEF Inv, TypeOK
  <2>2. QED
    BY <1>1, <1>4, <1>5, <2>1 DEF Inv, TypeOK, Store, Requests, Saves
<1>7. StoresSound' /\ CurrentSound'
  BY <1>1, <1>4 DEF Inv, StoresSound, CurrentSound, Saves
<1>8. Kept'
  <2>1. Pairings(mem) \subseteq Pairings(mem')
    BY <1>2, <1>5, HoldsStill
  <2>2. QED
    BY <1>1, <2>1 DEF Inv, Kept
<1>9. QED
  BY <1>6, <1>7, <1>8 DEF Inv

LEMMA ScanInv == ASSUME Inv, Silence \/ ShowMenu PROVE Inv'
<1>1. /\ UNCHANGED <<cur, mem, disk, trusted, certs, boots, won, lost>>
      /\ pc = "discovering" /\ pc' \in {"discovering", "menu"}
  BY DEF Silence, ShowMenu
<1>2. scan' \in [round : 0..Rounds, found : 0..MAX_DISCOVERED]
  <2>1. scan \in [round : 0..Rounds, found : 0..MAX_DISCOVERED]
    BY DEF Inv, TypeOK
  <2>2. CASE Silence
    BY <2>1, <2>2, PairingAssumption DEF Silence
  <2>3. CASE ShowMenu
    BY <2>3, PairingAssumption DEF ShowMenu
  <2>4. QED
    BY <2>2, <2>3
<1>3. TypeOK'
  BY <1>1, <1>2 DEF Inv, TypeOK, Requests, Saves
<1>4. StoresSound' /\ CurrentSound' /\ Kept'
  BY <1>1 DEF Inv, StoresSound, CurrentSound, Kept, Saves
<1>5. QED
  BY <1>3, <1>4 DEF Inv

(* Falling short of the file: what it has not is lost, and all the rest of *)
(* what memory has is in it.                                               *)
LEMMA LosesUnsaved ==
    ASSUME Inv, pc # "off"
    PROVE  /\ Unsaved \subseteq trusted
           /\ (won \cup Pairings(mem)) \ (lost \cup Unsaved) \subseteq Stored(disk)
<1>1. Pairings(mem) \subseteq trusted
  BY PairingsTrusted DEF Inv, StoresSound
<1>2. won \ lost \subseteq Pairings(mem)
  BY DEF Inv, Kept
<1>3. QED
  BY <1>1, <1>2 DEF Unsaved

(* The program ends, and memory is gone; a file being written is cut off.  *)
LEMMA EndInv == ASSUME Inv, End PROVE Inv'
<1>1. /\ UNCHANGED <<cur, disk, trusted, certs, boots, won>> /\ pc # "off"
      /\ pc' = "off" /\ mem' = <<>> /\ scan' = [round |-> 0, found |-> 0]
      /\ lost' = lost \cup IF pc \in {"writing", "writing again"} THEN Unsaved ELSE {}
  BY DEF End
<1>2. TypeOK'
  <2>1. scan' = [round |-> 0, found |-> 0] /\ mem' = <<>>
    BY <1>1
  <2>2. scan' \in [round : 0..Rounds, found : 0..MAX_DISCOVERED]
    BY <2>1, PairingAssumption
  <2>3. mem' \in Seq(Record) /\ Len(mem') <= MAX_HOSTS
    BY <2>1, PairingAssumption
  <2>4. lost' \subseteq trusted
    BY <1>1, LosesUnsaved DEF Inv, TypeOK
  <2>5. QED
    BY <1>1, <2>2, <2>3, <2>4 DEF Inv, TypeOK, Requests, Saves
<1>3. Store(<<>>, trusted)
  BY PairingAssumption DEF Store, OnePerHost
<1>4. StoresSound' /\ CurrentSound'
  BY <1>1, <1>3 DEF Inv, StoresSound, CurrentSound, Saves
<1>5. Kept'
  <2>1. won \ lost' \subseteq Stored(disk)
    <3>1. CASE pc \in {"writing", "writing again"}
      BY <1>1, <3>1, LosesUnsaved
    <3>2. CASE pc \notin {"writing", "writing again"}
      BY <1>1, <3>2 DEF Inv, Kept
    <3>3. QED
      BY <3>1, <3>2
  <2>2. QED
    BY <1>1, <2>1 DEF Kept
<1>6. QED
  BY <1>2, <1>4, <1>5 DEF Inv

-----------------------------------------------------------------------------
LEMMA Member ==
    ASSUME Inv, NEW i \in 1..Len(mem)
    PROVE  /\ mem \in Seq(Record) /\ Store(mem, trusted)
           /\ mem[i] \in Record /\ Sound(mem[i], trusted)
           /\ i \in 1..MAX_HOSTS
<1>1. mem \in Seq(Record) /\ Len(mem) <= MAX_HOSTS
  BY DEF Inv, TypeOK
<1>2. Store(mem, trusted)
  BY DEF Inv, StoresSound
<1>3. QED
  BY <1>1, <1>2, PairingAssumption DEF Store

(* pair_with_host.  An identity is put into a record that has none, which  *)
(* is no paired one.                                                       *)
LEMMA IdentitySound ==
    ASSUME NEW r \in Record, ~r.paired, NEW A, Sound(r, A),
           certs \in 0..MaxCerts, certs < MaxCerts \/ ~NeedsIdentity(r),
           NEW q \in Identities(r)
    PROVE  /\ q \in Record /\ q.ip = r.ip /\ Sound(q, A)
           /\ r.cert # None => q.cert = r.cert
           /\ NeedsIdentity(r) => certs < MaxCerts
<1>1. CASE ~NeedsIdentity(r)
  BY <1>1 DEF Identities
<1>2. CASE NeedsIdentity(r)
  <2>1. r.cert = None /\ r.key = None /\ certs + 1 \in Pem /\ certs + 1 # None
    BY <1>2, PairingAssumption DEF NeedsIdentity, Sound, Pem, None
  <2>2. \/ q = r
        \/ q = [r EXCEPT !.cert = certs + 1, !.key = certs + 1]
        \/ q = [r EXCEPT !.cert = certs + 1]
    BY <1>2 DEF Identities
  <2>3. \/ q = r
        \/ /\ q \in Record /\ q.ip = r.ip /\ ~q.paired /\ q.cert # None
           /\ q.key = q.cert \/ q.key = None
    BY <2>1, <2>2 DEF Record
  <2>4. QED
    BY <1>2, <2>1, <2>3 DEF Sound
<1>3. QED
  BY <1>1, <1>2

LEMMA BeginPairingInv ==
    ASSUME Inv, NEW i \in 1..Len(mem), BeginPairing(i)
    PROVE  /\ Inv'
           /\ \A j \in 1..Len(mem) : mem[j].cert # None =>
                 mem'[j].cert = mem[j].cert /\ mem'[j].ip = mem[j].ip
<1>1. PICK r \in Identities(mem[i]) :
         /\ mem' = [mem EXCEPT ![i] = r]
         /\ certs' = IF NeedsIdentity(mem[i]) /\ r.cert # None THEN certs + 1 ELSE certs
         /\ pc' = IF NeedsIdentity(mem[i]) /\ r.key = None THEN "menu" ELSE "getservercert"
  BY DEF BeginPairing
<1>2. /\ pc = "menu" /\ ~mem[i].paired /\ cur' = i
      /\ certs < MaxCerts \/ ~NeedsIdentity(mem[i])
      /\ UNCHANGED <<scan, disk, trusted, boots, won, lost>>
  BY PairingAssumption DEF BeginPairing
<1>3. /\ mem \in Seq(Record) /\ mem[i] \in Record /\ Store(mem, trusted)
      /\ Sound(mem[i], trusted) /\ certs \in 0..MaxCerts
      /\ i \in 1..MAX_HOSTS
  BY Member DEF Inv, TypeOK
<1>4. /\ r \in Record /\ r.ip = mem[i].ip /\ Sound(r, trusted)
      /\ mem[i].cert # None => r.cert = mem[i].cert
      /\ NeedsIdentity(mem[i]) => certs < MaxCerts
  BY <1>2, <1>3, IdentitySound
<1>5. /\ Store(mem', trusted) /\ Len(mem') = Len(mem) /\ mem' \in Seq(Record)
      /\ \A j \in 1..Len(mem) : mem'[j] = IF j = i THEN r ELSE mem[j]
  <2> DEFINE t == [mem EXCEPT ![i] = r]
  <2>1. /\ Store(t, trusted) /\ Len(t) = Len(mem)
        /\ \A j \in 1..Len(mem) : t[j] = IF j = i THEN r ELSE mem[j]
    BY <1>3, <1>4, StoreReplaces
  <2>2. t \in Seq(Record)
    BY <2>1 DEF Store
  <2>3. mem' = t
    BY <1>1
  <2> HIDE DEF t
  <2>4. QED
    BY <2>1, <2>2, <2>3
<1>6. TypeOK'
  <2>1. certs' \in 0..MaxCerts
    BY <1>1, <1>3, <1>4, PairingAssumption
  <2>2. pc' \in {"menu", "getservercert"}
    BY <1>1
  <2>3. cur' \in 1..MAX_HOSTS /\ cur' <= Len(mem') /\ Len(mem') <= MAX_HOSTS
    BY <1>2, <1>3, <1>5 DEF Inv, TypeOK
  <2>4. QED
    BY <1>2, <1>5, <2>1, <2>2, <2>3 DEF Inv, TypeOK, Requests, Saves
<1>7. StoresSound' /\ CurrentSound'
  BY <1>1, <1>2, <1>5 DEF Inv, StoresSound, CurrentSound, Saves
<1>8. Kept'
  <2>1. Pairings(mem) \subseteq Pairings(mem')
    BY <1>2, <1>3, <1>5, HoldsStill
  <2>2. pc' \notin {"off", "writing", "writing again"}
    BY <1>1
  <2>3. QED
    BY <1>2, <2>1, <2>2 DEF Inv, Kept
<1>9. \A j \in 1..Len(mem) : mem[j].cert # None =>
         mem'[j].cert = mem[j].cert /\ mem'[j].ip = mem[j].ip
  BY <1>4, <1>5
<1>10. QED
  BY <1>6, <1>7, <1>8, <1>9 DEF Inv

(* Requests that change nothing but where pair_with_host is. *)
LEMMA RequestInv ==
    ASSUME Inv, GetServerCert \/ ClientChallenge \/ ServerChallengeResp PROVE Inv'
<1>1. /\ UNCHANGED <<scan, cur, mem, disk, trusted, certs, boots, won, lost>>
      /\ pc \in Requests
      /\ pc' \in {"menu", "clientchallenge", "serverchallengeresp", "clientpairingsecret"}
  BY DEF GetServerCert, ClientChallenge, ServerChallengeResp, GiveUp, Granted, Requests
<1>2. TypeOK'
  BY <1>1 DEF Inv, TypeOK, Requests, Saves
<1>3. StoresSound' /\ CurrentSound' /\ Kept'
  BY <1>1 DEF Inv, StoresSound, CurrentSound, Kept, Requests, Saves
<1>4. QED
  BY <1>2, <1>3 DEF Inv

(* The host accepts the certificate whose key signed. *)
LEMMA ClientPairingSecretInv == ASSUME Inv, ClientPairingSecret PROVE Inv'
<1>1. /\ UNCHANGED <<scan, cur, mem, disk, certs, boots, won, lost>>
      /\ pc \in Requests /\ pc' \in {"menu", "pairchallenge"}
      /\ \/ /\ mem[cur].key \notin {None, Half} /\ mem[cur].ip \in Ips
            /\ trusted' = trusted \cup {Pairing(mem[cur])}
         \/ pc' = "menu" /\ trusted' = trusted
  BY DEF ClientPairingSecret, GiveUp, Granted, Ready, Sendable, Requests
<1>2. mem[cur] \in Record /\ Sound(mem[cur], trusted)
  <2>1. cur \in 1..Len(mem)
    BY <1>1 DEF Inv, TypeOK
  <2>2. QED
    BY <2>1, Member
<1>3. mem[cur].key \notin {None, Half} =>
         mem[cur].key = mem[cur].cert /\ mem[cur].cert \in 1..MaxCerts
  BY <1>2, RecordFields, PairingAssumption DEF Sound, None, Pem
<1>4. trusted \subseteq trusted' /\ trusted' \subseteq Ips \X (1..MaxCerts)
  BY <1>1, <1>2, <1>3, RecordFields DEF Inv, TypeOK, Pairing
<1>5. TypeOK'
  BY <1>1, <1>4 DEF Inv, TypeOK, Requests, Saves
<1>6. StoresSound'
  <2>1. Store(mem, trusted') /\ Store(disk.recs, trusted')
    BY <1>4, StoreTrusts DEF Inv, StoresSound
  <2>2. QED
    BY <1>1, <2>1 DEF Inv, StoresSound
<1>7. CurrentSound' /\ Kept'
  BY <1>1, <1>3 DEF Inv, CurrentSound, Kept, Requests, Saves
<1>8. QED
  BY <1>5, <1>6, <1>7 DEF Inv

(* Only then does the record count as paired. *)
LEMMA PairChallengeInv ==
    ASSUME Inv, PairChallenge
    PROVE  /\ Inv'
           /\ \A j \in 1..Len(mem) : mem'[j].cert = mem[j].cert /\ mem'[j].ip = mem[j].ip
<1>1. /\ UNCHANGED <<scan, cur, disk, trusted, certs, boots, won, lost>>
      /\ pc = "pairchallenge" /\ pc' \in {"save", "menu"}
      /\ \/ pc' = "menu" /\ mem' = mem
         \/ /\ Pairing(mem[cur]) \in trusted
            /\ mem' = [mem EXCEPT ![cur].paired = TRUE]
  BY DEF PairChallenge, Granted
<1>2. CASE mem' = mem /\ pc' = "menu"
  <2>1. TypeOK'
    BY <1>1, <1>2 DEF Inv, TypeOK, Requests, Saves
  <2>2. StoresSound' /\ CurrentSound' /\ Kept'
    BY <1>1, <1>2 DEF Inv, StoresSound, CurrentSound, Kept, Saves
  <2>3. QED
    BY <1>2, <2>1, <2>2 DEF Inv
<1>3. CASE /\ Pairing(mem[cur]) \in trusted
           /\ mem' = [mem EXCEPT ![cur].paired = TRUE]
  <2>1. cur \in 1..Len(mem) /\ mem \in Seq(Record) /\ mem[cur] \in Record /\ Store(mem, trusted)
    <3>1. cur \in 1..Len(mem)
      BY <1>1 DEF Inv, TypeOK, Requests
    <3>2. QED
      BY <3>1, Member
  <2> DEFINE r == [mem[cur] EXCEPT !.paired = TRUE]
  <2>2. /\ r \in Record /\ r.paired
        /\ r.ip = mem[cur].ip /\ r.cert = mem[cur].cert /\ r.key = mem[cur].key
    BY <2>1 DEF Record
  <2>3. mem' = [mem EXCEPT ![cur] = r]
    BY <1>3
  <2> HIDE DEF r
  <2>4. Sound(r, trusted)
    BY <1>1, <1>3, <2>1, <2>2 DEF Inv, CurrentSound, Sound, Pairing, Store
  <2>5. /\ Store(mem', trusted) /\ Len(mem') = Len(mem)
        /\ \A j \in 1..Len(mem) : mem'[j] = IF j = cur THEN r ELSE mem[j]
    <3> DEFINE t == [mem EXCEPT ![cur] = r]
    <3>1. /\ Store(t, trusted) /\ Len(t) = Len(mem)
          /\ \A j \in 1..Len(mem) : t[j] = IF j = cur THEN r ELSE mem[j]
      BY <2>1, <2>2, <2>4, StoreReplaces
    <3>2. mem' = t
      BY <2>3
    <3> HIDE DEF t
    <3>3. QED
      BY <3>1, <3>2
  <2>6. mem' \in Seq(Record)
    BY <2>5 DEF Store
  <2>7. TypeOK'
    BY <1>1, <2>1, <2>5, <2>6 DEF Inv, TypeOK, Requests, Saves
  <2>8. StoresSound' /\ CurrentSound'
    BY <1>1, <2>1, <2>2, <2>5 DEF Inv, StoresSound, CurrentSound, Saves
  <2>9. \A j \in 1..Len(mem) : /\ mem'[j].cert = mem[j].cert /\ mem'[j].ip = mem[j].ip
                               /\ mem[j].paired => mem'[j].paired
    BY <2>2, <2>5
  <2>10. Pairings(mem) \subseteq Pairings(mem')
    BY <2>1, <2>5, <2>6, <2>9, HoldsStill
  <2>11. Kept'
    BY <1>1, <2>10 DEF Inv, Kept
  <2>12. QED
    BY <2>7, <2>8, <2>9, <2>11 DEF Inv
<1>4. QED
  BY <1>1, <1>2, <1>3

-----------------------------------------------------------------------------
(* hoststore_save.  What it reports in the end is a pairing of the record  *)
(* it was called for, which memory holds and a host has accepted.          *)
LEMMA Reported ==
    ASSUME Inv, pc \in Saves, Saved
    PROVE  /\ pc' \in {"save again", "menu"}
           /\ won' \subseteq trusted
           /\ won \subseteq won'
           /\ won' \subseteq won \cup Pairings(mem)
           /\ pc' = "save again" => mem[cur].paired
<1>1. cur \in 1..Len(mem) /\ mem[cur].paired
  BY DEF Inv, TypeOK, CurrentSound
<1>2. Pairing(mem[cur]) \in trusted
  BY <1>1, Member DEF Sound
<1>3. won' \in {won, won \cup {Pairing(mem[cur])}}
  BY DEF Saved
<1>4. won \subseteq trusted
  BY DEF Inv, TypeOK
<1>5. won' \subseteq won \cup Pairings(mem)
  BY <1>1, <1>3 DEF Pairings
<1>6. QED
  BY <1>1, <1>2, <1>3, <1>4, <1>5 DEF Saved

LEMMA FileLenNat == ASSUME NEW s \in Seq(Record) PROVE FileLen(s) \in Nat /\ FileLen(s) > 0
<1>1. RecordLen \in Nat /\ Len(s) \in Nat
  BY PairingAssumption DEF RecordLen
<1>2. RecordLen * Len(s) \in Nat
  BY <1>1
<1>3. QED
  BY <1>2 DEF FileLen

LEMMA OpenFileInv == ASSUME Inv, OpenFile PROVE Inv'
<1>1. /\ UNCHANGED <<scan, cur, mem, trusted, certs, boots, won, lost>>
      /\ pc \in {"save", "save again"} /\ pc' \in {"writing", "writing again"}
      /\ disk' = [recs |-> mem, len |-> 0]
  BY DEF OpenFile, Writing
<1>2. mem \in Seq(Record) /\ Store(mem, trusted)
  BY DEF Inv, TypeOK, StoresSound
<1>3. /\ disk' \in [recs : Seq(Record), len : Nat]
      /\ disk'.recs = mem /\ disk'.len = 0 /\ 0 \in 0..FileLen(mem)
  <2>1. FileLen(mem) \in Nat
    BY <1>2, FileLenNat
  <2>2. disk' = [recs |-> mem, len |-> 0]
    BY <1>1
  <2>3. QED
    BY <1>2, <2>1, <2>2
<1>4. TypeOK'
  BY <1>1, <1>2, <1>3 DEF Inv, TypeOK, Requests, Saves
<1>5. StoresSound' /\ CurrentSound' /\ Kept'
  BY <1>1, <1>2, <1>3 DEF Inv, StoresSound, CurrentSound, Kept, Saves
<1>6. QED
  BY <1>4, <1>5 DEF Inv

LEMMA WriteFileInv == ASSUME Inv, WriteFile PROVE Inv'
<1>1. /\ UNCHANGED <<scan, pc, cur, mem, trusted, certs, boots, won, lost>>
      /\ pc \in {"writing", "writing again"}
      /\ disk.len < FileLen(disk.recs)
      /\ disk' = [disk EXCEPT !.len = disk.len + 1]
  BY DEF WriteFile
<1>2. disk \in [recs : Seq(Record), len : Nat] /\ FileLen(disk.recs) \in Nat
  <2>1. disk \in [recs : Seq(Record), len : Nat] /\ disk.recs \in Seq(Record)
    BY DEF Inv, StoresSound
  <2>2. QED
    BY <2>1, FileLenNat
<1>3. /\ disk' \in [recs : Seq(Record), len : Nat]
      /\ disk'.recs = disk.recs /\ disk'.len \in 0..FileLen(disk.recs)
  <2>1. disk.len < FileLen(disk.recs) /\ disk' = [disk EXCEPT !.len = disk.len + 1]
    BY <1>1
  <2>2. QED
    BY <1>2, <2>1
<1>4. TypeOK'
  BY <1>1, <1>3 DEF Inv, TypeOK, FileLen
<1>5. StoresSound' /\ CurrentSound' /\ Kept'
  BY <1>1, <1>3 DEF Inv, StoresSound, CurrentSound, Kept, Saves
<1>6. QED
  BY <1>4, <1>5 DEF Inv

(* The file could not be opened, or was closed with all or less in it.     *)
LEMMA SavedInv == ASSUME Inv, OpenFails \/ CloseFile PROVE Inv'
<1>1. /\ UNCHANGED <<scan, cur, mem, disk, trusted, certs, boots>>
      /\ pc \in Saves /\ Saved /\ lost' = lost \cup Unsaved
  BY DEF OpenFails, CloseFile, Saves
<1>2. /\ pc' \in {"save again", "menu"}
      /\ won' \subseteq trusted
      /\ won' \subseteq won \cup Pairings(mem)
      /\ pc' = "save again" => mem[cur].paired
  BY <1>1, Reported
<1>3. /\ Unsaved \subseteq trusted
      /\ (won \cup Pairings(mem)) \ (lost \cup Unsaved) \subseteq Stored(disk)
  BY <1>1, LosesUnsaved DEF Saves
<1>4. TypeOK'
  BY <1>1, <1>2, <1>3 DEF Inv, TypeOK, Requests, Saves
<1>5. StoresSound' /\ CurrentSound'
  BY <1>1, <1>2 DEF Inv, StoresSound, CurrentSound, Saves
<1>6. Kept'
  <2>1. won' \ lost' \subseteq Stored(disk)
    BY <1>1, <1>2, <1>3
  <2>2. won' \ lost' \subseteq Pairings(mem)
    <3>1. won \ lost \subseteq Pairings(mem)
      BY <1>1 DEF Inv, Kept, Saves
    <3>2. QED
      BY <1>1, <1>2, <3>1
  <2>3. mem' = mem /\ disk' = disk
    BY <1>1
  <2>4. QED
    BY <2>1, <2>2, <2>3 DEF Kept
<1>7. QED
  BY <1>4, <1>5, <1>6 DEF Inv

-----------------------------------------------------------------------------
(* What a step does to the identities in memory.                           *)
KeepsIdentity ==
    pc # "off" /\ pc' # "off" =>
        \A i \in 1..Len(mem) : mem[i].cert # None =>
            mem'[i].cert = mem[i].cert /\ mem'[i].ip = mem[i].ip

LEMMA DiscoverKeeps ==
    ASSUME Inv, NEW ip \in Ips, Discover(ip), NEW i \in 1..Len(mem)
    PROVE  mem'[i] = mem[i]
<1>1. mem \in Seq(Record)
  BY DEF Inv, TypeOK
<1>2. mem' = mem \/ mem' = Append(mem, [Zeroed EXCEPT !.ip = ip])
  BY DEF Discover, Added, Appended
<1>3. [Zeroed EXCEPT !.ip = ip] \in Record
  BY NewRecord
<1> DEFINE r == [Zeroed EXCEPT !.ip = ip]
<1> HIDE DEF r
<1>4. QED
  BY <1>1, <1>2, <1>3 DEF r

LEMMA InvNext == Inv /\ [Next]_vars => Inv' /\ [KeepsIdentity]_vars
<1> SUFFICES ASSUME Inv, [Next]_vars PROVE Inv' /\ [KeepsIdentity]_vars
  OBVIOUS
<1>1. CASE Boot
  BY <1>1, BootInv DEF Boot, KeepsIdentity
<1>2. CASE Silence \/ ShowMenu
  BY <1>2, ScanInv DEF Silence, ShowMenu, KeepsIdentity
<1>3. ASSUME NEW ip \in Ips, Discover(ip) PROVE Inv' /\ [KeepsIdentity]_vars
  BY <1>3, DiscoverInv, DiscoverKeeps DEF KeepsIdentity
<1>4. CASE End
  BY <1>4, EndInv DEF End, KeepsIdentity
<1>5. ASSUME NEW i \in 1..Len(mem), BeginPairing(i) PROVE Inv' /\ [KeepsIdentity]_vars
  BY <1>5, BeginPairingInv DEF KeepsIdentity
<1>6. CASE GetServerCert \/ ClientChallenge \/ ServerChallengeResp
  BY <1>6, RequestInv DEF GetServerCert, ClientChallenge, ServerChallengeResp, KeepsIdentity
<1>7. CASE ClientPairingSecret
  BY <1>7, ClientPairingSecretInv DEF ClientPairingSecret, KeepsIdentity
<1>8. CASE PairChallenge
  BY <1>8, PairChallengeInv DEF KeepsIdentity
<1>9. CASE OpenFile \/ WriteFile
  BY <1>9, OpenFileInv, WriteFileInv DEF OpenFile, WriteFile, KeepsIdentity
<1>10. CASE OpenFails \/ CloseFile
  BY <1>10, SavedInv DEF OpenFails, CloseFile, KeepsIdentity
<1>11. CASE UNCHANGED vars
  <2>1. UNCHANGED <<pc, scan, cur, mem, disk, trusted, certs, boots, won, lost>>
    BY <1>11 DEF vars
  <2>2. TypeOK'
    BY <2>1 DEF Inv, TypeOK
  <2>3. StoresSound' /\ CurrentSound' /\ Kept'
    BY <2>1 DEF Inv, StoresSound, CurrentSound, Kept
  <2>4. QED
    BY <1>11, <2>2, <2>3 DEF Inv
<1>12. QED
  BY <1>1, <1>2, <1>3, <1>4, <1>5, <1>6, <1>7, <1>8, <1>9, <1>10, <1>11 DEF Next, Step

(* The type invariant, whatever is in the file and however much of it.     *)
THEOREM TypeCorrect == Spec => []TypeOK
<1>1. Inv => TypeOK
  BY DEF Inv
<1>2. QED
  BY InvInit, InvNext, <1>1, PTL DEF Spec

(* A record that says paired, in memory or read back from a file cut off   *)
(* anywhere, has the certificate its host accepted and the key to it.      *)
THEOREM PairedMeansTrustedCorrect == Spec => []PairedMeansTrusted
<1>1. Inv => PairedMeansTrusted
  <2> SUFFICES ASSUME Inv PROVE PairedMeansTrusted
    OBVIOUS
  <2>1. Store(mem, trusted) /\ Store(Loaded(disk), trusted)
    BY StoreLoaded DEF Inv, StoresSound
  <2>2. ASSUME NEW s, Store(s, trusted), NEW r \in Range(s), r.paired
        PROVE  r.key = r.cert /\ Pairing(r) \in trusted
    <3>1. s \in Seq(Record)
      BY <2>2 DEF Store
    <3>2. PICK i \in 1..Len(s) : r = s[i]
      BY <2>2, <3>1 DEF Range
    <3>3. QED
      BY <2>2, <3>2 DEF Store, Sound
  <2>3. QED
    BY <2>1, <2>2 DEF PairedMeansTrusted
<1>2. QED
  BY InvInit, InvNext, <1>1, PTL DEF Spec

(* No address of fewer than 15 characters that no other address begins     *)
(* with has two records.                                                   *)
THEOREM OneRecordPerHostCorrect == Spec => []OneRecordPerHost
<1>1. Inv => OneRecordPerHost
  BY DEF Inv, StoresSound, Store, OnePerHost, OneRecordPerHost
<1>2. QED
  BY InvInit, InvNext, <1>1, PTL DEF Spec

(* A pairing reported is there, after every restart too, but for those     *)
(* that a failing or cut-off save or load did not get to.                  *)
THEOREM PairingsKeptCorrect == Spec => []PairingsKept
<1>1. Inv => PairingsKept
  BY DEF Inv, Kept, PairingsKept
<1>2. QED
  BY InvInit, InvNext, <1>1, PTL DEF Spec

(* While the program runs, a host keeps the certificate it was offered. *)
THEOREM IdentityKeptCorrect == Spec => IdentityKept
BY InvInit, InvNext, PTL DEF Spec, IdentityKept, KeepsIdentity
=============================================================================
