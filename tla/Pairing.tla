------------------------------ MODULE Pairing ------------------------------
(***************************************************************************)
(* Pairing with hosts and what a restart leaves of it: pair_with_host      *)
(* (src/src/proto/pairing.c), the requests it makes through perform        *)
(* (src/src/net/http.c), and the host store (src/src/common/hoststore.c)   *)
(* that keeps the client's certificate, its key and the outcome, in memory *)
(* and in hosts.dat.  The program may end at every step, in the middle of  *)
(* writing the file too.  What the store is offered at a start is what     *)
(* mdns_discover (src/src/net/mdns.c) heard.  The GameStream hosts are     *)
(* external: they check the PIN and remember the certificates accepted.    *)
(***************************************************************************)
EXTENDS Integers, Sequences, FiniteSets, Functions

CONSTANTS
    Ips,        \* addresses of the hosts mdns_discover finds: strings
    IpLen,      \* their length at most (HOST_IP_LEN - 1 = 15)
    MAX_DISCOVERED, \* answers mdns_discover keeps (16)
    Rounds,     \* times it waits for one (20)
    MAX_HOSTS,  \* records the store holds (16)
    PathCap,    \* length of perform's buffer for the path of a URL (512)
    ReqCap,     \* length of perform's buffer for the request (1024)
    PemLen,     \* length of the client's certificate in PEM
    SignedLen,  \* length of the signed client secret (16 + 256)
    Faults,     \* whether hosts, key generation and files may fail
    MaxCerts,   \* bound: certificates ever generated
    MaxBoots    \* bound: starts of the program

ASSUME PairingAssumption ==
    /\ IpLen \in Nat
    /\ \A ip \in Ips : ip \in Seq(Range(ip)) /\ Len(ip) \in 1..IpLen
    /\ {MAX_DISCOVERED, Rounds} \subseteq Nat
    /\ MAX_HOSTS \in Nat \ {0}
    /\ {PathCap, ReqCap, PemLen, SignedLen, MaxCerts, MaxBoots} \subseteq Nat
    /\ Faults \in BOOLEAN

VARIABLES
    pc,       \* what the program does, or off
    scan,     \* mdns_discover's round and the answers found
    cur,      \* index of the host being paired
    mem,      \* g_hosts and g_count
    disk,     \* hosts.dat: the records being written and how much of them is
    trusted,  \* certificates accepted by hosts: set of <<ip, certificate>>
    certs,    \* number of certificates generated, which numbers them
    boots,    \* number of starts
    won,      \* history: the pairings pair_with_host reported
    lost      \* history: those that a save or load that fell short has lost

vars == <<pc, scan, cur, mem, disk, trusted, certs, boots, won, lost>>

Requests == {"getservercert", "clientchallenge", "serverchallengeresp",
             "clientpairingsecret", "pairchallenge"}
Saves    == {"save", "writing", "save again", "writing again"}

(* Of an address n characters: nothing is a record never filled in, and a  *)
(* part may be the address of another host.                                *)
Cut(ip, n) == IF n >= Len(ip) THEN ip ELSE SubSeq(ip, 1, n)
Blank      == <<>>
Addresses  == {Cut(ip, n) : ip \in Ips, n \in 0..IpLen}
LongIps    == {ip \in Ips : Len(ip) = IpLen}

None   == 0  \* an empty cert_pem or key_pem
Half   == -1 \* one that is not empty, but not whole either
Pem    == {Half} \cup 0..MaxCerts
Record == [ip : Addresses, cert : Pem, key : Pem, paired : BOOLEAN]
Zeroed == [ip |-> Blank, cert |-> None, key |-> None, paired |-> FALSE]

(* The lengths of a request's path and of what perform puts around it.     *)
(* parse_url refuses a path that its buffer does not hold with its NUL;    *)
(* that the request has room as well is left to the sizes of the two       *)
(* buffers.  Certificate and secret are sent in hex.                       *)
PathLen ==
    [getservercert       |-> 170 + 2 * PemLen,
     clientchallenge     |-> 116 + 32,
     serverchallengeresp |-> 120 + 64,
     clientpairingsecret |-> 120 + 2 * SignedLen,
     pairchallenge       |-> 120]
HeadLen == 59
Sendable(r) ==
    /\ PathLen[r] < PathCap
    /\ HeadLen + PathLen[r] < ReqCap
    /\ mem[cur].ip \in Ips

-----------------------------------------------------------------------------
(* hosts.dat is the count, then record by record the fields in the order   *)
(* of paired_host_t: the address by the character, certificate and key in  *)
(* two parts each, and paired, of which only the last byte is ever set     *)
(* (the PS3 is big-endian).  What a reader finds of a record of which so   *)
(* much is there.                                                          *)
RecordLen     == IpLen + 5
FileLen(recs) == 1 + RecordLen * Len(recs)
Part(v, n)    == IF n <= 0 \/ v = None THEN None ELSE IF n = 1 THEN Half ELSE v

(* Mutant: the outcome is stored in front of the certificate and the key. *)
MutTorn(r, n) == [ip     |-> Cut(r.ip, n),
                  paired |-> n > IpLen /\ r.paired,
                  cert   |-> Part(r.cert, n - IpLen - 1),
                  key    |-> Part(r.key, n - IpLen - 3)]
Torn(r, n) == [ip     |-> Cut(r.ip, n),
               cert   |-> Part(r.cert, n - IpLen),
               key    |-> Part(r.key, n - IpLen - 2),
               paired |-> n >= RecordLen /\ r.paired]

(* hoststore_load: the count is believed, whatever follows it; g_hosts is  *)
(* all zeros before.                                                       *)
Read(file) == [i \in 1..Len(file.recs) |->
                  Torn(file.recs[i], file.len - 1 - RecordLen * (i - 1))]
(* Mutant: a file that falls short is taken for no file. *)
MutLoaded(file) == IF file.len < FileLen(file.recs) THEN <<>> ELSE Read(file)
Loaded(file)    == IF file.len = 0 THEN <<>> ELSE Read(file)

(* The pairings that a store says it has, and those in the whole records   *)
(* of a file.                                                              *)
Pairing(r)     == <<r.ip, r.cert>>
Pairings(recs) == {Pairing(recs[i]) : i \in {j \in 1..Len(recs) : recs[j].paired}}
Stored(file)   == {Pairing(file.recs[i]) : i \in
    {j \in 1..Len(file.recs) : file.recs[j].paired /\ file.len >= 1 + RecordLen * j}}

(* hoststore_add, for a host that mdns_discover found. *)
Known(ip) == \E i \in 1..Len(mem) : mem[i].ip = ip
(* Mutant: the record added last is not compared. *)
MutIsNew(ip) == \A i \in 1..(Len(mem) - 1) : mem[i].ip # ip
IsNew(ip)    == ~Known(ip)
(* Mutant: off by one. *)
MutRoom == Len(mem) <= MAX_HOSTS
Room    == Len(mem) < MAX_HOSTS
Appended(ip) == Append(mem, [Zeroed EXCEPT !.ip = ip])
Added(ip) ==
    IF IsNew(ip) /\ Room THEN Appended(ip) ELSE mem

-----------------------------------------------------------------------------
Init ==
    /\ pc = "off"
    /\ scan = [round |-> 0, found |-> 0]
    /\ cur = 1
    /\ mem = <<>>
    /\ disk = [recs |-> <<>>, len |-> 0]
    /\ trusted = {}
    /\ certs = 0
    /\ boots = 0
    /\ won = {}
    /\ lost = {}

(* ui_run loads the store, then adds the hosts found.  The file may not    *)
(* open, and reading may fall short, as if the file were shorter; ui_run   *)
(* goes on with what it got.                                               *)
Boot ==
    /\ pc = "off"
    /\ boots < MaxBoots
    /\ boots' = boots + 1
    /\ pc' = "discovering"
    /\ scan' = [round |-> 0, found |-> 0]
    /\ \E n \in 0..disk.len :
          /\ Faults \/ n = disk.len
          /\ mem' = Loaded([disk EXCEPT !.len = n])
          /\ lost' = (lost \cup Pairings(disk.recs)) \ Stored([disk EXCEPT !.len = n])
    /\ UNCHANGED <<cur, disk, trusted, certs, won>>

(* A round of mdns_discover in which nothing, or nothing with an address,  *)
(* is received ...                                                         *)
Silence ==
    /\ pc = "discovering"
    /\ scan.round < Rounds
    /\ scan' = [scan EXCEPT !.round = @ + 1]
    /\ UNCHANGED <<pc, cur, mem, disk, trusted, certs, boots, won, lost>>

(* ... or one in which a host answers, perhaps not for the first time.     *)
(* found[] is not initialized and strncpy leaves the last byte of an       *)
(* address alone (mdns.c:122): one of 15 characters may not end there, and *)
(* hoststore_add then takes it for another and keeps its 15 characters.    *)
Discover(ip) ==
    /\ pc = "discovering"
    /\ scan.round < Rounds
    /\ scan.found < MAX_DISCOVERED
    /\ scan' = [round |-> scan.round + 1, found |-> scan.found + 1]
    /\ mem' \in {Added(ip)} \cup IF ip \in LongIps /\ Room THEN {Appended(ip)} ELSE {}
    /\ UNCHANGED <<pc, cur, disk, trusted, certs, boots, won, lost>>

(* All rounds are over, or there was no socket to ask with. *)
ShowMenu ==
    /\ pc = "discovering"
    /\ scan.round \in {0, Rounds}
    /\ pc' = "menu"
    /\ scan' = [round |-> 0, found |-> 0]
    /\ UNCHANGED <<cur, mem, disk, trusted, certs, boots, won, lost>>

(* What memory has and the file has not. *)
Unsaved == Pairings(mem) \ Stored(disk)

(* The program quits, crashes or the console is switched off. *)
End ==
    /\ pc # "off"
    /\ pc' = "off"
    /\ mem' = <<>>
    /\ scan' = [round |-> 0, found |-> 0]
    /\ lost' = lost \cup IF pc \in {"writing", "writing again"} THEN Unsaved ELSE {}
    /\ UNCHANGED <<cur, disk, trusted, certs, boots, won>>

-----------------------------------------------------------------------------
(* crypto_gen_keypair_and_cert writes the certificate into the record and  *)
(* then the key; it can fail before either.  A record that has a           *)
(* certificate keeps what it has.                                          *)
(* Mutant: a new identity at each attempt. *)
MutNeedsIdentity(r) == TRUE
NeedsIdentity(r)    == r.cert = None
Identities(r) ==
    IF ~NeedsIdentity(r) THEN {r}
    ELSE {[r EXCEPT !.cert = certs + 1, !.key = certs + 1]}
         \cup IF Faults THEN {r, [r EXCEPT !.cert = certs + 1]} ELSE {}

(* The menu lets an unpaired host be picked, the PIN be entered and calls  *)
(* pair_with_host, which makes sure there is an identity first.            *)
BeginPairing(i) ==
    /\ pc = "menu"
    /\ ~mem[i].paired
    /\ certs < MaxCerts \/ ~NeedsIdentity(mem[i])
    /\ cur' = i
    /\ \E r \in Identities(mem[i]) :
          /\ mem' = [mem EXCEPT ![i] = r]
          /\ certs' = IF NeedsIdentity(mem[i]) /\ r.cert # None THEN certs + 1 ELSE certs
          /\ pc' = IF NeedsIdentity(mem[i]) /\ r.key = None THEN "menu" ELSE "getservercert"
    /\ UNCHANGED <<scan, disk, trusted, boots, won, lost>>

(* What pair_with_host needs of the record before a request: a certificate *)
(* that can be parsed for step 3, a key that can be for step 4.            *)
Ready(r) ==
    /\ r = "serverchallengeresp" => mem[cur].cert # Half
    /\ r = "clientpairingsecret" => mem[cur].key \notin {None, Half}

(* pair_with_host returns -1: the request cannot be made, is refused or    *)
(* gets no (valid) answer.  What is in the record stays there, unsaved.    *)
GiveUp(r) ==
    /\ pc = r
    /\ Faults \/ ~Ready(r) \/ ~Sendable(r)
    /\ pc' = "menu"

(* A host finds out in step 4 whether the PIN was right, and refuses the   *)
(* request if it was not.                                                  *)
Granted(r, next) == pc = r /\ Ready(r) /\ Sendable(r) /\ pc' = next

GetServerCert ==
    /\ GiveUp("getservercert") \/ Granted("getservercert", "clientchallenge")
    /\ UNCHANGED <<scan, cur, mem, disk, trusted, certs, boots, won, lost>>

ClientChallenge ==
    /\ GiveUp("clientchallenge") \/ Granted("clientchallenge", "serverchallengeresp")
    /\ UNCHANGED <<scan, cur, mem, disk, trusted, certs, boots, won, lost>>

ServerChallengeResp ==
    /\ GiveUp("serverchallengeresp") \/ Granted("serverchallengeresp", "clientpairingsecret")
    /\ UNCHANGED <<scan, cur, mem, disk, trusted, certs, boots, won, lost>>

(* Step 4: the secret is signed with the record's key.  The host then      *)
(* trusts the certificate of step 1, even if its answer is lost.           *)
ClientPairingSecret ==
    /\ \/ /\ \/ Granted("clientpairingsecret", "pairchallenge")
             \/ Faults /\ Granted("clientpairingsecret", "menu")
          /\ trusted' = trusted \cup {Pairing(mem[cur])}
       \/ /\ GiveUp("clientpairingsecret")
          /\ UNCHANGED trusted
    /\ UNCHANGED <<scan, cur, mem, disk, certs, boots, won, lost>>

(* Step 5, over TLS with the client's certificate; then the host counts as *)
(* paired and the store is saved.  It may fail without anyone's fault: TLS *)
(* finds its socket through a pointer into a frame that is gone            *)
(* (http.c:107).                                                           *)
PairChallenge ==
    /\ \/ /\ Granted("pairchallenge", "save")
          /\ Pairing(mem[cur]) \in trusted
          /\ mem' = [mem EXCEPT ![cur].paired = TRUE]
       \/ /\ pc = "pairchallenge"
          /\ pc' = "menu"
          /\ UNCHANGED mem
    /\ UNCHANGED <<scan, cur, disk, trusted, certs, boots, won, lost>>

-----------------------------------------------------------------------------
(* hoststore_save, called by pair_with_host and once more by ui_run: fopen *)
(* empties the file, what is written reaches it little by little, and      *)
(* results are ignored.                                                    *)
Writing(p) == IF p = "save" THEN "writing" ELSE "writing again"
Saved ==
    IF pc \in {"save", "writing"}
    THEN pc' = "save again" /\ won' = won \cup {Pairing(mem[cur])}
    ELSE pc' = "menu" /\ UNCHANGED won

OpenFile ==
    /\ pc \in {"save", "save again"}
    /\ pc' = Writing(pc)
    /\ disk' = [recs |-> mem, len |-> 0]
    /\ UNCHANGED <<scan, cur, mem, trusted, certs, boots, won, lost>>

OpenFails ==
    /\ Faults
    /\ pc \in {"save", "save again"}
    /\ Saved
    /\ lost' = lost \cup Unsaved
    /\ UNCHANGED <<scan, cur, mem, disk, trusted, certs, boots>>

WriteFile ==
    /\ pc \in {"writing", "writing again"}
    /\ disk.len < FileLen(disk.recs)
    /\ disk' = [disk EXCEPT !.len = @ + 1]
    /\ UNCHANGED <<scan, pc, cur, mem, trusted, certs, boots, won, lost>>

(* fclose, also after a write that fell short. *)
CloseFile ==
    /\ pc \in {"writing", "writing again"}
    /\ Faults \/ disk.len = FileLen(disk.recs)
    /\ Saved
    /\ lost' = lost \cup Unsaved
    /\ UNCHANGED <<scan, cur, mem, disk, trusted, certs, boots>>

Step == \/ GetServerCert \/ ClientChallenge \/ ServerChallengeResp
        \/ ClientPairingSecret \/ PairChallenge
        \/ OpenFile \/ OpenFails \/ WriteFile \/ CloseFile

Next ==
    \/ Boot
    \/ Silence
    \/ \E ip \in Ips : Discover(ip)
    \/ ShowMenu
    \/ End
    \/ \E i \in 1..Len(mem) : BeginPairing(i)
    \/ Step

(* pair_with_host, once called, runs on unless the program ends. *)
Spec == Init /\ [][Next]_vars /\ WF_vars(Step)

-----------------------------------------------------------------------------
TypeOK ==
    /\ pc \in {"off", "discovering", "menu"} \cup Requests \cup Saves
    /\ mem \in Seq(Record) /\ Len(mem) <= MAX_HOSTS
    /\ scan \in [round : 0..Rounds, found : 0..MAX_DISCOVERED]
    /\ cur \in 1..MAX_HOSTS
    /\ pc \in Requests \cup Saves => cur <= Len(mem)
    /\ disk.recs \in Seq(Record) /\ disk.len \in 0..FileLen(disk.recs)
    /\ trusted \subseteq Ips \X (1..MaxCerts)
    /\ won \subseteq trusted
    /\ certs \in 0..MaxCerts
    /\ boots \in 0..MaxBoots
    /\ lost \subseteq trusted

(* A host shown as paired, in memory or after any restart, is one that     *)
(* trusts the certificate kept for it, and the key of that certificate is  *)
(* at hand.  It rests on pair_with_host setting paired last and on paired  *)
(* being the last field of paired_host_t: a torn record is not paired.     *)
PairedMeansTrusted ==
    \A r \in Range(mem) \cup Range(Loaded(disk)) :
        r.paired => r.key = r.cert /\ Pairing(r) \in trusted

(* One record per address, whatever the file held before hoststore_add     *)
(* (hoststore.c:49-62) added to it and however often a host answered.  It  *)
(* does not hold for addresses of 15 characters (mdns.c:122), nor for one  *)
(* that another begins with, which a file cut off in the other may leave.  *)
Plain(a) == a \in Ips \ LongIps /\ \A ip \in Ips, n \in 1..IpLen : Cut(ip, n) = a => ip = a
OneRecordPerHost ==
    \A i, j \in 1..Len(mem) : mem[i].ip = mem[j].ip /\ Plain(mem[i].ip) => i = j

(* A pairing the program reported is there while it runs, after any number *)
(* of restarts and further pairings, except for those that were not in     *)
(* the file when it could not be opened, or that lie behind the point      *)
(* where writing or reading it ended: what was written whole is not lost   *)
(* with the rest (hoststore.c:13-35, ui.c:130).                            *)
PairingsKept == pc # "off" => won \ lost \subseteq Pairings(mem)

(* While the program runs, a host keeps the certificate it was offered: an *)
(* attempt repeated after a lost answer presents the one that the host may *)
(* have accepted already (pairing.c:106).                                  *)
IdentityKept ==
    [][pc # "off" /\ pc' # "off" =>
         \A i \in 1..Len(mem) : mem[i].cert # None =>
             mem'[i].cert = mem[i].cert /\ mem'[i].ip = mem[i].ip]_vars

(* plan.md:126 calls pairing done and pairing.h:7 says the record is       *)
(* updated and saved on success: with a host that grants every step, the   *)
(* right PIN and nothing failing, a pairing begun is completed, unless the *)
(* program is ended.                                                       *)
PairingSucceeds ==
    (pc = "getservercert") ~> (pc = "off" \/ \E i \in 1..Len(mem) : i = cur /\ mem[i].paired)
=============================================================================
