------------------------------ MODULE Session ------------------------------
(***************************************************************************)
(* The life of streaming sessions: run_stream (src/src/ui/ui.c) brings one *)
(* up with session_start, keeps it until a button is pressed and tears it  *)
(* down, over and over.  session_start (src/src/proto/connection.c) makes  *)
(* five RTSP requests (src/src/net/rtsp.c) and then opens three UDP        *)
(* sockets (src/src/net/udp_stream.c).  The host (external) answers,       *)
(* refuses, stays silent or is late: a read gives up after two seconds of  *)
(* silence, and what arrives after that is there for the next read.        *)
(***************************************************************************)
EXTENDS Integers, Sequences

CONSTANTS
    HdrCap,       \* what fits into the header buffer (2047 bytes)
    SdpCap,       \* what fits into the body buffer (4095 bytes)
    LineEnds,     \* the line ends of the host's answers, sequences of CR and LF
    Declared,     \* what atoi makes of each Content-Length line a host may send
    MaxSdp,       \* bound: length of the body the host sends after it
    MaxPad,       \* bound: further characters in the host's DESCRIBE answer
    MaxSessions,  \* bound: calls of run_stream
    Faults        \* whether socket, connect, send and bind may fail

(* Bytes: an item is a line end character or a run of other characters.    *)
CR == "CR"
LF == "LF"
Words == {"200", "refused", "Session:", "other", "sdp", CR, LF}
Items == Words \cup DOMAIN Declared

ASSUME SessionAssumption ==
    /\ HdrCap \in Nat \ {0}
    /\ SdpCap \in Nat \ {0}
    /\ LineEnds \subseteq Seq({CR, LF})
    /\ Declared \in [DOMAIN Declared -> Nat] /\ DOMAIN Declared \cap Words = {}
    /\ MaxSdp \in Nat
    /\ MaxPad \in Nat
    /\ MaxSessions \in Nat
    /\ Faults \in BOOLEAN

(* The requests of session_start in order: DESCRIBE, SETUP of each of the  *)
(* three streams, PLAY.                                                    *)
DESCRIBE == 1
SETUPs   == 2..4
PLAY     == 5
TEARDOWN == 6

Chan == <<"video", "audio", "control">>  \* in the order udp_open binds them
NoId == 0

VARIABLES
    pc,        \* idle, headers, trailing, reply, body, udp, streaming or crashed
    req,       \* the request whose answer is awaited
    hdr,       \* the header buffer
    sdp,       \* the body buffer
    session,   \* the Session id, here the number of its connection, or NoId
    width,     \* whether the resolution is known from the SDP
    socks,     \* open sockets: <<kind, n>> was opened by the n-th session
    bound,     \* the UDP sockets that are bound to their port
    udpFailed, \* history: udp_open has failed once
    starts,    \* number of sessions started
    inbox,     \* requests on their way to the host
    wire,      \* bytes on their way to the client
    granted,   \* history: requests of this session answered with 200
    playing,   \* ids of the sessions the host streams to
    unsent     \* history: a TEARDOWN could not be sent

vars == <<pc, req, hdr, sdp, session, width, socks, bound, udpFailed, starts,
          inbox, wire, granted, playing, unsent>>

Has(s, item) == \E i \in 1..Len(s) : s[i] = item
Times(n, item) == [i \in 1..n |-> item]

(* The host's answers: a status line, header lines, an empty line, SDP;    *)
(* every line of an answer ends with e.  The declared length need not be   *)
(* that of the body.                                                       *)
Lengthy(e, n, length, m) == Times(n, "other") \o <<length>> \o e \o e \o Times(m, "sdp")
Further(r, e) ==
    IF r = DESCRIBE
    THEN {e} \cup { Lengthy(e, n, length, m) :
                      n \in 0..MaxPad, length \in DOMAIN Declared, m \in 0..MaxSdp }
    ELSE IF r \in SETUPs THEN {e, <<"Session:">> \o e \o e} ELSE {e}
Grants(r) == UNION { { <<"200">> \o e \o t : t \in Further(r, e) } : e \in LineEnds }
Refusals  == { <<"refused">> \o e \o e : e \in LineEnds }

-----------------------------------------------------------------------------
Init ==
    /\ pc = "idle"
    /\ req = DESCRIBE
    /\ hdr = <<>>
    /\ sdp = <<>>
    /\ session = NoId
    /\ width = FALSE
    /\ socks = {}
    /\ bound = {}
    /\ udpFailed = FALSE
    /\ starts = 0
    /\ inbox = <<>>
    /\ wire = <<>>
    /\ granted = {}
    /\ playing = {}
    /\ unsent = FALSE

Rtsp == <<"rtsp", starts>>

(* rtsp_send of request r; then its answer is awaited. *)
Send(r) ==
    /\ inbox' = Append(inbox, [req |-> r, id |-> session', conn |-> starts'])
    /\ pc' = "headers"
    /\ req' = r
    /\ hdr' = <<>>

(* Mutant: only a running session is torn down by its id. *)
MutTeardownId == IF pc = "streaming" THEN session' ELSE NoId
TeardownId    == session'

(* rtsp_teardown, called with the sockets left open: TEARDOWN is sent, or  *)
(* not (the result is ignored), and the RTSP socket closed.                *)
Teardown(left) ==
    /\ \/ /\ inbox' = Append(inbox, [req |-> TEARDOWN, id |-> TeardownId, conn |-> starts])
          /\ UNCHANGED unsent
       \/ /\ Faults
          /\ unsent' = TRUE
          /\ UNCHANGED inbox
    /\ socks' = left \ {Rtsp}
    /\ pc' = "idle"
    /\ wire' = <<>>
    /\ UNCHANGED <<req, hdr>>

(* The next request; if it cannot be sent, session_start gives up. *)
Request(r) ==
    \/ Send(r) /\ UNCHANGED <<socks, wire, unsent>>
    \/ Faults /\ Teardown(socks)

(* rtsp_connect up to the sending of DESCRIBE. *)
Start ==
    /\ pc = "idle"
    /\ starts < MaxSessions
    /\ starts' = starts + 1
    /\ session' = NoId
    /\ width' = FALSE
    /\ sdp' = <<>>
    /\ socks' = socks \cup {<<"rtsp", starts'>>}
    /\ Send(DESCRIBE)
    /\ granted' = {}
    /\ UNCHANGED <<bound, udpFailed, wire, playing, unsent>>

(* No connection, or DESCRIBE not sent: no socket is left open. *)
StartRefused ==
    /\ Faults
    /\ pc = "idle"
    /\ starts < MaxSessions
    /\ starts' = starts + 1
    /\ session' = NoId
    /\ width' = FALSE
    /\ granted' = {}
    /\ UNCHANGED <<pc, req, hdr, sdp, socks, bound, udpFailed, inbox, wire, playing, unsent>>

-----------------------------------------------------------------------------
(* A byte written past the end of a buffer on the stack: undefined, either *)
(* nothing comes of it or the program ends.                                *)
After(overrun, place) == IF overrun THEN {place, "crashed"} ELSE {place}

(* rtsp_read_headers takes one byte after the other.  Its test for the     *)
(* empty line wants the last three bytes to be LF CR CR, and one more is   *)
(* read after them without a look at the room left.                        *)
BlankLine(s) == Len(s) >= 3 /\ SubSeq(s, Len(s) - 2, Len(s)) = <<LF, CR, CR>>

(* Mutant: one byte too many fits into the buffer. *)
MutBufferFull(s) == Len(s) > HdrCap
BufferFull(s)    == Len(s) >= HdrCap

ReadHeader ==
    /\ pc = "headers"
    /\ wire # <<>>
    /\ hdr' = Append(hdr, Head(wire))
    /\ wire' = Tail(wire)
    /\ pc' = IF BlankLine(hdr') THEN "trailing" ELSE IF BufferFull(hdr') THEN "reply" ELSE "headers"
    /\ UNCHANGED <<req, sdp, session, width, socks, bound, udpFailed, starts, inbox,
                   granted, playing, unsent>>

(* The byte after LF CR CR; then buf[used] = 0. *)
ReadTrailing ==
    /\ pc = "trailing"
    /\ wire # <<>>
    /\ hdr' = Append(hdr, Head(wire))
    /\ wire' = Tail(wire)
    /\ pc' \in After(Len(hdr') > HdrCap, "reply")
    /\ UNCHANGED <<req, sdp, session, width, socks, bound, udpFailed, starts, inbox,
                   granted, playing, unsent>>

(* Mutant: a silence before the first byte is waited out again. *)
MutAfterSilence == IF hdr = <<>> THEN "headers" ELSE "reply"

(* Two seconds without a byte, whether or not the host has sent one. *)
AfterSilence == "reply"

HeadersTimeout ==
    /\ pc \in {"headers", "trailing"}
    /\ pc' = AfterSilence
    /\ UNCHANGED <<req, hdr, sdp, session, width, socks, bound, udpFailed, starts, inbox,
                   wire, granted, playing, unsent>>

(* Mutant: any answer will do. *)
MutAccepted == hdr # <<>>

(* Something was read, and "RTSP/1.0 200" is in it.  No CSeq is compared.  *)
Accepted == Has(hdr, "200")

(* rtsp_connect: a refused DESCRIBE closes the socket, without TEARDOWN.   *)
Refused ==
    /\ pc = "reply" /\ req = DESCRIBE
    /\ ~Accepted
    /\ pc' = "idle"
    /\ socks' = socks \ {Rtsp}
    /\ wire' = <<>>
    /\ UNCHANGED <<req, hdr, sdp, session, width, bound, udpFailed, starts, inbox,
                   granted, playing, unsent>>

(* rtsp_header: the first such line counts, if there is one. *)
LengthLines   == { i \in 1..Len(hdr) : hdr[i] \in DOMAIN Declared }
ContentLength == { Declared[hdr[i]] : i \in { j \in LengthLines : \A k \in LengthLines : j <= k } }

(* rtsp_connect: with a Content-Length the body is read, else SETUP begins. *)
Described ==
    /\ pc = "reply" /\ req = DESCRIBE
    /\ Accepted
    /\ UNCHANGED <<session, starts>>
    /\ IF ContentLength # {}
       THEN /\ pc' = "body"
            /\ UNCHANGED <<req, hdr, socks, inbox, wire, unsent>>
       ELSE Request(DESCRIBE + 1)
    /\ UNCHANGED <<sdp, width, bound, udpFailed, granted, playing>>

(* Mutant: the size of the buffer is asked for instead. *)
MutWanted(length) == SdpCap + 1

(* What rtsp_read_body asks of a recv: what the host declared, less what   *)
(* it got, whatever the room left.                                         *)
Wanted(length) == length - Len(sdp)

ReadBody ==
    /\ pc = "body"
    /\ \E length \in ContentLength, n \in 1..Len(wire) :
           /\ Len(sdp) < length /\ Len(sdp) < SdpCap
           /\ n <= Wanted(length)
           /\ sdp' = sdp \o SubSeq(wire, 1, n)
           /\ wire' = SubSeq(wire, n + 1, Len(wire))
    /\ pc' \in After(Len(sdp') > SdpCap, "body")
    /\ UNCHANGED <<req, hdr, session, width, socks, bound, udpFailed, starts, inbox,
                   granted, playing, unsent>>

(* The body is complete or two seconds passed; the SDP is parsed and the   *)
(* first SETUP sent.                                                       *)
BodyRead ==
    /\ pc = "body"
    /\ UNCHANGED <<session, starts>>
    /\ width' = Has(sdp, "sdp")
    /\ Request(DESCRIBE + 1)
    /\ UNCHANGED <<sdp, bound, udpFailed, granted, playing>>

(* rtsp_setup keeps the first Session id it is given, and needs one.       *)
SetUp ==
    /\ pc = "reply" /\ req \in SETUPs
    /\ UNCHANGED starts
    /\ session' = IF Accepted /\ session = NoId /\ Has(hdr, "Session:") THEN starts ELSE session
    /\ IF Accepted /\ (req + 1 = PLAY => session' # NoId)
       THEN Request(req + 1)
       ELSE Teardown(socks)
    /\ UNCHANGED <<sdp, width, bound, udpFailed, granted, playing>>

Played ==
    /\ pc = "reply" /\ req = PLAY
    /\ UNCHANGED session
    /\ IF Accepted
       THEN pc' = "udp" /\ UNCHANGED <<req, hdr, socks, inbox, wire, unsent>>
       ELSE Teardown(socks)
    /\ UNCHANGED <<sdp, width, bound, udpFailed, starts, granted, playing>>

-----------------------------------------------------------------------------
Udp(i) == <<Chan[i], starts>>

(* Mutant: every port can be bound once more. *)
MutPortFree(i) == TRUE

(* bind succeeds only if no open socket has the port. *)
PortFree(i) == \A s \in bound : s[1] # Chan[i]

(* udp_open with all three sockets open and bound; session_start goes on   *)
(* to create the pipeline and the reassemblers.                            *)
UdpOpened ==
    /\ pc = "udp"
    /\ \A i \in 1..3 : PortFree(i)
    /\ socks' = socks \cup { Udp(i) : i \in 1..3 }
    /\ bound' = bound \cup { Udp(i) : i \in 1..3 }
    /\ pc' = "streaming"
    /\ UNCHANGED <<req, hdr, sdp, session, width, udpFailed, starts, inbox, wire,
                   granted, playing, unsent>>

(* The i-th bind fails: the error path of session_start tears the RTSP     *)
(* session down, but the UDP sockets stay open, the first ones bound.      *)
UdpBindFailed(i) ==
    /\ pc = "udp"
    /\ \A j \in 1..(i - 1) : PortFree(j)
    /\ Faults \/ ~PortFree(i)
    /\ UNCHANGED session
    /\ Teardown(socks \cup { Udp(j) : j \in 1..3 })
    /\ bound' = bound \cup { Udp(j) : j \in 1..(i - 1) }
    /\ udpFailed' = TRUE
    /\ UNCHANGED <<sdp, width, starts, granted, playing>>

(* Only the sockets of opened could be created: same error path. *)
UdpSocketFailed(opened) ==
    /\ Faults
    /\ pc = "udp"
    /\ UNCHANGED session
    /\ Teardown(socks \cup { Udp(j) : j \in opened })
    /\ udpFailed' = TRUE
    /\ UNCHANGED <<sdp, width, bound, starts, granted, playing>>

(* Mutant: udp_close forgets the control socket. *)
MutClosed == { Udp(1), Udp(2) }

(* The sockets udp_close closes. *)
Closed == { Udp(i) : i \in 1..3 }

(* Triangle: session_stop. *)
Stop ==
    /\ pc = "streaming"
    /\ UNCHANGED session
    /\ Teardown(socks \ Closed)
    /\ bound' = bound \ Closed
    /\ UNCHANGED <<sdp, width, udpFailed, starts, granted, playing>>

-----------------------------------------------------------------------------
(* The host (external) handles the requests in order and answers them on   *)
(* their connection, if that is still open.                                *)
Open(m) == <<"rtsp", m.conn>> \in socks

HostGrants ==
    /\ inbox # <<>>
    /\ LET m == Head(inbox)
       IN /\ m.req # TEARDOWN
          /\ m.req = PLAY => m.id = m.conn
          /\ \E a \in Grants(m.req) : wire' = IF Open(m) THEN wire \o a ELSE wire
          /\ granted' = IF m.conn = starts THEN granted \cup {m.req} ELSE granted
          /\ playing' = IF m.req = PLAY THEN playing \cup {m.id} ELSE playing
    /\ inbox' = Tail(inbox)
    /\ UNCHANGED <<pc, req, hdr, sdp, session, width, socks, bound, udpFailed, starts, unsent>>

HostRefuses ==
    /\ inbox # <<>>
    /\ Head(inbox).req # TEARDOWN
    /\ \E a \in Refusals : wire' \in {wire, IF Open(Head(inbox)) THEN wire \o a ELSE wire}
    /\ inbox' = Tail(inbox)
    /\ UNCHANGED <<pc, req, hdr, sdp, session, width, socks, bound, udpFailed, starts,
                   granted, playing, unsent>>

HostTearsDown ==
    /\ inbox # <<>>
    /\ Head(inbox).req = TEARDOWN
    /\ playing' = playing \ {Head(inbox).id}
    /\ inbox' = Tail(inbox)
    /\ UNCHANGED <<pc, req, hdr, sdp, session, width, socks, bound, udpFailed, starts, wire,
                   granted, unsent>>

Host == HostGrants \/ HostRefuses \/ HostTearsDown

(* session_start, once begun. *)
Going ==
    \/ ReadHeader \/ ReadTrailing \/ HeadersTimeout
    \/ Refused \/ Described \/ ReadBody \/ BodyRead \/ SetUp \/ Played
    \/ UdpOpened
    \/ \E i \in 1..3 : UdpBindFailed(i)
    \/ \E opened \in SUBSET (1..3) \ {1..3} : UdpSocketFailed(opened)

Next == Start \/ StartRefused \/ Going \/ Stop \/ Host

(* session_start blocks in nothing but reads that time out, and the host   *)
(* gets to every request; nobody has to start or to stop a session.        *)
Fairness == WF_vars(Going) /\ WF_vars(Host)

Spec == Init /\ [][Next]_vars /\ Fairness

-----------------------------------------------------------------------------
Sockets == ({"rtsp"} \cup { Chan[i] : i \in 1..3 }) \X (1..MaxSessions)
Message == [req : 1..6, id : 0..MaxSessions, conn : 1..MaxSessions]

(* Type invariant.  The header buffer may get one byte more than it holds. *)
TypeOK ==
    /\ pc \in {"idle", "headers", "trailing", "reply", "body", "udp", "streaming", "crashed"}
    /\ req \in DESCRIBE..PLAY
    /\ hdr \in Seq(Items) /\ Len(hdr) <= HdrCap + 1
    /\ sdp \in Seq(Items)
    /\ session \in 0..MaxSessions
    /\ width \in BOOLEAN
    /\ socks \subseteq Sockets
    /\ bound \subseteq socks
    /\ udpFailed \in BOOLEAN
    /\ starts \in 0..MaxSessions
    /\ inbox \in Seq(Message)
    /\ wire \in Seq(Items)
    /\ granted \subseteq DESCRIBE..PLAY
    /\ playing \subseteq 1..MaxSessions
    /\ unsent \in BOOLEAN

(* No read goes past its buffer but in two cases, which no test of the     *)
(* code keeps out: an empty line LF CR CR that ends in the last byte of    *)
(* the header buffer (rtsp.c:36, 41), and a Content-Length beyond the body *)
(* buffer, by which it is exceeded at most (rtsp.c:49).                    *)
BuffersKept ==
    /\ Len(hdr) > HdrCap => BlankLine(SubSeq(hdr, 1, HdrCap))
    /\ pc = "body" /\ Len(sdp) > SdpCap => \E length \in ContentLength : Len(sdp) <= length

(* Nothing matches an answer to its request, and late answers stay in the  *)
(* stream; yet a session proceeds past a request only if the host granted  *)
(* that very request, so it streams only if the host granted all five.     *)
ProceedsOnlyIfGranted ==
    pc # "idle" =>
        /\ DESCRIBE..(req - 1) \subseteq granted
        /\ pc \in {"udp", "streaming"} => PLAY \in granted

(* Whichever way a session ends, no socket of it stays open: unless        *)
(* udp_open failed, whose sockets session_start does not close.            *)
ClosedWhenIdle == pc = "idle" /\ ~udpFailed => socks = {}

(* The price of that: a port left bound by a failed session_start keeps    *)
(* every later session from streaming until the program ends.              *)
LeakedPortIsFatal ==
    (\E s \in bound : s[2] < starts) => pc # "streaming"

(* session_start returns whatever the host does or fails to do.            *)
StartReturns ==
    pc \notin {"idle", "streaming"} ~> pc \in {"idle", "streaming", "crashed"}

(* A stream the host has begun is received by its session, or the host is  *)
(* told to end it, even while a later session streams: also if its answer  *)
(* to PLAY came too late, or udp_open failed after it.                     *)
EachStreamEnds ==
    \A n \in 1..MaxSessions :
        n \in playing ~> \/ n \notin playing \/ unsent \/ pc = "crashed"
                         \/ pc = "streaming" /\ starts = n

(* "Read RTSP response headers (up to the blank line) into buf [...] Does  *)
(* not consume a body (callers parse the SDP that follows via a second     *)
(* read)" (rtsp.c): nothing of the SDP is in the header buffer.            *)
HeadersLeaveTheBody == ~Has(hdr, "sdp")
=============================================================================
