---------------------------- MODULE VideoChannel ----------------------------
(***************************************************************************)
(* The video path from the host to the decoder: the host sends its frames  *)
(* datagram by datagram, UDP loses some but keeps their order, and the     *)
(* socket holds only so many.  session_start binds it after the host was   *)
(* asked to play; then each turn of the stream loop (src/src/ui/ui.c,      *)
(* run_stream) calls session_pump, which reads at most one video datagram  *)
(* and feeds it to the reassembler (src/src/proto/connection.c).           *)
(***************************************************************************)
EXTENDS Reassembly

CONSTANTS
    SockCap,  \* datagrams the socket holds
    MaxLoss   \* bound: datagrams the network loses in one behaviour

ASSUME ChannelAssumption ==
    /\ SockCap \in Nat \ {0}
    /\ MaxLoss \in Nat
    /\ \A d \in Fragments : PLen[d] > 0  \* a host's datagram carries data

VARIABLES
    hostNext,  \* the datagram the host sends next
    wire,      \* sent, and on the way
    bound,     \* whether the socket is bound
    sock,      \* received by the socket
    lost,      \* number of datagrams lost
    damaged    \* history: frames of which a datagram was lost or not stored

chanVars == <<hostNext, wire, bound, sock, lost, damaged>>
allVars  == <<vars, chanVars>>

ChanInit ==
    /\ Init
    /\ hostNext = Frag(1, 1)
    /\ wire = <<>>
    /\ bound = FALSE
    /\ sock = <<>>
    /\ lost = 0
    /\ damaged = {}

HostSend ==
    /\ hostNext.frame <= NFrames
    /\ wire' = Append(wire, hostNext)
    /\ hostNext' = IF FLAG_EOF(hostNext) THEN Frag(hostNext.frame + 1, 1)
                   ELSE Frag(hostNext.frame, hostNext.idx + 1)
    /\ UNCHANGED <<vars, bound, sock, lost, damaged>>

NetLose(i) ==
    /\ lost < MaxLoss
    /\ lost' = lost + 1
    /\ damaged' = damaged \cup {wire[i].frame}
    /\ wire' = [j \in 1..(Len(wire) - 1) |-> IF j < i THEN wire[j] ELSE wire[j + 1]]
    /\ UNCHANGED <<vars, hostNext, bound, sock>>

(* udp_open, in session_start. *)
Bind ==
    /\ ~bound
    /\ bound' = TRUE
    /\ UNCHANGED <<vars, hostNext, wire, sock, lost, damaged>>

(* A datagram reaches the console: there has to be a socket, with room.    *)
Arrive ==
    /\ wire # <<>>
    /\ wire' = Tail(wire)
    /\ \/ /\ bound /\ Len(sock) < SockCap
          /\ sock' = Append(sock, Head(wire))
          /\ UNCHANGED damaged
       \/ /\ ~bound \/ Len(sock) = SockCap
          /\ damaged' = damaged \cup {Head(wire).frame}
          /\ UNCHANGED sock
    /\ UNCHANGED <<vars, hostNext, bound, lost>>

(* session_pump's video half, the datagram stored or not. *)
PumpStored ==
    /\ sock # <<>>
    /\ FeedIgnored(Head(sock)) \/ FeedAppended(Head(sock))
    /\ sock' = Tail(sock)
    /\ UNCHANGED <<hostNext, wire, bound, lost, damaged>>

PumpOutOfMemory ==
    /\ sock # <<>>
    /\ FeedOutOfMemory(Head(sock))
    /\ sock' = Tail(sock)
    /\ damaged' = damaged \cup {Head(sock).frame}
    /\ UNCHANGED <<hostNext, wire, bound, lost>>

ChanNext ==
    \/ HostSend
    \/ \E i \in 1..Len(wire) : NetLose(i)
    \/ Bind
    \/ Arrive
    \/ PumpStored
    \/ PumpOutOfMemory

(* The host keeps streaming, what it sends arrives, and the stream loop    *)
(* keeps calling session_pump; the socket may never be bound.              *)
ChanFairness ==
    WF_allVars(HostSend) /\ WF_allVars(Arrive) /\ WF_allVars(PumpStored \/ PumpOutOfMemory)

ChanSpec == ChanInit /\ [][ChanNext]_allVars /\ ChanFairness

-----------------------------------------------------------------------------
(* The decoder's view of an emitted frame. *)
View(e) == [pts |-> e.pts, intact |-> e.data = FrameSeq(e.pts)]

Stream == INSTANCE FrameStream WITH
              sent <- hostNext.frame - 1,
              emitted <- [n \in 1..Len(out) |-> View(out[n])]

(* The receive path implements the frame stream: order, no frame twice,    *)
(* intact exactly when untouched, and (fairness) every untouched frame     *)
(* does arrive.  This is with datagrams lost on the way, sent before the   *)
(* socket is bound (connection.c:33 before :38) or faster than one a turn  *)
(* is read, and with failed reallocations: each costs the frames it hits   *)
(* and no others.                                                          *)
ImplementsStream == Stream!Spec
=============================================================================
