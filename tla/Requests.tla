------------------------------ MODULE Requests ------------------------------
(***************************************************************************)
(* The HTTP requests of the menu, and what they wait for and hold: perform *)
(* (src/src/net/http.c) is called by pair_with_host                        *)
(* (src/src/proto/pairing.c), rtsp_applist and rtsp_launch                 *)
(* (src/src/net/rtsp.c), which ui_run calls in the middle of a turn; the   *)
(* turn's outcome is that of Menu.  Sockets, TLS (mbedtls), memory and the *)
(* hosts are external.                                                     *)
(***************************************************************************)
EXTENDS Menu

CONSTANTS
    ReadLen,    \* bytes asked for at a time (1024)
    FirstCap,   \* bytes of the buffer to begin with (8192)
    MaxAnswer   \* bound: bytes of an answer

ASSUME RequestsAssumption ==
    /\ {ReadLen, FirstCap} \subseteq Nat \ {0}
    /\ ReadLen <= FirstCap
    /\ MaxAnswer \in Nat

VARIABLES
    call,   \* what the turn waits for, or turn: the list is there, go on
    asked,  \* the request of pair_with_host
    at,     \* where perform is, how it ended, idle or crashed
    used,   \* bytes received
    cap,    \* bytes the buffer holds
    held,   \* what is to be released when the request ends
    leaked  \* history: what was not

reqVars == <<call, asked, at, used, cap, held, leaked>>
allVars == <<vars, reqVars>>

Calls == {"pair", "applist", "launch"}

(* fetch_serverinfo, whose failure does not matter, and the five steps of  *)
(* pairing; the last one, the list and the launch go over TLS.             *)
PairRequests == 6
Optional     == call = "pair" /\ asked = 1
OverTLS      == call # "pair" \/ asked = PairRequests

RequestsInit ==
    /\ Init
    /\ call = "none" /\ at = "idle" /\ asked = 0
    /\ used = 0 /\ cap = 0
    /\ held = {} /\ leaked = {}

-----------------------------------------------------------------------------
(* Turns and parts of turns in which nothing is asked of a host.           *)
MenuTurn ==
    /\ call \in {"none", "turn"}
    /\ \/ \E b \in Buttons : HostList(b)
       \/ StartPin
       \/ \E b \in Buttons \ {"cross"} : EnterPin(b)
       \/ /\ call = "turn" \/ apps_loaded
          /\ \E b \in Buttons \ {"cross"} : AppScreen(b)
       \/ Stream
    /\ call' = "none"
    /\ UNCHANGED <<asked, at, used, cap, held, leaked>>

Request(c, k) == call' = c /\ asked' = k /\ at' = "connect"

Ask ==
    /\ \/ call = "none" /\ state = "pin" /\ Request("pair", 1)
       \/ call = "none" /\ state = "apps" /\ ~apps_loaded /\ Request("applist", 0)
       \/ /\ call = "turn" \/ (call = "none" /\ state = "apps" /\ apps_loaded)
          /\ Request("launch", 0)
    /\ UNCHANGED <<vars, used, cap, held, leaked>>

(* pair_with_host fails before it asks anything: no certificate. *)
NoIdentity ==
    /\ call = "none"
    /\ EnterPin("cross") /\ state' = "hosts"
    /\ UNCHANGED reqVars

-----------------------------------------------------------------------------
(* perform.  An error releases some of what is held; the rest is lost.     *)
Fail(all, released) ==
    /\ at' = "failed"
    /\ held' = {}
    /\ leaked' = leaked \cup (all \ released)

(* parse_url, net_connect: a URL too long, no address, no socket, refused. *)
Connect ==
    /\ at = "connect"
    /\ \/ Fail({}, {})
       \/ /\ at' = IF OverTLS THEN "handshake" ELSE "send"
          /\ held' = {"socket"}
          /\ UNCHANGED leaked
    /\ UNCHANGED <<used, cap>>

(* Mutant: nothing is closed. *)
MutClosedThen == {}
(* net_close(fd), after a failed handshake. *)
ClosedThen == {"socket"}

(* tls_connect: the host's certificate and key are loaded if they parse.   *)
Handshake ==
    /\ at = "handshake"
    /\ \E identity \in SUBSET {"identity"} :
          LET all == held \cup {"tls"} \cup identity IN
          \/ Fail(all, ClosedThen)
          \/ at' = "send" /\ held' = all /\ UNCHANGED leaked
    /\ UNCHANGED <<used, cap>>

(* The request is written.  Over TLS this goes through the address of a    *)
(* parameter of tls_connect, which has returned (http.c:107): whatever the *)
(* stack has there now is taken for the socket, so that it may fail.       *)
Send ==
    /\ at = "send"
    /\ \/ Fail(held, {"socket", "tls"}) /\ UNCHANGED <<used, cap>>
       \/ Fail(held, {"socket"}) /\ UNCHANGED <<used, cap>>  \* no memory
       \/ /\ at' = "recv"
          /\ held' = held \cup {"buf"}
          /\ used' = 0
          /\ cap' = FirstCap
          /\ UNCHANGED leaked

(* Mutant: the buffer grows when it is full. *)
MutGrown == IF used >= cap THEN 2 * cap ELSE cap
(* It grows when a whole read might not fit. *)
Grown == IF used + ReadLen > cap THEN 2 * cap ELSE cap

(* The host answers, a part at a time. *)
Recv ==
    /\ at = "recv"
    /\ \E n \in 1..ReadLen :
          /\ used + n <= MaxAnswer
          /\ used' = used + n
    /\ cap' = Grown
    /\ UNCHANGED <<at, held, leaked>>

(* Mutant: the end of the connection is not an end. *)
MutEnds(n) == n < 0
Ends(n)    == n <= 0

(* The host closes the connection (0), or it fails (-1); over TLS this is  *)
(* also what becomes of reads from something else than the socket.  The    *)
(* response is written; certificate and key are forgotten.                 *)
RecvEnds(n) ==
    /\ at = "recv"
    /\ Ends(n)
    /\ at' = "done"
    /\ held' = {"body"}
    /\ leaked' = leaked \cup (held \cap {"identity"})
    /\ cap' = Grown
    /\ UNCHANGED used

(* realloc and the last mallocs are not checked. *)
OutOfMemory ==
    /\ at = "recv"
    /\ at' = "crashed"
    /\ UNCHANGED <<used, cap, held, leaked>>

HostCloses == RecvEnds(0) /\ UNCHANGED <<vars, call, asked>>

Perform ==
    /\ Connect \/ Handshake \/ Send
    /\ UNCHANGED <<vars, call, asked>>

Receive ==
    /\ Recv \/ RecvEnds(-1) \/ OutOfMemory
    /\ UNCHANGED <<vars, call, asked>>

-----------------------------------------------------------------------------
(* What the callers do when perform has returned: each frees the response. *)
Returned == at \in {"done", "failed"}
Freed    == held' = held \ {"body"} /\ used' = 0 /\ cap' = 0 /\ UNCHANGED leaked
Return   == call' = "none" /\ at' = "idle" /\ asked' = 0

PairGoesOn ==
    /\ call = "pair" /\ Returned
    /\ \/ /\ asked < PairRequests
          /\ at = "done" \/ Optional
          /\ Request("pair", asked + 1)
          /\ UNCHANGED vars
       \/ /\ asked = PairRequests /\ at = "done"
          /\ EnterPin("cross") /\ state' = "apps"
          /\ Return
       \/ /\ EnterPin("cross") /\ state' = "hosts"
          /\ Return
    /\ Freed

(* A status other than 200 or an empty list; otherwise the turn goes on.   *)
ListReturns ==
    /\ call = "applist" /\ at = "done"
    /\ \/ call' = "turn" /\ at' = "idle" /\ UNCHANGED <<vars, asked>>
       \/ NoAppList /\ Return
    /\ Freed

LaunchReturns ==
    /\ call = "launch" /\ at = "done"
    /\ AppScreen("cross")
    /\ Return
    /\ Freed

(* After a failed request rtsp_applist and rtsp_launch read the status of  *)
(* a response that was never written, and free whatever its body is.       *)
FreesUnwritten ==
    /\ call \in {"applist", "launch"} /\ at = "failed"
    /\ \/ call = "applist" /\ NoAppList /\ app_n' = -1 /\ Return
       \/ call = "launch" /\ AppScreen("cross") /\ state' = "apps" /\ Return
       \/ at' = "crashed" /\ UNCHANGED <<vars, call, asked>>
    /\ Freed

Returns == PairGoesOn \/ ListReturns \/ LaunchReturns \/ FreesUnwritten

RequestsNext == MenuTurn \/ Ask \/ NoIdentity \/ Perform \/ Receive \/ HostCloses \/ Returns

(* The program goes on with what it can do, and a host closes the          *)
(* connection sooner or later ("server closes after Connection: close",    *)
(* http.c:175): there is no timeout for one that does not.  Nothing makes  *)
(* it answer, or the connection fail.                                      *)
RequestsSpec ==
    /\ RequestsInit /\ [][RequestsNext]_allVars
    /\ WF_allVars(Perform) /\ WF_allVars(HostCloses) /\ WF_allVars(Returns)

-----------------------------------------------------------------------------
(* Between requests no socket, buffer or response is held or was lost on   *)
(* any of the ways out; what perform does forget belongs to TLS.  The      *)
(* answer never outgrows the buffer, however it comes in parts.            *)
NothingButTLSLeaks ==
    /\ at \in {"idle", "failed"} => held = {}
    /\ leaked \subseteq {"tls", "identity"}
    /\ used <= cap

(* A button that asks something of a host does not stop the menu: every    *)
(* request, and with it the call of pair_with_host that makes six, comes   *)
(* to an end once the hosts have closed the connections.                   *)
RequestsReturn == at # "idle" ~> at \in {"idle", "crashed"}
=============================================================================
