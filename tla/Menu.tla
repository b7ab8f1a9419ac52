-------------------------------- MODULE Menu --------------------------------
(***************************************************************************)
(* The menu, ui_run (src/src/ui/ui.c): one loop whose turn reads the       *)
(* buttons held at that moment and acts on the first of them the state     *)
(* tests.  Pairing, the application list, launching and streaming are      *)
(* calls that return a result here; Pairing.tla and Session.tla look       *)
(* inside the first and the last.                                          *)
(***************************************************************************)
EXTENDS Integers, Functions

CONSTANTS
    MAX_HOSTS,  \* bound: hosts in the store
    MAX_APPS,   \* entries of the array of applications (64)
    PIN_LEN,    \* digits of a PIN (4)
    Digits      \* values of a digit (10)

ASSUME MenuAssumption ==
    /\ MAX_HOSTS \in Nat
    /\ {MAX_APPS, PIN_LEN, Digits} \subseteq Nat \ {0}

NoHost  == -1  \* cur is NULL
Stack   == -2  \* an entry of apps that was never written
Cleared == -3  \* one that rtsp_applist cleared and did not fill
States  == {"hosts", "pair", "pin", "apps", "stream", "quit"}
Buttons == {"up", "down", "left", "right", "cross", "circle", "start", "none"}

VARIABLES
    state,        \* what the loop shows
    cnt,          \* hoststore_count: nothing is removed or added by the menu
    paired,       \* the paired field of each host
    sel,          \* the host marked
    cur,          \* the host chosen, or NoHost
    pin, pin_pos, \* the PIN being entered and the digit marked
    apps,         \* the array of applications: the host each entry is from
    app_n,        \* what rtsp_applist returned
    app_sel,      \* the application marked
    apps_loaded   \* whether apps holds the list to show

hostVars == <<cnt, paired, sel, cur>>
pinVars  == <<pin, pin_pos>>
appVars  == <<apps, app_n, app_sel, apps_loaded>>
vars     == <<state, hostVars, pinVars, appVars>>

Hosts == 0..(cnt - 1)

(* The mark, corrected at the top of each turn. *)
Marked == IF sel >= cnt THEN 0 ELSE sel

(* Marking the next or the previous of n entries. *)
Modulus(n) == IF n = 0 THEN 1 ELSE n
Down(i, n) == (i + 1) % Modulus(n)
(* Mutant: no wrapping around above. *)
MutUp(i, n) == IF i = 0 THEN n ELSE i - 1
Up(i, n)    == (i + Modulus(n) - 1) % Modulus(n)

(* Going to a state that begins with loading the list, or from which one   *)
(* comes back to it with another host.                                     *)
(* Mutant: the list stays marked as loaded. *)
MutGo(s) == state' = s /\ UNCHANGED apps_loaded
Go(s)    == state' = s /\ apps_loaded' = FALSE

-----------------------------------------------------------------------------
Init ==
    /\ state = "hosts"
    /\ cnt \in 0..MAX_HOSTS
    /\ paired \in [0..(cnt - 1) -> BOOLEAN]
    /\ sel = 0
    /\ cur = NoHost
    /\ pin = [i \in 0..(PIN_LEN - 1) |-> 0]
    /\ pin_pos = 0
    /\ apps = [i \in 0..(MAX_APPS - 1) |-> Stack]
    /\ app_n = 0
    /\ app_sel = 0
    /\ apps_loaded = FALSE

(* The host list. *)
(* Mutant: the host's state is not looked at. *)
MutChosenState(h) == "apps"
ChosenState(h)    == IF paired[h] THEN "apps" ELSE "pair"

ChooseHost ==
    /\ cnt > 0
    /\ cur' = Marked
    /\ Go(ChosenState(Marked))
    /\ sel' = Marked

MarkHost(i) == sel' = i /\ UNCHANGED <<state, cur, apps_loaded>>

HostList(b) ==
    /\ state = "hosts"
    /\ \/ b = "down" /\ MarkHost(Down(Marked, cnt))
       \/ b = "up" /\ MarkHost(Up(Marked, cnt))
       \/ b = "cross" /\ ChooseHost
       \/ b = "start" /\ state' = "quit" /\ UNCHANGED <<sel, cur, apps_loaded>>
    /\ UNCHANGED <<cnt, paired, pinVars, apps, app_n, app_sel>>

(* A PIN of zeros to begin with. *)
StartPin ==
    /\ state = "pair"
    /\ state' = "pin"
    /\ pin' = [i \in 0..(PIN_LEN - 1) |-> 0]
    /\ pin_pos' = 0
    /\ UNCHANGED <<hostVars, appVars>>

EditPin(b) ==
    /\ \/ b = "up" /\ pin' = [pin EXCEPT ![pin_pos] = (@ + 1) % Digits] /\ UNCHANGED pin_pos
       \/ b = "down" /\ pin' = [pin EXCEPT ![pin_pos] = (@ + Digits - 1) % Digits] /\ UNCHANGED pin_pos
       \/ b = "left" /\ pin_pos' = (pin_pos + PIN_LEN - 1) % PIN_LEN /\ UNCHANGED pin
       \/ b = "right" /\ pin_pos' = (pin_pos + 1) % PIN_LEN /\ UNCHANGED pin
    /\ UNCHANGED <<state, paired, apps_loaded>>

(* pair_with_host succeeds and the host is paired, or fails. *)
Pair ==
    /\ \/ paired' = [paired EXCEPT ![cur] = TRUE] /\ Go("apps")
       \/ state' = "hosts" /\ UNCHANGED <<paired, apps_loaded>>
    /\ UNCHANGED pinVars

EnterPin(b) ==
    /\ state = "pin"
    /\ \/ EditPin(b)
       \/ b = "cross" /\ Pair
       \/ b = "circle" /\ state' = "hosts" /\ UNCHANGED <<paired, apps_loaded, pinVars>>
    /\ UNCHANGED <<cnt, sel, cur, apps, app_n, app_sel>>

(* rtsp_applist writes the n entries of the host's list, and may clear the *)
(* one after them for an application without an id.                        *)
(* Mutant: the first entry is passed over. *)
MutListed(n) ==
    { [i \in 0..(MAX_APPS - 1) |-> IF i \in 1..n THEN cur ELSE apps[i]] }
Listed(n) ==
    { [i \in 0..(MAX_APPS - 1) |-> IF i < n THEN cur
                                   ELSE IF i = n /\ c THEN Cleared ELSE apps[i]] : c \in BOOLEAN }

AppList ==
    IF apps_loaded THEN UNCHANGED <<apps, app_n>>
    ELSE \E n \in 1..MAX_APPS : app_n' = n /\ apps' \in Listed(n)

NoAppList ==
    /\ state = "apps"
    /\ ~apps_loaded
    /\ \/ app_n' = -1 /\ UNCHANGED apps
       \/ app_n' = 0 /\ apps' \in Listed(0)
    /\ Go("hosts")
    /\ UNCHANGED <<hostVars, pinVars, app_sel>>

MarkApp(i) == app_sel' = i /\ apps_loaded' = TRUE /\ UNCHANGED state

(* A launch is accepted or not; apps[app_sel] is the application asked for. *)
Launch ==
    /\ state' \in {"stream", "apps"}
    /\ apps_loaded' = TRUE
    /\ UNCHANGED app_sel

AppScreen(b) ==
    /\ state = "apps"
    /\ AppList
    /\ \/ b = "down" /\ MarkApp(Down(app_sel, app_n'))
       \/ b = "up" /\ MarkApp(Up(app_sel, app_n'))
       \/ b = "cross" /\ Launch
       \/ b = "circle" /\ Go("hosts") /\ UNCHANGED app_sel
       \/ b = "none" /\ MarkApp(app_sel)
    /\ UNCHANGED <<hostVars, pinVars>>

(* run_stream, which returns once Triangle is pressed or it failed. *)
Stream ==
    /\ state = "stream"
    /\ Go("hosts")
    /\ UNCHANGED <<hostVars, pinVars, apps, app_n, app_sel>>

Next ==
    \/ \E b \in Buttons : HostList(b) \/ EnterPin(b) \/ AppScreen(b)
    \/ StartPin
    \/ NoAppList
    \/ Stream

Spec == Init /\ [][Next]_vars

-----------------------------------------------------------------------------
TypeOK ==
    /\ state \in States
    /\ cnt \in 0..MAX_HOSTS
    /\ paired \in [Hosts -> BOOLEAN]
    /\ sel \in Hosts \cup {0}
    /\ cur \in Hosts \cup {NoHost}
    /\ state \notin {"hosts", "quit"} => cur \in Hosts
    /\ pin \in [0..(PIN_LEN - 1) -> 0..(Digits - 1)]
    /\ pin_pos \in 0..(PIN_LEN - 1)
    /\ apps \in [0..(MAX_APPS - 1) -> Hosts \cup {Stack, Cleared}]
    /\ app_n \in -1..MAX_APPS
    /\ app_sel \in 0..(MAX_APPS - 1)
    /\ apps_loaded \in BOOLEAN

(* Applications are listed and streamed only of a host that is paired,     *)
(* whichever hosts were looked at in between.                              *)
OnlyPairedStreams == state \in {"apps", "stream"} => paired[cur]

(* A list shown without asking the host again is that of the host chosen:  *)
(* apps_loaded is reset on every way to another host.                      *)
ListIsOfChosenHost ==
    state = "apps" /\ apps_loaded => app_n > 0 /\ \A i \in 0..(app_n - 1) : apps[i] = cur

(* The application marked, which Cross launches, is never an entry of apps *)
(* that no list has reached, although app_sel is kept when a shorter list  *)
(* is loaded (ui.c:144-152 does not reset it).                             *)
NothingFromTheStack == apps_loaded => apps[app_sel] # Stack
=============================================================================
