----------------------------- MODULE Menu_proofs -----------------------------
(***************************************************************************)
(* Proofs about Menu for every number of hosts and applications, whatever  *)
(* buttons are held and whatever the hosts answer; and about Requests,     *)
(* whose steps are steps of Menu and which releases what it acquires.      *)
(***************************************************************************)
EXTENDS Requests, TLAPS

(* Nothing up to the application marked is an entry never written: the     *)
(* mark has only ever moved within lists that were loaded.                 *)
MarkedListed ==
    (\A i \in 0..app_sel : apps[i] # Stack) \/ (app_sel = 0 /\ ~apps_loaded)

Inv == TypeOK /\ OnlyPairedStreams /\ ListIsOfChosenHost /\ MarkedListed

(* Marking stays within the list. *)
LEMMA ModRange == \A a \in Nat : \A n \in Nat \ {0} : a % n \in 0..(n - 1)
  OBVIOUS

LEMMA MarkRange ==
    ASSUME NEW n \in Nat, NEW i \in Nat
    PROVE  Down(i, n) \in 0..(Modulus(n) - 1) /\ Up(i, n) \in 0..(Modulus(n) - 1)
<1>1. Modulus(n) \in Nat \ {0}
  BY DEF Modulus
<1>2. i + 1 \in Nat /\ i + Modulus(n) - 1 \in Nat
  BY <1>1
<1>3. QED
  BY <1>1, <1>2, ModRange DEF Down, Up

LEMMA InvInit == Init => Inv
<1> SUFFICES ASSUME Init PROVE Inv
  OBVIOUS
<1>1. TypeOK
  <2>1. /\ state \in States /\ cnt \in 0..MAX_HOSTS /\ sel \in Hosts \cup {0}
        /\ cur \in Hosts \cup {NoHost} /\ apps_loaded \in BOOLEAN
        /\ state \notin {"hosts", "quit"} => cur \in Hosts
    BY DEF Init, States
  <2>2. paired \in [Hosts -> BOOLEAN]
    BY DEF Init, Hosts
  <2>3. /\ pin \in [0..(PIN_LEN - 1) -> 0..(Digits - 1)]
        /\ pin_pos \in 0..(PIN_LEN - 1)
    <3>1. 0 \in 0..(Digits - 1) /\ 0 \in 0..(PIN_LEN - 1)
      BY MenuAssumption
    <3>2. QED
      BY <3>1 DEF Init
  <2>4. apps \in [0..(MAX_APPS - 1) -> Hosts \cup {Stack, Cleared}]
    BY DEF Init
  <2>5. app_n \in -1..MAX_APPS /\ app_sel \in 0..(MAX_APPS - 1)
    BY MenuAssumption DEF Init
  <2>6. QED
    BY <2>1, <2>2, <2>3, <2>4, <2>5 DEF TypeOK
<1>2. OnlyPairedStreams /\ ListIsOfChosenHost /\ MarkedListed
  BY DEF Init, OnlyPairedStreams, ListIsOfChosenHost, MarkedListed
<1>3. QED
  BY <1>1, <1>2 DEF Inv

LEMMA HostListInv ==
    ASSUME Inv, NEW b \in Buttons, HostList(b) PROVE Inv'
<1>0. cnt \in Nat /\ Hosts = 0..(cnt - 1)
  BY MenuAssumption DEF Inv, TypeOK, Hosts
<1>1. Marked \in Hosts \cup {0} /\ Marked \in Nat /\ (cnt > 0 => Marked \in Hosts)
  BY <1>0 DEF Marked, Inv, TypeOK
<1>2. UNCHANGED <<cnt, paired, pin, pin_pos, apps, app_n, app_sel>>
  BY DEF HostList, pinVars
<1>3. ASSUME NEW i \in Hosts \cup {0}, MarkHost(i) PROVE Inv'
  BY <1>2, <1>3 DEF MarkHost, Inv, TypeOK, Hosts, OnlyPairedStreams, ListIsOfChosenHost, MarkedListed
<1>4. Down(Marked, cnt) \in Hosts \cup {0} /\ Up(Marked, cnt) \in Hosts \cup {0}
  <2>1. /\ Down(Marked, cnt) \in 0..(Modulus(cnt) - 1)
        /\ Up(Marked, cnt) \in 0..(Modulus(cnt) - 1)
    BY <1>0, <1>1, MarkRange
  <2>2. 0..(Modulus(cnt) - 1) \subseteq Hosts \cup {0}
    BY <1>0 DEF Modulus
  <2>3. QED
    BY <2>1, <2>2
<1>5. CASE ChooseHost
  <2>1. cur' = Marked /\ cur' \in Hosts /\ sel' = Marked /\ apps_loaded' = FALSE
    BY <1>1, <1>5 DEF ChooseHost, Go
  <2>2. state' = IF paired[Marked] THEN "apps" ELSE "pair"
    BY <1>5 DEF ChooseHost, Go, ChosenState
  <2>3. TypeOK'
    BY <1>1, <1>2, <2>1, <2>2 DEF Inv, TypeOK, Hosts, States
  <2>4. QED
    BY <1>2, <2>1, <2>2, <2>3 DEF Inv, OnlyPairedStreams, ListIsOfChosenHost, MarkedListed
<1>6. CASE state' = "quit" /\ UNCHANGED <<sel, cur, apps_loaded>>
  BY <1>2, <1>6 DEF Inv, TypeOK, Hosts, States, OnlyPairedStreams, ListIsOfChosenHost, MarkedListed
<1>7. QED
  BY <1>3, <1>4, <1>5, <1>6 DEF HostList

LEMMA StartPinInv == ASSUME Inv, StartPin PROVE Inv'
BY MenuAssumption DEF StartPin, hostVars, appVars, Inv, TypeOK, Hosts, States, OnlyPairedStreams,
   ListIsOfChosenHost, MarkedListed

LEMMA EnterPinInv ==
    ASSUME Inv, NEW b \in Buttons, EnterPin(b) PROVE Inv'
<1>0. /\ UNCHANGED <<cnt, sel, cur, apps, app_n, app_sel>>
      /\ state = "pin" /\ cur \in Hosts
  BY DEF EnterPin, Inv, TypeOK
<1>1. CASE EditPin(b)
  <2>1. PIN_LEN \in Nat \ {0} /\ Digits \in Nat \ {0}
    BY MenuAssumption
  <2>2. pin_pos \in 0..(PIN_LEN - 1) /\ pin \in [0..(PIN_LEN - 1) -> 0..(Digits - 1)]
    BY DEF Inv, TypeOK
  <2>3. /\ (pin[pin_pos] + 1) % Digits \in 0..(Digits - 1)
        /\ (pin[pin_pos] + Digits - 1) % Digits \in 0..(Digits - 1)
    <3>1. pin[pin_pos] + 1 \in Nat /\ pin[pin_pos] + Digits - 1 \in Nat
      <4>1. pin[pin_pos] \in 0..(Digits - 1)
        BY <2>2
      <4>2. QED
        BY <2>1, <4>1
    <3>2. QED
      BY <2>1, <3>1, ModRange
  <2>4. /\ (pin_pos + PIN_LEN - 1) % PIN_LEN \in 0..(PIN_LEN - 1)
        /\ (pin_pos + 1) % PIN_LEN \in 0..(PIN_LEN - 1)
    BY <2>1, <2>2, ModRange
  <2>5. pin' \in [0..(PIN_LEN - 1) -> 0..(Digits - 1)] /\ pin_pos' \in 0..(PIN_LEN - 1)
    BY <1>1, <2>2, <2>3, <2>4 DEF EditPin
  <2>6. UNCHANGED <<state, paired, apps_loaded>>
    BY <1>1 DEF EditPin
  <2>7. TypeOK'
    BY <1>0, <2>5, <2>6 DEF Inv, TypeOK, Hosts
  <2>8. QED
    BY <1>0, <2>6, <2>7 DEF Inv, OnlyPairedStreams, ListIsOfChosenHost, MarkedListed
<1>2. CASE paired' = [paired EXCEPT ![cur] = TRUE] /\ Go("apps") /\ UNCHANGED pinVars
  <2>1. paired' \in [Hosts -> BOOLEAN] /\ paired'[cur]
    BY <1>0, <1>2 DEF Inv, TypeOK
  <2>2. TypeOK'
    BY <1>0, <1>2, <2>1 DEF Go, pinVars, Inv, TypeOK, Hosts, States
  <2>3. QED
    BY <1>0, <1>2, <2>1, <2>2 DEF Go, Inv, OnlyPairedStreams, ListIsOfChosenHost, MarkedListed
<1>3. CASE state' = "hosts" /\ UNCHANGED <<paired, apps_loaded, pinVars>>
  BY <1>0, <1>3 DEF pinVars, Inv, TypeOK, Hosts, States, OnlyPairedStreams, ListIsOfChosenHost,
     MarkedListed
<1>4. QED
  BY <1>1, <1>2, <1>3 DEF EnterPin, Pair

-----------------------------------------------------------------------------
LEMMA Prefix ==
    \A m \in Nat : \A n \in 1..m : \A i \in 0..(n - 1) :
      i \in 0..(m - 1) /\ \A j \in 0..i : j \in 0..(n - 1)
  OBVIOUS

(* What loading a list of n applications does to the array. *)
LEMMA ListedEntries ==
    ASSUME Inv, cur \in Hosts, NEW n \in 0..MAX_APPS, apps' \in Listed(n)
    PROVE  /\ apps' \in [0..(MAX_APPS - 1) -> Hosts \cup {Stack, Cleared}]
           /\ \A i \in 0..(MAX_APPS - 1) : i < n => apps'[i] = cur
           /\ \A i \in 0..(MAX_APPS - 1) : apps[i] # Stack => apps'[i] # Stack
<1>1. PICK c \in BOOLEAN :
        apps' = [i \in 0..(MAX_APPS - 1) |-> IF i < n THEN cur
                                             ELSE IF i = n /\ c THEN Cleared ELSE apps[i]]
  BY DEF Listed
<1>2. cur # Stack /\ Cleared # Stack
  BY DEF Hosts, Stack, Cleared, Inv, TypeOK
<1>3. QED
  BY <1>1, <1>2 DEF Inv, TypeOK

LEMMA AppScreenInv ==
    ASSUME Inv, NEW b \in Buttons, AppScreen(b) PROVE Inv'
<1>0. /\ UNCHANGED <<cnt, paired, sel, cur, pin, pin_pos>>
      /\ state = "apps" /\ cur \in Hosts /\ paired[cur]
      /\ MAX_APPS \in Nat \ {0} /\ app_sel \in 0..(MAX_APPS - 1)
      /\ apps \in [0..(MAX_APPS - 1) -> Hosts \cup {Stack, Cleared}]
      /\ cur # Stack
  BY MenuAssumption DEF AppScreen, hostVars, pinVars, Inv, TypeOK, OnlyPairedStreams, Hosts, Stack
(* The list is there, and what is marked is on it or on an earlier one.    *)
<1>1. /\ app_n' \in 1..MAX_APPS
      /\ apps' \in [0..(MAX_APPS - 1) -> Hosts \cup {Stack, Cleared}]
      /\ \A i \in 0..(app_n' - 1) : apps'[i] = cur
      /\ \A i \in 0..app_sel : apps'[i] # Stack
  <2>1. CASE apps_loaded
    <3>1. UNCHANGED <<apps, app_n>>
      BY <2>1 DEF AppScreen, AppList
    <3>2. app_n \in 1..MAX_APPS /\ \A i \in 0..(app_n - 1) : apps[i] = cur
      BY <1>0, <2>1 DEF Inv, TypeOK, ListIsOfChosenHost
    <3>3. QED
      BY <1>0, <2>1, <3>1, <3>2 DEF Inv, MarkedListed
  <2>2. CASE ~apps_loaded
    <3>1. PICK n \in 1..MAX_APPS : app_n' = n /\ apps' \in Listed(n)
      BY <2>2 DEF AppScreen, AppList
    <3>2. /\ apps' \in [0..(MAX_APPS - 1) -> Hosts \cup {Stack, Cleared}]
          /\ \A i \in 0..(MAX_APPS - 1) : i < n => apps'[i] = cur
          /\ \A i \in 0..(MAX_APPS - 1) : apps[i] # Stack => apps'[i] # Stack
      BY <1>0, <3>1, ListedEntries
    <3>3. \A i \in 0..(app_n' - 1) : apps'[i] = cur
      BY <1>0, <3>1, <3>2
    <3>4. CASE \A i \in 0..app_sel : apps[i] # Stack
      BY <1>0, <3>1, <3>2, <3>3, <3>4
    <3>5. CASE app_sel = 0
      BY <1>0, <3>1, <3>2, <3>3, <3>5
    <3>6. QED
      BY <3>1, <3>2, <3>3, <3>4, <3>5 DEF Inv, MarkedListed
  <2>3. QED
    BY <2>1, <2>2
<1>2. ASSUME NEW i \in 0..(MAX_APPS - 1), app_sel' = i, \A j \in 0..i : apps'[j] # Stack,
             apps_loaded' = TRUE, state' \in {"apps", "stream"}
      PROVE  Inv'
  <2>1. TypeOK'
    BY <1>0, <1>1, <1>2 DEF Inv, TypeOK, Hosts, States
  <2>2. QED
    <3>1. app_n' > 0 /\ app_sel' = i
      BY <1>1, <1>2
    <3>2. OnlyPairedStreams'
      BY <1>0 DEF OnlyPairedStreams
    <3>3. ListIsOfChosenHost'
      BY <1>0, <1>1, <3>1 DEF ListIsOfChosenHost
    <3>4. MarkedListed'
      BY <1>2 DEF MarkedListed
    <3>5. QED
      BY <2>1, <3>2, <3>3, <3>4 DEF Inv
<1>3. ASSUME NEW i, i \in 0..(app_n' - 1), MarkApp(i) PROVE Inv'
  <2>1. i \in 0..(MAX_APPS - 1) /\ \A j \in 0..i : apps'[j] # Stack
    <3>1. i \in 0..(MAX_APPS - 1) /\ \A j \in 0..i : j \in 0..(app_n' - 1)
      BY <1>0, <1>1, <1>3, Prefix
    <3>2. QED
      BY <1>0, <1>1, <3>1
  <2>2. QED
    BY <1>0, <1>2, <1>3, <2>1 DEF MarkApp
<1>4. Down(app_sel, app_n') \in 0..(app_n' - 1) /\ Up(app_sel, app_n') \in 0..(app_n' - 1)
  <2>1. app_n' \in Nat /\ app_sel \in Nat /\ Modulus(app_n') = app_n'
    BY <1>0, <1>1 DEF Modulus
  <2>2. QED
    BY <2>1, MarkRange
<1>5. CASE Launch
  BY <1>0, <1>1, <1>2, <1>5 DEF Launch
<1>6. CASE MarkApp(app_sel)
  BY <1>0, <1>1, <1>2, <1>6 DEF MarkApp
<1>7. CASE Go("hosts") /\ UNCHANGED app_sel
  <2>1. TypeOK'
    <3>1. state' = "hosts" /\ apps_loaded' = FALSE /\ app_sel' = app_sel
      BY <1>7 DEF Go
    <3>2. app_n' \in -1..MAX_APPS
      BY <1>0, <1>1
    <3>3. QED
      BY <1>0, <1>1, <3>1, <3>2 DEF Inv, TypeOK, Hosts, States
  <2>2. QED
    BY <1>1, <1>7, <2>1 DEF Go, Inv, OnlyPairedStreams, ListIsOfChosenHost, MarkedListed
<1>8. QED
  BY <1>3, <1>4, <1>5, <1>6, <1>7 DEF AppScreen

LEMMA NoAppListInv == ASSUME Inv, NoAppList PROVE Inv'
<1>0. /\ UNCHANGED <<cnt, paired, sel, cur, pin, pin_pos, app_sel>>
      /\ state' = "hosts" /\ apps_loaded' = FALSE /\ cur \in Hosts /\ ~apps_loaded
      /\ MAX_APPS \in Nat \ {0} /\ app_sel \in 0..(MAX_APPS - 1)
  BY MenuAssumption DEF NoAppList, Go, hostVars, pinVars, Inv, TypeOK
<1>1. /\ app_n' \in -1..MAX_APPS
      /\ apps' \in [0..(MAX_APPS - 1) -> Hosts \cup {Stack, Cleared}]
      /\ \A i \in 0..(MAX_APPS - 1) : apps[i] # Stack => apps'[i] # Stack
  <2>1. CASE app_n' = -1 /\ UNCHANGED apps
    BY <1>0, <2>1 DEF Inv, TypeOK
  <2>2. CASE app_n' = 0 /\ apps' \in Listed(0)
    BY <1>0, <2>2, ListedEntries
  <2>3. QED
    BY <2>1, <2>2 DEF NoAppList
<1>2. TypeOK'
  BY <1>0, <1>1 DEF Inv, TypeOK, Hosts, States
<1>3. MarkedListed'
  BY <1>0, <1>1 DEF Inv, MarkedListed
<1>4. QED
  BY <1>0, <1>2, <1>3 DEF Inv, OnlyPairedStreams, ListIsOfChosenHost

LEMMA StreamInv == ASSUME Inv, Stream PROVE Inv'
<1>1. /\ UNCHANGED <<cnt, paired, sel, cur, pin, pin_pos, apps, app_n, app_sel>>
      /\ state' = "hosts" /\ apps_loaded' = FALSE
  BY DEF Stream, Go, hostVars, pinVars
<1>2. TypeOK'
  BY <1>1 DEF Inv, TypeOK, Hosts, States
<1>3. MarkedListed'
  BY <1>1 DEF Inv, MarkedListed, Stream
<1>4. QED
  BY <1>1, <1>2, <1>3 DEF Inv, OnlyPairedStreams, ListIsOfChosenHost

LEMMA StutterInv == ASSUME Inv, UNCHANGED vars PROVE Inv'
<1>1. /\ UNCHANGED <<state, cnt, paired, sel, cur, pin, pin_pos>>
      /\ UNCHANGED <<apps, app_n, app_sel, apps_loaded>>
  BY DEF vars, hostVars, pinVars, appVars
<1>2. QED
  BY <1>1 DEF Inv, TypeOK, Hosts, OnlyPairedStreams, ListIsOfChosenHost, MarkedListed

LEMMA InvNext == Inv /\ [Next]_vars => Inv'
BY HostListInv, StartPinInv, EnterPinInv, AppScreenInv, NoAppListInv, StreamInv, StutterInv DEF Next

LEMMA InvAllows == Inv => TypeOK /\ OnlyPairedStreams /\ ListIsOfChosenHost /\ NothingFromTheStack
<1>1. ASSUME Inv, apps_loaded PROVE apps[app_sel] # Stack
  <2>1. app_sel \in 0..app_sel
    BY <1>1, MenuAssumption DEF Inv, TypeOK
  <2>2. QED
    BY <1>1, <2>1 DEF Inv, MarkedListed
<1>2. QED
  BY <1>1 DEF Inv, NothingFromTheStack

(* The type invariant; no index leaves its array. *)
THEOREM TypeCorrect == Spec => []TypeOK
BY InvInit, InvNext, InvAllows, PTL DEF Spec

(* Only a paired host's applications are listed and streamed. *)
THEOREM OnlyPairedStreamsCorrect == Spec => []OnlyPairedStreams
BY InvInit, InvNext, InvAllows, PTL DEF Spec

(* The cached list is that of the host chosen. *)
THEOREM ListIsOfChosenHostCorrect == Spec => []ListIsOfChosenHost
BY InvInit, InvNext, InvAllows, PTL DEF Spec

(* Nothing is launched from an entry that was never written. *)
THEOREM NothingFromTheStackCorrect == Spec => []NothingFromTheStack
BY InvInit, InvNext, InvAllows, PTL DEF Spec

-----------------------------------------------------------------------------
(* Requests.  A turn that waits for a host on its way changes nothing the  *)
(* menu knows before the last answer is there: every step is one of Menu   *)
(* or leaves its variables alone.                                          *)
LEMMA TurnIsMenus ==
    ASSUME RequestsNext PROVE [Next]_vars
<1>1. CASE MenuTurn
  BY <1>1 DEF MenuTurn, Next
<1>2. CASE Ask
  BY <1>2 DEF Ask
<1>3. CASE NoIdentity
  <2>1. "cross" \in Buttons
    BY DEF Buttons
  <2>2. QED
    BY <1>3, <2>1 DEF NoIdentity, Next
<1>4. CASE Perform \/ Receive \/ HostCloses
  BY <1>4 DEF Perform, Receive, HostCloses
<1>5. CASE Returns
  <2>1. "cross" \in Buttons
    BY DEF Buttons
  <2>2. CASE PairGoesOn
    BY <2>1, <2>2 DEF PairGoesOn, Next
  <2>3. CASE ListReturns
    BY <2>3 DEF ListReturns, Next
  <2>4. CASE LaunchReturns
    BY <2>1, <2>4 DEF LaunchReturns, Next
  <2>5. CASE FreesUnwritten
    BY <2>1, <2>5 DEF FreesUnwritten, Next
  <2>6. QED
    BY <1>5, <2>2, <2>3, <2>4, <2>5 DEF Returns
<1>6. QED
  BY <1>1, <1>2, <1>3, <1>4, <1>5 DEF RequestsNext

(* The menu's properties hold however the requests in its turns go.        *)
THEOREM RequestsKeepMenu ==
    RequestsSpec => [](TypeOK /\ OnlyPairedStreams /\ ListIsOfChosenHost /\ NothingFromTheStack)
<1>1. RequestsInit => Inv
  BY InvInit DEF RequestsInit
<1>2. Inv /\ [RequestsNext]_allVars => Inv'
  <2>1. [RequestsNext]_allVars => [Next]_vars
    BY TurnIsMenus DEF allVars
  <2>2. QED
    BY <2>1, InvNext
<1>3. Inv => TypeOK /\ OnlyPairedStreams /\ ListIsOfChosenHost /\ NothingFromTheStack
  BY InvAllows
<1>4. QED
  BY <1>1, <1>2, <1>3, PTL DEF RequestsSpec

(* What perform holds at each of its places; between requests it is idle.  *)
HeldAt ==
    /\ call \in {"none", "turn"} => at = "idle"
    /\ at \in {"idle", "connect", "handshake", "send", "recv", "done", "failed", "crashed"}
    /\ at \in {"idle", "connect", "failed"} => held = {}
    /\ at = "handshake" => held = {"socket"}
    /\ at = "send" => held \subseteq {"socket", "tls", "identity"}
    /\ at = "recv" => held \subseteq {"socket", "tls", "identity", "buf"}
    /\ at = "done" => held = {"body"}
    /\ leaked \subseteq {"tls", "identity"}

(* The answer and its buffer, which takes a whole read once it is there.   *)
BufferHolds ==
    /\ used \in Nat /\ cap \in Nat
    /\ used <= cap
    /\ at = "recv" => ReadLen <= cap

LEMMA HeldAtNext == HeldAt /\ [RequestsNext]_allVars => HeldAt'
<1> SUFFICES ASSUME HeldAt, [RequestsNext]_allVars PROVE HeldAt'
  OBVIOUS
<1> USE DEF HeldAt, Fail
<1>1. CASE MenuTurn \/ NoIdentity \/ UNCHANGED allVars
  BY <1>1 DEF MenuTurn, NoIdentity, allVars, reqVars
<1>2. CASE Ask
  BY <1>2 DEF Ask, Request
<1>3. CASE Perform
  <2>0. UNCHANGED call
    BY <1>3 DEF Perform
  <2>1. CASE Connect
    BY <2>0, <2>1 DEF Connect
  <2>2. CASE Handshake
    BY <2>0, <2>2 DEF Handshake, ClosedThen
  <2>3. CASE Send
    BY <2>0, <2>3 DEF Send
  <2>4. QED
    BY <1>3, <2>1, <2>2, <2>3 DEF Perform
<1>4. CASE Receive \/ HostCloses
  BY <1>4 DEF Receive, HostCloses, Recv, RecvEnds, OutOfMemory
<1>5. CASE Returns
  <2>1. Returned /\ Freed
    BY <1>5 DEF Returns, PairGoesOn, ListReturns, LaunchReturns, FreesUnwritten, Returned
  <2>2. held' = {} /\ leaked' = leaked
    BY <2>1 DEF Returned, Freed
  <2>3. \/ at' = "idle"
        \/ at' \in {"connect", "crashed"} /\ call' \in {"pair", "applist", "launch"}
    BY <1>5 DEF Returns, PairGoesOn, ListReturns, LaunchReturns, FreesUnwritten, Return, Request
  <2>4. QED
    BY <2>2, <2>3
<1>6. QED
  BY <1>1, <1>2, <1>3, <1>4, <1>5 DEF RequestsNext

LEMMA BufferHoldsNext == BufferHolds /\ [RequestsNext]_allVars => BufferHolds'
<1> SUFFICES ASSUME BufferHolds, [RequestsNext]_allVars PROVE BufferHolds'
  OBVIOUS
<1>0. ReadLen \in Nat /\ FirstCap \in Nat /\ ReadLen <= FirstCap
  BY RequestsAssumption
<1>1. CASE MenuTurn \/ NoIdentity \/ UNCHANGED allVars
  BY <1>1 DEF MenuTurn, NoIdentity, allVars, reqVars, BufferHolds
<1>2. CASE Ask
  BY <1>2 DEF Ask, Request, BufferHolds
<1>3. CASE Perform
  BY <1>0, <1>3 DEF Perform, Connect, Handshake, Send, Fail, BufferHolds
<1>4. CASE Receive \/ HostCloses
  <2>1. CASE Recv
    BY <1>0, <2>1 DEF Recv, Grown, BufferHolds
  <2>2. ASSUME NEW n \in {-1, 0}, RecvEnds(n) PROVE BufferHolds'
    BY <1>0, <2>2 DEF RecvEnds, Grown, BufferHolds
  <2>3. CASE OutOfMemory
    BY <2>3 DEF OutOfMemory, BufferHolds
  <2>4. QED
    BY <1>4, <2>1, <2>2, <2>3 DEF Receive, HostCloses
<1>5. CASE Returns
  BY <1>5 DEF Returns, PairGoesOn, ListReturns, LaunchReturns, FreesUnwritten,
              Return, Freed, Request, BufferHolds
<1>6. QED
  BY <1>1, <1>2, <1>3, <1>4, <1>5 DEF RequestsNext

(* Every way out of perform closes its socket and frees its memory, but    *)
(* for TLS, and the buffer takes whatever the host answers, for every size *)
(* of buffer and read of which the one holds the other.                    *)
THEOREM NothingButTLSLeaksCorrect == RequestsSpec => []NothingButTLSLeaks
<1>1. RequestsInit => HeldAt /\ BufferHolds
  BY DEF RequestsInit, HeldAt, BufferHolds
<1>2. HeldAt /\ BufferHolds => NothingButTLSLeaks
  BY DEF HeldAt, BufferHolds, NothingButTLSLeaks
<1>3. QED
  BY <1>1, <1>2, HeldAtNext, BufferHoldsNext, PTL DEF RequestsSpec
=============================================================================
