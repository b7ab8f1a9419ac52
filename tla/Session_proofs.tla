--------------------------- MODULE Session_proofs ---------------------------
(***************************************************************************)
(* Proofs about Session and Streaming for every number of sessions, every  *)
(* size of the header buffer, whatever fails and however late the host     *)
(* answers.  What carries them: of the requests of a session at most the   *)
(* last is unanswered, and as much as one "200" is on its way only if that *)
(* one was granted.                                                        *)
(***************************************************************************)
EXTENDS Streaming, SequenceTheorems, TLAPS

(* The control state, and what it implies of the simplest kind. *)
Places ==
    /\ TypeOK
    /\ pc # "idle" => starts > 0
    /\ pc = "headers" => Len(hdr) < HdrCap
    /\ pc = "trailing" => Len(hdr) <= HdrCap /\ BlankLine(hdr)
    /\ pc \in {"headers", "trailing", "reply"} /\ req = DESCRIBE => sdp = <<>>
    /\ pc = "body" => req = DESCRIBE
    /\ pc \in {"udp", "streaming"} => req = PLAY

(* The sockets open while udp_open has not failed; the ports bound. *)
Udps  == { Udp(i) : i \in 1..3 }
Ports ==
    /\ \A n \in 1..MaxSessions : <<"rtsp", n>> \in socks => pc # "idle" /\ n = starts
    /\ \A s \in bound : \E i \in 1..3 : s[1] = Chan[i]
    /\ ~udpFailed => socks \subseteq (IF pc = "idle" THEN {} ELSE {Rtsp})
                                     \cup (IF pc = "streaming" THEN Udps ELSE {})
    /\ pc = "streaming" => \A s \in bound : s[2] = starts

(* A request of the n-th session in s; there is at most one, for r. *)
Pending(s, i, n) == s[i].conn = n /\ s[i].req # TEARDOWN
NoMail(s, n) == \A i \in 1..Len(s) : ~Pending(s, i, n)
Mail(s, n, r) ==
    /\ s \in Seq(Message)
    /\ \A i \in 1..Len(s) : s[i].conn <= n
    /\ \A i \in 1..Len(s) : Pending(s, i, n) => s[i].req = r
    /\ \A i, j \in 1..Len(s) : Pending(s, i, n) /\ Pending(s, j, n) => i = j

(* At most one of the items of s and t is a "200". *)
AtMostOnce(s, t) ==
    /\ \A i, j \in 1..Len(s) : s[i] = "200" /\ s[j] = "200" => i = j
    /\ \A i, j \in 1..Len(t) : t[i] = "200" /\ t[j] = "200" => i = j
    /\ ~(Has(s, "200") /\ Has(t, "200"))

Awaiting == {"headers", "trailing", "reply"}

(* What is granted, what is not yet answered and what is on its way back.  *)
Answers ==
    /\ Mail(inbox, starts, req)
    /\ pc = "idle" => wire = <<>>
    /\ pc # "idle" => DESCRIBE..(req - 1) \subseteq granted /\ granted \subseteq DESCRIBE..req
    /\ pc # "idle" /\ ~NoMail(inbox, starts) =>
           req \notin granted /\ pc \in Awaiting \cup {"crashed"}
    /\ pc \in Awaiting =>
           /\ AtMostOnce(hdr, wire)
           /\ req \notin granted => ~Has(hdr, "200") /\ ~Has(wire, "200")
    /\ pc \in {"body", "udp", "streaming"} => req \in granted /\ ~Has(wire, "200")

Inv == Places /\ BuffersKept /\ Ports /\ Answers

-----------------------------------------------------------------------------
(* The mail. *)
LEMMA MailTail ==
    ASSUME NEW s, NEW n, NEW r, Mail(s, n, r), s # <<>>
    PROVE  /\ Mail(Tail(s), n, r)
           /\ Pending(s, 1, n) => NoMail(Tail(s), n)
           /\ NoMail(s, n) => NoMail(Tail(s), n)
<1>1. s \in Seq(Message) /\ Len(s) \in Nat \ {0}
  BY DEF Mail
<1> DEFINE t == Tail(s)
<1>2. /\ t \in Seq(Message) /\ Len(t) = Len(s) - 1
      /\ \A i \in 1..Len(t) : i + 1 \in 1..Len(s) /\ t[i] = s[i + 1]
  BY <1>1
<1> HIDE DEF t
<1>3. \A i \in 1..Len(t) : Pending(t, i, n) => Pending(s, i + 1, n)
  BY <1>2 DEF Pending
<1>4. /\ \A i \in 1..Len(t) : t[i].conn <= n
      /\ \A i \in 1..Len(t) : Pending(t, i, n) => t[i].req = r
  BY <1>2, <1>3 DEF Mail
<1>5. ASSUME NEW i \in 1..Len(t), NEW j \in 1..Len(t), Pending(t, i, n), Pending(t, j, n)
      PROVE  i = j
  <2>1. i + 1 = j + 1
    BY <1>2, <1>3, <1>5 DEF Mail
  <2>2. QED
    BY <1>1, <1>2, <2>1
<1>6. ASSUME Pending(s, 1, n), NEW i \in 1..Len(t) PROVE ~Pending(t, i, n)
  <2>1. 1 \in 1..Len(s) /\ i + 1 # 1
    BY <1>1, <1>2
  <2>2. QED
    BY <1>2, <1>3, <1>6, <2>1 DEF Mail
<1>7. QED
  BY <1>2, <1>3, <1>4, <1>5, <1>6 DEF Mail, NoMail, t

LEMMA MailAppend ==
    ASSUME NEW s, NEW n \in Nat, NEW q, NEW r, Mail(s, n, q), NEW m \in Message, m.conn = n,
           \/ m.req = r /\ NoMail(s, n)
           \/ m.req = TEARDOWN /\ q = r
    PROVE  Mail(Append(s, m), n, r)
<1>1. s \in Seq(Message) /\ Len(s) \in Nat
  BY DEF Mail
<1> DEFINE t == Append(s, m)
<1>2. /\ t \in Seq(Message) /\ Len(t) = Len(s) + 1
      /\ \A i \in 1..Len(t) : t[i] = IF i <= Len(s) THEN s[i] ELSE m
  BY <1>1
<1> HIDE DEF t
<1>3. \A i \in 1..Len(t) : Pending(t, i, n) =>
         \/ i \in 1..Len(s) /\ t[i] = s[i] /\ Pending(s, i, n)
         \/ i = Len(t) /\ t[i] = m /\ m.req # TEARDOWN
  BY <1>1, <1>2 DEF Pending
<1>4. \A i \in 1..Len(t) : t[i].conn <= n
  <2>1. \A i \in 1..Len(t) : (i \in 1..Len(s) /\ t[i] = s[i]) \/ t[i] = m
    BY <1>1, <1>2
  <2>2. QED
    BY <2>1 DEF Mail
<1>5. \A i \in 1..Len(t) : Pending(t, i, n) => t[i].req = r
  BY <1>3 DEF Mail, NoMail
<1>6. \A i, j \in 1..Len(t) : Pending(t, i, n) /\ Pending(t, j, n) => i = j
  BY <1>3 DEF Mail, NoMail
<1>7. QED
  BY <1>2, <1>4, <1>5, <1>6 DEF Mail, t

LEMMA MailOld ==
    ASSUME NEW s, NEW n \in Nat, NEW q, NEW r, Mail(s, n, q)
    PROVE  Mail(s, n + 1, r) /\ NoMail(s, n + 1)
<1>1. \A i \in 1..Len(s) : s[i].conn \in Nat /\ s[i].conn <= n
  <2>1. \A m \in Message : m.conn \in Nat
    BY SessionAssumption DEF Message
  <2>2. \A i \in 1..Len(s) : s[i] \in Message
    BY DEF Mail
  <2>3. QED
    BY <2>1, <2>2 DEF Mail
<1>2. \A i \in 1..Len(s) : s[i].conn <= n + 1 /\ ~Pending(s, i, n + 1)
  BY <1>1 DEF Pending
<1>3. QED
  BY <1>2 DEF Mail, NoMail

-----------------------------------------------------------------------------
(* The bytes of an answer: a "200" is nowhere but in its status line.      *)
Plain(s) == s \in Seq(Items) /\ ~Has(s, "200")

LEMMA PlainJoin ==
    ASSUME NEW s, NEW t, Plain(s), Plain(t)
    PROVE  Plain(s \o t)
<1> DEFINE u == s \o t
<1>1. s \in Seq(Items) /\ t \in Seq(Items)
  BY DEF Plain
<1>2. /\ u \in Seq(Items) /\ Len(u) = Len(s) + Len(t)
      /\ Len(s) \in Nat /\ Len(t) \in Nat
      /\ \A i \in 1..Len(u) : u[i] = IF i <= Len(s) THEN s[i] ELSE t[i - Len(s)]
  BY <1>1, ConcatProperties
<1> HIDE DEF u
<1>3. ASSUME NEW i \in 1..Len(u), u[i] = "200"
      PROVE  Has(s, "200") \/ Has(t, "200")
  <2>1. CASE i <= Len(s)
    <3>1. i \in 1..Len(s) /\ s[i] = "200"
      BY <1>2, <1>3, <2>1
    <3>2. QED
      BY <3>1 DEF Has
  <2>2. CASE i > Len(s)
    <3>1. i - Len(s) \in 1..Len(t) /\ t[i - Len(s)] = "200"
      BY <1>2, <1>3, <2>2
    <3>2. QED
      BY <3>1 DEF Has
  <2>3. QED
    BY <1>2, <2>1, <2>2
<1>4. ~Has(u, "200")
  BY <1>3 DEF Has, Plain
<1>5. QED
  BY <1>2, <1>4 DEF Plain, u

LEMMA PlainEnd ==
    ASSUME NEW e \in LineEnds
    PROVE  Plain(e)
<1>1. e \in Seq({CR, LF})
  BY SessionAssumption
<1>2. e \in Seq(Items)
  BY <1>1 DEF Items, Words
<1>3. \A i \in 1..Len(e) : e[i] \in {CR, LF}
  BY <1>1
<1>4. QED
  BY <1>2, <1>3 DEF Plain, Has, CR, LF

LEMMA PlainTimes ==
    ASSUME NEW n \in Nat, NEW item \in Items \ {"200"}
    PROVE  Plain(Times(n, item))
  BY DEF Plain, Times, Has

LEMMA PlainItem ==
    ASSUME NEW item \in Items \ {"200"}
    PROVE  Plain(<<item>>)
  BY DEF Plain, Has

LEMMA PlainRefusal ==
    ASSUME NEW a \in Refusals
    PROVE  Plain(a)
<1>1. PICK e \in LineEnds : a = <<"refused">> \o e \o e
  BY DEF Refusals
<1>2. Plain(<<"refused">>) /\ Plain(e)
  BY PlainItem, PlainEnd DEF Items, Words, CR, LF
<1>3. Plain(<<"refused">> \o e)
  BY <1>2, PlainJoin
<1>4. QED
  BY <1>1, <1>2, <1>3, PlainJoin

LEMMA PlainFurther ==
    ASSUME NEW r, NEW e \in LineEnds, NEW t \in Further(r, e)
    PROVE  Plain(t)
<1>1. Plain(e)
  BY PlainEnd
<1>2. ASSUME NEW n \in 0..MaxPad, NEW length \in DOMAIN Declared, NEW m \in 0..MaxSdp
      PROVE  Plain(Lengthy(e, n, length, m))
  <2>1. Plain(Times(n, "other")) /\ Plain(Times(m, "sdp"))
    BY PlainTimes, SessionAssumption DEF Items, Words, CR, LF
  <2>2. Plain(<<length>>)
    BY PlainItem, SessionAssumption DEF Items, Words
  <2>3. Plain(Times(n, "other") \o <<length>>)
    BY <2>1, <2>2, PlainJoin
  <2>4. Plain(Times(n, "other") \o <<length>> \o e)
    BY <1>1, <2>3, PlainJoin
  <2>5. Plain(Times(n, "other") \o <<length>> \o e \o e)
    BY <1>1, <2>4, PlainJoin
  <2>6. QED
    BY <2>1, <2>5, PlainJoin DEF Lengthy
<1>3. Plain(<<"Session:">> \o e \o e)
  <2>1. Plain(<<"Session:">>)
    BY PlainItem DEF Items, Words, CR, LF
  <2>2. Plain(<<"Session:">> \o e)
    BY <1>1, <2>1, PlainJoin
  <2>3. QED
    BY <1>1, <2>2, PlainJoin
<1>4. CASE r = DESCRIBE
  <2>1. t = e \/ \E n \in 0..MaxPad, length \in DOMAIN Declared, m \in 0..MaxSdp :
                     t = Lengthy(e, n, length, m)
    BY <1>4 DEF Further
  <2>2. QED
    BY <1>1, <1>2, <2>1
<1>5. CASE r # DESCRIBE
  <2>1. t = e \/ t = <<"Session:">> \o e \o e
    BY <1>5 DEF Further
  <2>2. QED
    BY <1>1, <1>3, <2>1
<1>6. QED
  BY <1>4, <1>5

(* An answer that grants has its "200" in front. *)
LEMMA Granting ==
    ASSUME NEW r, NEW a \in Grants(r)
    PROVE  /\ a \in Seq(Items)
           /\ \A i \in 1..Len(a) : a[i] = "200" => i = 1
<1>1. PICK e \in LineEnds : \E t \in Further(r, e) : a = <<"200">> \o e \o t
  BY DEF Grants
<1>2. PICK t \in Further(r, e) : a = <<"200">> \o e \o t
  BY <1>1
<1> DEFINE h == <<"200">>
           u == e \o t
<1>3. Plain(e) /\ Plain(t)
  BY PlainEnd, PlainFurther
<1>4. e \in Seq(Items) /\ t \in Seq(Items) /\ h \in Seq(Items)
  BY <1>3 DEF Plain, Items, Words
<1>5. Plain(u)
  BY <1>3, PlainJoin
<1>6. a = h \o u
  BY <1>2, <1>4, ConcatAssociative
<1>7. u \in Seq(Items) /\ \A i \in 1..Len(u) : u[i] # "200"
  BY <1>5 DEF Plain, Has
<1>8. Len(h) = 1
  OBVIOUS
<1> HIDE DEF u, h
<1>9. /\ a \in Seq(Items) /\ Len(a) = 1 + Len(u) /\ Len(u) \in Nat
      /\ \A i \in 1..Len(a) : i > 1 => a[i] = u[i - 1]
  <2>1. /\ h \o u \in Seq(Items) /\ Len(h \o u) = Len(h) + Len(u)
        /\ \A i \in 1..(Len(h) + Len(u)) :
               (h \o u)[i] = IF i <= Len(h) THEN h[i] ELSE u[i - Len(h)]
    BY <1>4, <1>7, ConcatProperties, Zenon
  <2>2. Len(u) \in Nat
    BY <1>7
  <2>3. QED
    BY <1>6, <1>8, <2>1, <2>2
<1>10. \A i \in 1..Len(a) : i > 1 => i - 1 \in 1..Len(u)
  BY <1>9
<1>11. \A i \in 1..Len(a) : a[i] = "200" => i = 1
  BY <1>7, <1>9, <1>10
<1>12. QED
  BY <1>9, <1>11

-----------------------------------------------------------------------------
(* The two ways on for session_start: the next request, or the end.  *)
LEMMA Typed ==
    ASSUME Inv
    PROVE  /\ starts \in 0..MaxSessions /\ MaxSessions \in Nat
           /\ req \in 1..5
           /\ pc # "idle" => starts \in 1..MaxSessions
  BY SessionAssumption DEF Inv, Places, TypeOK, DESCRIBE, PLAY

(* The buffers, where nothing is read into them. *)
LEMMA BuffersStay ==
    ASSUME Inv, hdr' = hdr \/ hdr' = <<>>,
           pc' # "body" \/ (pc = "body" /\ hdr' = hdr /\ sdp' = sdp) \/ sdp' = <<>>
    PROVE  BuffersKept'
<1>1. HdrCap \in Nat /\ SdpCap \in Nat
  BY SessionAssumption
<1>2. Len(hdr') > HdrCap => BlankLine(SubSeq(hdr', 1, HdrCap))
  <2>1. CASE hdr' = hdr
    BY <2>1 DEF Inv, BuffersKept
  <2>2. CASE hdr' = <<>>
    BY <1>1, <2>2
  <2>3. QED
    BY <2>1, <2>2
<1>3. pc' = "body" /\ Len(sdp') > SdpCap => \E length \in ContentLength' : Len(sdp') <= length
  <2>1. CASE pc' # "body"
    BY <2>1
  <2>2. CASE pc = "body" /\ hdr' = hdr /\ sdp' = sdp
    BY <2>2 DEF Inv, BuffersKept, ContentLength, LengthLines
  <2>3. CASE sdp' = <<>>
    BY <1>1, <2>3
  <2>4. QED
    BY <2>1, <2>2, <2>3
<1>4. QED
  BY <1>2, <1>3 DEF BuffersKept

LEMMA InitInv ==
    ASSUME Init
    PROVE  Inv
<1> USE DEF Init
<1>1. Places
  <2>1. /\ hdr \in Seq(Items) /\ sdp \in Seq(Items) /\ wire \in Seq(Items)
        /\ inbox \in Seq(Message) /\ Len(hdr) = 0
    OBVIOUS
  <2>2. 0 \in 0..MaxSessions /\ 0 < HdrCap /\ HdrCap \in Nat
    BY SessionAssumption
  <2>3. /\ pc = "idle" /\ starts = 0 /\ req \in DESCRIBE..PLAY
        /\ session \in 0..MaxSessions /\ starts \in 0..MaxSessions /\ Len(hdr) <= HdrCap + 1
    BY <2>1, <2>2 DEF DESCRIBE, PLAY, NoId
  <2>4. /\ socks \subseteq Sockets /\ bound \subseteq socks /\ granted \subseteq DESCRIBE..PLAY
        /\ playing \subseteq 1..MaxSessions
        /\ width \in BOOLEAN /\ udpFailed \in BOOLEAN /\ unsent \in BOOLEAN
    OBVIOUS
  <2>5. QED
    BY <2>1, <2>3, <2>4 DEF Places, TypeOK
<1>2. BuffersKept /\ Ports
  BY SessionAssumption DEF BuffersKept, Ports
<1>3. Answers
  BY DEF Answers, Mail, Awaiting
<1>4. QED
  BY <1>1, <1>2, <1>3 DEF Inv

LEMMA GoesOn ==
    ASSUME Inv, pc \in {"reply", "body"}, req # PLAY, req \in granted, ~Has(wire, "200"),
           Send(req + 1), session' \in 0..MaxSessions, width' \in BOOLEAN,
           UNCHANGED <<sdp, socks, bound, udpFailed, starts, wire, granted, playing, unsent>>
    PROVE  Inv'
<1>1. /\ starts \in 1..MaxSessions /\ MaxSessions \in Nat
      /\ req \in 1..4 /\ req + 1 \in 1..5
  BY Typed DEF PLAY
<1>2. /\ inbox' = Append(inbox, [req |-> req + 1, id |-> session', conn |-> starts])
      /\ pc' = "headers" /\ req' = req + 1 /\ hdr' = <<>>
  BY DEF Send
<1>3. Mail(inbox, starts, req) /\ NoMail(inbox, starts)
  BY DEF Inv, Answers
<1>4. PICK m \in Message : m.req = req + 1 /\ m.conn = starts /\ inbox' = Append(inbox, m)
  BY <1>1, <1>2 DEF Message
<1>5. Mail(inbox', starts', req')
  BY <1>1, <1>2, <1>3, <1>4, MailAppend
<1>6. Places'
  <2>1. inbox' \in Seq(Message)
    BY <1>5 DEF Mail
  <2>2. QED
    BY <1>1, <1>2, <2>1, SessionAssumption DEF Inv, Places, TypeOK, DESCRIBE, PLAY
<1>7. BuffersKept'
  BY <1>2, BuffersStay
<1>8. Ports'
  BY <1>2 DEF Inv, Ports, Rtsp, Udps, Udp
<1>9. Answers'
  <2>1. (DESCRIBE..(req - 1) \subseteq granted /\ granted \subseteq DESCRIBE..req)
    BY DEF Inv, Answers
  <2>2. DESCRIBE..(req' - 1) \subseteq granted' /\ granted' \subseteq DESCRIBE..req' /\ req' \notin granted'
    BY <1>1, <1>2, <2>1 DEF DESCRIBE
  <2>3. AtMostOnce(hdr, wire)' /\ ~Has(hdr, "200")' /\ ~Has(wire, "200")'
    BY <1>2 DEF AtMostOnce, Has
  <2>4. QED
    BY <1>2, <1>5, <2>2, <2>3 DEF Answers, Awaiting
<1>10. QED
  BY <1>6, <1>7, <1>8, <1>9 DEF Inv

(* Only the RTSP socket of this session is open, if any, and no port is    *)
(* bound by it.                                                            *)
LEMMA GivesUp ==
    ASSUME Inv, pc # "idle", NEW left, Teardown(left), left \subseteq Sockets,
           \A n \in 1..MaxSessions : <<"rtsp", n>> \in left => n = starts,
           bound' \subseteq left, \A s \in bound' : \E i \in 1..3 : s[1] = Chan[i],
           udpFailed' \in BOOLEAN, ~udpFailed' => left \subseteq {Rtsp},
           session' \in 0..MaxSessions, width' \in BOOLEAN,
           UNCHANGED <<sdp, starts, granted, playing>>
    PROVE  Inv'
<1>1. /\ starts \in 1..MaxSessions /\ MaxSessions \in Nat
      /\ req \in 1..5
  BY Typed
<1>2. /\ socks' = left \ {Rtsp} /\ pc' = "idle" /\ wire' = <<>>
      /\ req' = req /\ hdr' = hdr
  BY DEF Teardown
<1>3. Mail(inbox, starts, req)
  BY DEF Inv, Answers
<1>4. Mail(inbox', starts', req')
  <2>1. CASE inbox' = inbox
    BY <1>2, <1>3, <2>1
  <2>2. CASE inbox' = Append(inbox, [req |-> TEARDOWN, id |-> session', conn |-> starts])
    <3>1. PICK m \in Message : m.req = TEARDOWN /\ m.conn = starts /\ inbox' = Append(inbox, m)
      BY <1>1, <2>2 DEF Message, TEARDOWN
    <3>2. Mail(Append(inbox, m), starts, req)
      <4>1. starts \in Nat
        BY <1>1
      <4>2. QED
        BY <1>3, <3>1, <4>1, MailAppend, Zenon
    <3>3. QED
      BY <1>2, <3>1, <3>2
  <2>3. QED
    BY <2>1, <2>2 DEF Teardown, TeardownId
<1>5. unsent' \in BOOLEAN
  BY DEF Teardown, Inv, Places, TypeOK
<1>6. \A s \in bound' : s # Rtsp
  BY DEF Rtsp, Chan
<1>7. Places'
  <2>1. inbox' \in Seq(Message)
    BY <1>4 DEF Mail
  <2>2. /\ pc' = "idle"
        /\ socks' \subseteq Sockets /\ bound' \subseteq socks' /\ wire' \in Seq(Items)
    BY <1>2, <1>6
  <2>3. QED
    BY <1>1, <1>2, <1>5, <2>1, <2>2, SessionAssumption DEF Inv, Places, TypeOK
<1>8. BuffersKept'
  BY <1>2, BuffersStay
<1>9. Ports'
  <2>1. \A n \in 1..MaxSessions : <<"rtsp", n>> \notin socks'
    BY <1>2 DEF Rtsp
  <2>2. ~udpFailed' => socks' = {}
    BY <1>2
  <2>3. QED
    BY <1>2, <2>1, <2>2 DEF Ports
<1>10. Answers'
  BY <1>2, <1>4 DEF Answers, Awaiting
<1>11. QED
  BY <1>7, <1>8, <1>9, <1>10 DEF Inv

-----------------------------------------------------------------------------
(* Beginning a session. *)
LEMMA StartKeeps ==
    ASSUME Inv, Start
    PROVE  Inv'
<1>1. /\ pc = "idle" /\ starts \in 0..MaxSessions /\ MaxSessions \in Nat
      /\ starts' = starts + 1 /\ starts' \in 1..MaxSessions
  BY Typed DEF Start
<1>2. /\ pc' = "headers" /\ req' = DESCRIBE /\ hdr' = <<>> /\ session' = NoId
      /\ granted' = {} /\ socks' = socks \cup {<<"rtsp", starts'>>}
      /\ inbox' = Append(inbox, [req |-> DESCRIBE, id |-> session', conn |-> starts'])
      /\ UNCHANGED <<bound, udpFailed, wire, playing, unsent>>
  BY DEF Start, Send
<1>3. Mail(inbox, starts, req) /\ wire = <<>>
  BY <1>1 DEF Inv, Answers
<1>4. Mail(inbox, starts + 1, DESCRIBE) /\ NoMail(inbox, starts + 1)
  <2>1. starts \in Nat
    BY <1>1
  <2>2. QED
    BY <1>3, <2>1, MailOld
<1>5. PICK m \in Message : m.req = DESCRIBE /\ m.conn = starts + 1 /\ inbox' = Append(inbox, m)
  BY <1>1, <1>2 DEF Message, DESCRIBE, NoId
<1>6. Mail(inbox', starts', req')
  <2>1. starts + 1 \in Nat
    BY <1>1
  <2>2. Mail(Append(inbox, m), starts + 1, DESCRIBE)
    BY <1>4, <1>5, <2>1, MailAppend
  <2>3. QED
    BY <1>1, <1>2, <1>5, <2>2
<1>7. Places'
  <2>0. sdp' = <<>> /\ width' = FALSE
    BY DEF Start
  <2>1. /\ inbox' \in Seq(Message)
        /\ hdr' \in Seq(Items) /\ Len(hdr') = 0 /\ sdp' \in Seq(Items)
    BY <1>2, <1>6, <2>0 DEF Mail
  <2>2. <<"rtsp", starts'>> \in Sockets
    BY <1>1 DEF Sockets
  <2>3. /\ wire \in Seq(Items) /\ socks \subseteq Sockets /\ bound \subseteq socks
        /\ udpFailed \in BOOLEAN /\ playing \subseteq 1..MaxSessions /\ unsent \in BOOLEAN
    BY DEF Inv, Places, TypeOK
  <2>4. /\ socks' \subseteq Sockets /\ bound' \subseteq socks' /\ granted' \subseteq DESCRIBE..PLAY
        /\ wire' \in Seq(Items) /\ udpFailed' \in BOOLEAN /\ playing' \subseteq 1..MaxSessions
        /\ unsent' \in BOOLEAN
    BY <1>2, <2>2, <2>3
  <2>5. /\ pc' = "headers" /\ req' \in DESCRIBE..PLAY /\ session' \in 0..MaxSessions
        /\ starts' \in 0..MaxSessions /\ starts' > 0 /\ Len(hdr') < HdrCap /\ Len(hdr') <= HdrCap + 1
    BY <1>1, <1>2, <2>1, SessionAssumption DEF DESCRIBE, PLAY, NoId
  <2>6. width' \in BOOLEAN
    BY <2>0
  <2>7. QED
    BY <2>0, <2>1, <2>4, <2>5, <2>6 DEF Places, TypeOK
<1>8. BuffersKept'
  BY <1>2, BuffersStay
<1>9. Ports'
  <2>1. \A n \in 1..MaxSessions : <<"rtsp", n>> \notin socks
    BY <1>1 DEF Inv, Ports
  <2>2. \A n \in 1..MaxSessions : <<"rtsp", n>> \in socks' => n = starts'
    BY <1>2, <2>1
  <2>3. ~udpFailed' => socks' \subseteq {Rtsp}'
    BY <1>1, <1>2 DEF Inv, Ports, Rtsp
  <2>4. \A s \in bound' : \E i \in 1..3 : s[1] = Chan[i]
    BY <1>2 DEF Inv, Ports
  <2>5. QED
    BY <1>2, <2>2, <2>3, <2>4 DEF Ports
<1>10. Answers'
  <2>1. ~Has(hdr, "200")' /\ ~Has(wire, "200")' /\ AtMostOnce(hdr, wire)'
    BY <1>2, <1>3 DEF Has, AtMostOnce
  <2>2. DESCRIBE..(req' - 1) \subseteq granted' /\ granted' \subseteq DESCRIBE..req' /\ req' \notin granted'
    BY <1>2 DEF DESCRIBE
  <2>3. QED
    BY <1>2, <1>6, <2>1, <2>2 DEF Answers, Awaiting
<1>11. QED
  BY <1>7, <1>8, <1>9, <1>10 DEF Inv

LEMMA StartRefusedKeeps ==
    ASSUME Inv, StartRefused
    PROVE  Inv'
<1>1. /\ pc = "idle" /\ starts \in 0..MaxSessions /\ MaxSessions \in Nat
      /\ starts' = starts + 1 /\ starts' \in 1..MaxSessions
  BY Typed DEF StartRefused
<1>2. /\ session' = NoId /\ width' = FALSE /\ granted' = {}
      /\ UNCHANGED <<pc, req, hdr, sdp, socks, bound, udpFailed, inbox, wire, playing, unsent>>
  BY DEF StartRefused
<1>3. Mail(inbox, starts, req)
  BY DEF Inv, Answers
<1>4. Mail(inbox', starts', req')
  <2>1. starts \in Nat
    BY <1>1
  <2>2. Mail(inbox, starts + 1, req)
    BY <1>3, <2>1, MailOld
  <2>3. QED
    BY <1>1, <1>2, <2>2
<1>5. Places'
  <2>1. session' \in 0..MaxSessions /\ starts' \in 0..MaxSessions
    BY <1>1, <1>2 DEF NoId
  <2>2. width' \in BOOLEAN
    BY <1>2
  <2>3. QED
    BY <1>1, <1>2, <2>1, <2>2 DEF Inv, Places, TypeOK
<1>6. BuffersKept'
  BY <1>1, <1>2, BuffersStay
<1>7. Ports'
  <2>1. \A n \in 1..MaxSessions : <<"rtsp", n>> \notin socks'
    BY <1>1, <1>2 DEF Inv, Ports
  <2>2. QED
    BY <1>1, <1>2, <2>1 DEF Inv, Ports
<1>8. Answers'
  BY <1>1, <1>2, <1>4 DEF Inv, Answers, Awaiting
<1>9. QED
  BY <1>5, <1>6, <1>7, <1>8 DEF Inv

-----------------------------------------------------------------------------
(* An answer that says "200" is the one to the request it is taken for:    *)
(* for no earlier one is a "200" left.                                     *)
LEMMA AcceptedIsGranted ==
    ASSUME Inv, pc = "reply", Accepted
    PROVE  req \in granted /\ ~Has(wire, "200")
  BY DEF Inv, Answers, Accepted, AtMostOnce, Awaiting

(* What is open while a session comes up. *)
LEMMA SocketsBelow ==
    ASSUME Inv, pc \notin {"idle", "streaming"}
    PROVE  /\ socks \subseteq Sockets /\ bound \subseteq socks
           /\ \A n \in 1..MaxSessions : <<"rtsp", n>> \in socks => n = starts
           /\ \A s \in bound : \E i \in 1..3 : s[1] = Chan[i]
           /\ udpFailed \in BOOLEAN /\ (~udpFailed => socks \subseteq {Rtsp})
           /\ session \in 0..MaxSessions /\ width \in BOOLEAN
  BY DEF Inv, Places, TypeOK, Ports

LEMMA RequestKeeps ==
    ASSUME Inv, pc \in {"reply", "body"}, req # PLAY, req \in granted, ~Has(wire, "200"),
           Request(req + 1), session' \in 0..MaxSessions, width' \in BOOLEAN,
           UNCHANGED <<sdp, bound, udpFailed, starts, granted, playing>>
    PROVE  Inv'
<1>1. CASE Send(req + 1) /\ UNCHANGED <<socks, wire, unsent>>
  BY <1>1, GoesOn
<1>2. CASE Teardown(socks)
  BY <1>2, GivesUp, SocketsBelow
<1>3. QED
  BY <1>1, <1>2 DEF Request

LEMMA DescribedKeeps ==
    ASSUME Inv, Described
    PROVE  Inv'
<1>1. /\ pc = "reply" /\ req = DESCRIBE
      /\ req \in granted /\ ~Has(wire, "200")
      /\ UNCHANGED <<session, starts, sdp, width, bound, udpFailed, granted, playing>>
  BY AcceptedIsGranted DEF Described
<1>2. CASE Request(DESCRIBE + 1)
  <2>1. session \in 0..MaxSessions /\ width \in BOOLEAN
    BY DEF Inv, Places, TypeOK
  <2>2. QED
    BY <1>1, <1>2, <2>1, RequestKeeps DEF DESCRIBE, PLAY
<1>3. CASE pc' = "body" /\ UNCHANGED <<req, hdr, socks, inbox, wire, unsent>>
  <2>1. Places'
    BY <1>1, <1>3 DEF Inv, Places, TypeOK
  <2>2. BuffersKept'
    <3>1. sdp' = <<>>
      BY <1>1 DEF Inv, Places
    <3>2. QED
      BY <1>3, <3>1, BuffersStay
  <2>3. Ports'
    BY <1>1, <1>3 DEF Inv, Ports, Rtsp, Udps, Udp
  <2>4. Answers'
    BY <1>1, <1>3 DEF Inv, Answers, Awaiting
  <2>5. QED
    BY <2>1, <2>2, <2>3, <2>4 DEF Inv
<1>4. QED
  BY <1>2, <1>3 DEF Described

LEMMA BodyReadKeeps ==
    ASSUME Inv, BodyRead
    PROVE  Inv'
<1>1. /\ pc = "body" /\ req = DESCRIBE /\ req \in granted /\ ~Has(wire, "200")
      /\ session \in 0..MaxSessions /\ width' \in BOOLEAN
  BY DEF BodyRead, Inv, Places, TypeOK, Answers, Has
<1>2. QED
  BY <1>1, RequestKeeps DEF BodyRead, DESCRIBE, PLAY

LEMMA SetUpKeeps ==
    ASSUME Inv, SetUp
    PROVE  Inv'
<1>1. /\ pc = "reply" /\ req \in SETUPs /\ req # PLAY
      /\ UNCHANGED <<starts, sdp, width, bound, udpFailed, granted, playing>>
  BY DEF SetUp, SETUPs, PLAY
<1>2. session' \in 0..MaxSessions /\ width' \in BOOLEAN
  BY <1>1 DEF SetUp, Inv, Places, TypeOK
<1>3. CASE Accepted /\ Request(req + 1)
  BY <1>1, <1>2, <1>3, AcceptedIsGranted, RequestKeeps
<1>4. CASE Teardown(socks)
  BY <1>1, <1>2, <1>4, GivesUp, SocketsBelow
<1>5. QED
  BY <1>3, <1>4 DEF SetUp

LEMMA PlayedKeeps ==
    ASSUME Inv, Played
    PROVE  Inv'
<1>1. /\ pc = "reply" /\ req = PLAY
      /\ UNCHANGED <<session, sdp, width, bound, udpFailed, starts, granted, playing>>
  BY DEF Played
<1>2. CASE Teardown(socks)
  BY <1>1, <1>2, GivesUp, SocketsBelow
<1>3. CASE Accepted /\ pc' = "udp" /\ UNCHANGED <<req, hdr, socks, inbox, wire, unsent>>
  <2>1. req \in granted /\ ~Has(wire, "200")
    BY <1>1, <1>3, AcceptedIsGranted
  <2>2. Places'
    BY <1>1, <1>3 DEF Inv, Places, TypeOK
  <2>3. BuffersKept' /\ Ports'
    BY <1>1, <1>3, BuffersStay DEF Inv, Ports, Rtsp, Udps, Udp
  <2>4. Answers'
    BY <1>1, <1>3, <2>1 DEF Inv, Answers, Awaiting
  <2>5. QED
    BY <2>2, <2>3, <2>4 DEF Inv
<1>4. QED
  BY <1>2, <1>3 DEF Played

LEMMA RefusedKeeps ==
    ASSUME Inv, Refused
    PROVE  Inv'
<1>1. /\ pc = "reply" /\ pc' = "idle" /\ socks' = socks \ {Rtsp} /\ wire' = <<>>
      /\ UNCHANGED <<req, hdr, sdp, session, width, bound, udpFailed, starts, inbox,
                     granted, playing, unsent>>
  BY DEF Refused
<1>2. \A s \in bound : s # Rtsp
  BY <1>1, SocketsBelow DEF Rtsp, Chan
<1>3. Places'
  <2>1. socks' \subseteq Sockets /\ bound' \subseteq socks' /\ wire' \in Seq(Items)
    BY <1>1, <1>2, SocketsBelow
  <2>2. QED
    BY <1>1, <2>1 DEF Inv, Places, TypeOK
<1>4. BuffersKept'
  BY <1>1, BuffersStay
<1>5. Ports'
  <2>1. \A n \in 1..MaxSessions : <<"rtsp", n>> \notin socks'
    BY <1>1, SocketsBelow DEF Rtsp
  <2>2. ~udpFailed' => socks' = {}
    BY <1>1, SocketsBelow
  <2>3. QED
    BY <1>1, <2>1, <2>2, SocketsBelow DEF Ports
<1>6. Answers'
  BY <1>1 DEF Inv, Answers, Awaiting
<1>7. QED
  BY <1>3, <1>4, <1>5, <1>6 DEF Inv

-----------------------------------------------------------------------------
(* Reading.  The next byte of w moves to the end of s.                     *)
LEMMA OneRead ==
    ASSUME NEW w \in Seq(Items), w # <<>>, NEW s \in Seq(Items)
    PROVE  /\ Len(w) \in Nat \ {0} /\ Len(s) \in Nat
           /\ Append(s, Head(w)) \in Seq(Items) /\ Len(Append(s, Head(w))) = Len(s) + 1
           /\ \A i \in 1..(Len(s) + 1) :
                  Append(s, Head(w))[i] = IF i <= Len(s) THEN s[i] ELSE w[1]
           /\ Tail(w) \in Seq(Items) /\ Len(Tail(w)) = Len(w) - 1
           /\ \A i \in 1..(Len(w) - 1) : Tail(w)[i] = w[i + 1]
<1>1. Len(w) \in Nat \ {0} /\ Len(s) \in Nat /\ Head(w) = w[1] /\ Head(w) \in Items
  OBVIOUS
<1>2. /\ Tail(w) \in Seq(Items) /\ Len(Tail(w)) = Len(w) - 1
      /\ \A i \in 1..(Len(w) - 1) : Tail(w)[i] = w[i + 1]
  BY <1>1
<1>3. /\ Append(s, Head(w)) \in Seq(Items) /\ Len(Append(s, Head(w))) = Len(s) + 1
      /\ \A i \in 1..(Len(s) + 1) :
             Append(s, Head(w))[i] = IF i <= Len(s) THEN s[i] ELSE w[1]
  BY <1>1
<1>4. QED
  BY <1>1, <1>2, <1>3

(* A "200" moves along with the byte it is. *)
LEMMA ReadKeepsAnswers ==
    ASSUME Inv, pc \in {"headers", "trailing"}, wire # <<>>,
           hdr' = Append(hdr, Head(wire)), wire' = Tail(wire),
           pc' \in Awaiting \cup {"crashed"},
           UNCHANGED <<req, starts, inbox, granted>>
    PROVE  Answers'
<1>1. /\ pc # "idle" /\ wire \in Seq(Items) /\ hdr \in Seq(Items)
      /\ AtMostOnce(hdr, wire)
      /\ req \notin granted => ~Has(hdr, "200") /\ ~Has(wire, "200")
  BY DEF Inv, Places, TypeOK, Answers, Awaiting
<1>2. /\ Len(wire) \in Nat \ {0} /\ Len(hdr) \in Nat
      /\ Len(hdr') = Len(hdr) + 1 /\ Len(wire') = Len(wire) - 1
      /\ \A i \in 1..(Len(hdr) + 1) : hdr'[i] = IF i <= Len(hdr) THEN hdr[i] ELSE wire[1]
      /\ \A i \in 1..(Len(wire) - 1) : wire'[i] = wire[i + 1]
  BY <1>1, OneRead
<1>3. /\ \A i \in 1..Len(hdr') : hdr'[i] = "200" =>
             \/ i \in 1..Len(hdr) /\ hdr[i] = "200"
             \/ i = Len(hdr') /\ wire[1] = "200"
      /\ \A i \in 1..Len(wire') : wire'[i] = "200" =>
             i + 1 \in 1..Len(wire) /\ wire[i + 1] = "200"
      /\ 1 \in 1..Len(wire) /\ \A i \in 1..Len(wire') : i + 1 # 1 /\ i \in Int
  BY <1>2
<1>4. /\ \A i, j \in 1..Len(hdr) : hdr[i] = "200" /\ hdr[j] = "200" => i = j
      /\ \A i, j \in 1..Len(wire) : wire[i] = "200" /\ wire[j] = "200" => i = j
      /\ \A i \in 1..Len(hdr), j \in 1..Len(wire) : ~(hdr[i] = "200" /\ wire[j] = "200")
  BY <1>1 DEF AtMostOnce, Has
<1>5. \A i, j \in 1..Len(hdr') : hdr'[i] = "200" /\ hdr'[j] = "200" => i = j
  BY <1>3, <1>4
<1>6. \A i, j \in 1..Len(wire') : wire'[i] = "200" /\ wire'[j] = "200" => i = j
  BY <1>3, <1>4
<1>7. \A i \in 1..Len(hdr'), j \in 1..Len(wire') : ~(hdr'[i] = "200" /\ wire'[j] = "200")
  BY <1>3, <1>4
<1>8. AtMostOnce(hdr, wire)'
  BY <1>5, <1>6, <1>7 DEF AtMostOnce, Has
<1>9. req \notin granted => ~Has(hdr, "200")' /\ ~Has(wire, "200")'
  BY <1>1, <1>3 DEF Has
<1>10. QED
  BY <1>1, <1>8, <1>9 DEF Inv, Answers, Awaiting

LEMMA ReadHeaderKeeps ==
    ASSUME Inv, ReadHeader
    PROVE  Inv'
<1>1. /\ pc = "headers" /\ wire # <<>> /\ wire \in Seq(Items) /\ hdr \in Seq(Items)
      /\ Len(hdr) < HdrCap /\ HdrCap \in Nat
      /\ hdr' = Append(hdr, Head(wire)) /\ wire' = Tail(wire)
      /\ pc' = IF BlankLine(hdr') THEN "trailing" ELSE IF BufferFull(hdr') THEN "reply" ELSE "headers"
      /\ UNCHANGED <<req, sdp, session, width, socks, bound, udpFailed, starts, inbox,
                     granted, playing, unsent>>
  BY SessionAssumption DEF ReadHeader, Inv, Places, TypeOK
<1>2. /\ hdr' \in Seq(Items) /\ wire' \in Seq(Items) /\ Len(hdr) \in Nat
      /\ Len(hdr') = Len(hdr) + 1
  BY <1>1, OneRead
<1>3. Len(hdr') \in Nat /\ Len(hdr') <= HdrCap
  BY <1>1, <1>2
<1>4. Places'
  <2>1. pc' = "headers" => Len(hdr') < HdrCap
    BY <1>1, <1>3 DEF BufferFull
  <2>2. pc' = "trailing" => BlankLine(hdr')
    BY <1>1
  <2>3. pc' \in {"headers", "trailing", "reply"}
    BY <1>1
  <2>4. Len(hdr') <= HdrCap + 1
    BY <1>1, <1>3
  <2>5. QED
    BY <1>1, <1>2, <1>3, <2>1, <2>2, <2>3, <2>4 DEF Inv, Places, TypeOK
<1>5. BuffersKept'
  <2>1. pc' # "body"
    BY <1>1
  <2>2. ~(Len(hdr') > HdrCap)
    BY <1>1, <1>3
  <2>3. QED
    BY <2>1, <2>2 DEF BuffersKept
<1>6. Ports'
  BY <1>1 DEF Inv, Ports, Rtsp, Udps, Udp
<1>7. Answers'
  BY <1>1, ReadKeepsAnswers DEF Awaiting
<1>8. QED
  BY <1>4, <1>5, <1>6, <1>7 DEF Inv

(* Only this read can overrun the header buffer: after LF CR CR. *)
LEMMA ReadTrailingKeeps ==
    ASSUME Inv, ReadTrailing
    PROVE  Inv'
<1>1. /\ pc = "trailing" /\ wire # <<>> /\ wire \in Seq(Items) /\ hdr \in Seq(Items)
      /\ Len(hdr) <= HdrCap /\ BlankLine(hdr) /\ HdrCap \in Nat
      /\ hdr' = Append(hdr, Head(wire)) /\ wire' = Tail(wire)
      /\ pc' \in {"reply", "crashed"}
      /\ UNCHANGED <<req, sdp, session, width, socks, bound, udpFailed, starts, inbox,
                     granted, playing, unsent>>
  BY SessionAssumption DEF ReadTrailing, After, Inv, Places, TypeOK
<1>2. /\ hdr' \in Seq(Items) /\ wire' \in Seq(Items) /\ Len(hdr) \in Nat
      /\ Len(hdr') = Len(hdr) + 1
      /\ \A i \in 1..(Len(hdr) + 1) : hdr'[i] = IF i <= Len(hdr) THEN hdr[i] ELSE wire[1]
  BY <1>1, OneRead
<1>3. Places'
  <2>1. Len(hdr') <= HdrCap + 1
    BY <1>1, <1>2
  <2>2. QED
    BY <1>1, <1>2, <2>1 DEF Inv, Places, TypeOK
<1>4. BuffersKept'
  <2>1. ASSUME Len(hdr') > HdrCap PROVE SubSeq(hdr', 1, HdrCap) = hdr
    <3>1. Len(hdr) = HdrCap
      BY <1>1, <1>2, <2>1
    <3>2. \A i \in 1..HdrCap : hdr'[i] \in Items /\ hdr'[i] = hdr[i]
      BY <1>1, <1>2, <3>1
    <3>3. /\ SubSeq(hdr', 1, HdrCap) \in Seq(Items)
          /\ Len(SubSeq(hdr', 1, HdrCap)) = HdrCap
          /\ \A i \in 1..HdrCap : SubSeq(hdr', 1, HdrCap)[i] = hdr'[i]
      BY <1>1, <1>2, <3>1, <3>2
    <3>4. QED
      BY <1>1, <3>1, <3>2, <3>3, SeqEqual
  <2>2. QED
    BY <1>1, <2>1 DEF BuffersKept
<1>5. Ports'
  BY <1>1 DEF Inv, Ports, Rtsp, Udps, Udp
<1>6. Answers'
  BY <1>1, ReadKeepsAnswers DEF Awaiting
<1>7. QED
  BY <1>3, <1>4, <1>5, <1>6 DEF Inv

LEMMA HeadersTimeoutKeeps ==
    ASSUME Inv, HeadersTimeout
    PROVE  Inv'
<1>1. /\ pc \in {"headers", "trailing"} /\ pc' = "reply"
      /\ UNCHANGED <<req, hdr, sdp, session, width, socks, bound, udpFailed, starts, inbox,
                     wire, granted, playing, unsent>>
  BY DEF HeadersTimeout, AfterSilence
<1>2. Places' /\ BuffersKept'
  BY <1>1, BuffersStay DEF Inv, Places, TypeOK
<1>3. Ports'
  BY <1>1 DEF Inv, Ports, Rtsp, Udps, Udp
<1>4. Answers'
  BY <1>1 DEF Inv, Answers, Awaiting
<1>5. QED
  BY <1>2, <1>3, <1>4 DEF Inv

LEMMA ReadBodyKeeps ==
    ASSUME Inv, ReadBody
    PROVE  Inv'
<1>1. PICK length \in ContentLength, n \in 1..Len(wire) :
         /\ Len(sdp) < length /\ Len(sdp) < SdpCap
         /\ n <= Wanted(length)
         /\ sdp' = sdp \o SubSeq(wire, 1, n)
         /\ wire' = SubSeq(wire, n + 1, Len(wire))
  BY DEF ReadBody
<1>2. /\ pc = "body" /\ wire \in Seq(Items) /\ sdp \in Seq(Items)
      /\ Len(wire) \in Nat /\ Len(sdp) \in Nat /\ ~Has(wire, "200")
      /\ pc' \in {"body", "crashed"}
      /\ UNCHANGED <<req, hdr, session, width, socks, bound, udpFailed, starts, inbox,
                     granted, playing, unsent>>
  BY DEF ReadBody, After, Inv, Places, TypeOK, Answers
<1>3. ContentLength' = ContentLength /\ length \in Nat
  <2>1. ContentLength' = ContentLength
    BY <1>2 DEF ContentLength, LengthLines
  <2>2. \A x \in DOMAIN Declared : Declared[x] \in Nat
    BY SessionAssumption
  <2>3. QED
    BY <2>1, <2>2 DEF ContentLength, LengthLines
<1>4. /\ SubSeq(wire, 1, n) \in Seq(Items) /\ Len(SubSeq(wire, 1, n)) = n /\ n \in Nat
      /\ wire' \in Seq(Items) /\ Len(wire') = Len(wire) - n
      /\ \A i \in 1..Len(wire') : wire'[i] = wire[n + i] /\ n + i \in 1..Len(wire)
  <2>1. n \in Nat /\ 1 <= n /\ n <= Len(wire)
    BY <1>2
  <2>2. /\ SubSeq(wire, 1, n) \in Seq(Items) /\ Len(SubSeq(wire, 1, n)) = n
    BY <1>2, <2>1
  <2>3. /\ wire' \in Seq(Items) /\ Len(wire') = Len(wire) - n
        /\ \A i \in 1..(Len(wire) - n) : wire'[i] = wire[n + i]
    BY <1>1, <1>2, <2>1
  <2>4. QED
    BY <1>2, <2>1, <2>2, <2>3
<1>5. sdp' \in Seq(Items) /\ Len(sdp') = Len(sdp) + n
  BY <1>1, <1>2, <1>4, ConcatProperties
<1>6. Places'
  BY <1>2, <1>4, <1>5 DEF Inv, Places, TypeOK
<1>7. BuffersKept'
  <2>1. Len(sdp') <= length
    BY <1>1, <1>2, <1>3, <1>4, <1>5 DEF Wanted
  <2>2. Len(hdr') > HdrCap => BlankLine(SubSeq(hdr', 1, HdrCap))
    BY <1>2 DEF Inv, BuffersKept
  <2>3. QED
    BY <1>3, <2>1, <2>2 DEF BuffersKept
<1>8. Ports'
  BY <1>2 DEF Inv, Ports, Rtsp, Udps, Udp
<1>9. Answers'
  <2>1. ~Has(wire, "200")'
    BY <1>2, <1>4 DEF Has
  <2>2. QED
    BY <1>2, <2>1 DEF Inv, Answers, Awaiting
<1>10. QED
  BY <1>6, <1>7, <1>8, <1>9 DEF Inv

-----------------------------------------------------------------------------
(* The UDP sockets. *)
LEMMA UdpSockets ==
    ASSUME Inv, pc # "idle"
    PROVE  /\ \A i \in 1..3 : /\ Udp(i) \in Sockets /\ Udp(i)[1] = Chan[i]
                              /\ Udp(i)[2] = starts
           /\ \A i \in 1..3, n \in 1..MaxSessions : <<"rtsp", n>> # Udp(i)
<1>1. starts \in 1..MaxSessions
  BY Typed
<1>2. QED
  BY <1>1 DEF Udp, Sockets, Chan

LEMMA UdpOpenedKeeps ==
    ASSUME Inv, UdpOpened
    PROVE  Inv'
<1>1. /\ pc = "udp" /\ pc' = "streaming" /\ starts' = starts
      /\ \A i \in 1..3 : PortFree(i)
      /\ socks' = socks \cup Udps /\ bound' = bound \cup Udps
      /\ UNCHANGED <<req, hdr, sdp, session, width, udpFailed, starts, inbox, wire,
                     granted, playing, unsent>>
  BY DEF UdpOpened, Udps
<1>2. bound = {}
  BY <1>1, SocketsBelow DEF PortFree
<1>3. Udps \subseteq Sockets /\ \A s \in Udps : s[2] = starts /\ \E i \in 1..3 : s[1] = Chan[i]
  BY <1>1, UdpSockets DEF Udps
<1>4. Places'
  <2>1. socks' \subseteq Sockets /\ bound' \subseteq socks'
    BY <1>1, <1>3, SocketsBelow
  <2>2. QED
    BY <1>1, <2>1 DEF Inv, Places, TypeOK
<1>5. BuffersKept'
  BY <1>1, BuffersStay
<1>6. Ports'
  <2>1. \A n \in 1..MaxSessions : <<"rtsp", n>> \in socks' => n = starts'
    BY <1>1, UdpSockets, SocketsBelow DEF Udps
  <2>2. ~udpFailed' => socks' \subseteq {Rtsp}' \cup Udps'
    BY <1>1, SocketsBelow DEF Rtsp, Udps, Udp
  <2>3. QED
    BY <1>1, <1>2, <1>3, <2>1, <2>2 DEF Ports
<1>7. Answers'
  BY <1>1 DEF Inv, Answers, Awaiting
<1>8. QED
  BY <1>4, <1>5, <1>6, <1>7 DEF Inv

LEMMA UdpFailedKeeps ==
    ASSUME Inv, pc = "udp", NEW opened \in SUBSET (1..3), NEW taken \in SUBSET opened,
           Teardown(socks \cup { Udp(j) : j \in opened }),
           bound' = bound \cup { Udp(j) : j \in taken }, udpFailed' = TRUE,
           UNCHANGED <<session, sdp, width, starts, granted, playing>>
    PROVE  Inv'
<1> DEFINE left == socks \cup { Udp(j) : j \in opened }
<1>1. /\ left \subseteq Sockets
      /\ \A n \in 1..MaxSessions : <<"rtsp", n>> \in left => n = starts
  BY UdpSockets, SocketsBelow
<1>2. /\ bound' \subseteq left
      /\ \A s \in bound' : \E i \in 1..3 : s[1] = Chan[i]
  BY UdpSockets, SocketsBelow
<1>3. session' \in 0..MaxSessions /\ width' \in BOOLEAN
  BY SocketsBelow
<1>4. Teardown(left) /\ udpFailed' \in BOOLEAN /\ (~udpFailed' => left \subseteq {Rtsp})
  OBVIOUS
<1> HIDE DEF left
<1>5. QED
  BY <1>1, <1>2, <1>3, <1>4, GivesUp

LEMMA StopKeeps ==
    ASSUME Inv, Stop
    PROVE  Inv'
<1> DEFINE left == socks \ Closed
<1>1. /\ pc = "streaming" /\ Teardown(left) /\ bound' = bound \ Closed
      /\ UNCHANGED <<session, sdp, width, udpFailed, starts, granted, playing>>
  BY DEF Stop
<1>2. /\ left \subseteq Sockets /\ bound' \subseteq left
      /\ \A n \in 1..MaxSessions : <<"rtsp", n>> \in left => n = starts
      /\ \A s \in bound' : \E i \in 1..3 : s[1] = Chan[i]
      /\ session' \in 0..MaxSessions /\ width' \in BOOLEAN /\ udpFailed' \in BOOLEAN
  BY <1>1 DEF Inv, Places, TypeOK, Ports
<1>3. ~udpFailed' => left \subseteq {Rtsp}
  BY <1>1 DEF Inv, Ports, Udps, Closed
<1> HIDE DEF left
<1>4. QED
  BY <1>1, <1>2, <1>3, GivesUp

-----------------------------------------------------------------------------
(* The host takes the oldest request. *)
LEMMA MailRead ==
    ASSUME Inv, inbox # <<>>
    PROVE  LET m == Head(inbox)
           IN /\ m \in Message /\ m = inbox[1]
              /\ Mail(Tail(inbox), starts, req)
              /\ NoMail(inbox, starts) => NoMail(Tail(inbox), starts)
              /\ m.req # TEARDOWN /\ m.conn = starts =>
                     /\ m.req = req /\ NoMail(Tail(inbox), starts)
                     /\ pc # "idle" => req \notin granted /\ pc \in Awaiting \cup {"crashed"}
              /\ Open(m) => m.conn = starts /\ pc # "idle"
<1> DEFINE m == Head(inbox)
<1>1. Mail(inbox, starts, req) /\ inbox \in Seq(Message)
  BY DEF Inv, Answers, Mail
<1>2. m \in Message /\ m = inbox[1] /\ 1 \in 1..Len(inbox)
  BY <1>1
<1> HIDE DEF m
<1>3. /\ Mail(Tail(inbox), starts, req)
      /\ Pending(inbox, 1, starts) => NoMail(Tail(inbox), starts)
      /\ NoMail(inbox, starts) => NoMail(Tail(inbox), starts)
  BY <1>1, MailTail
<1>4. ASSUME m.req # TEARDOWN, m.conn = starts
      PROVE  /\ m.req = req /\ NoMail(Tail(inbox), starts)
             /\ pc # "idle" => req \notin granted /\ pc \in Awaiting \cup {"crashed"}
  <2>1. Pending(inbox, 1, starts)
    BY <1>2, <1>4 DEF Pending
  <2>2. m.req = req /\ ~NoMail(inbox, starts)
    BY <1>1, <1>2, <2>1 DEF Mail, NoMail
  <2>3. QED
    BY <1>3, <2>1, <2>2 DEF Inv, Answers
<1>5. ASSUME Open(m) PROVE m.conn = starts /\ pc # "idle"
  <2>1. m.conn \in 1..MaxSessions
    BY <1>2 DEF Message
  <2>2. QED
    BY <1>5, <2>1 DEF Open, Inv, Ports
<1>6. QED
  BY <1>2, <1>3, <1>4, <1>5 DEF m

(* s followed by an answer a in which "200" is at most once. *)
LEMMA AnswerJoins ==
    ASSUME NEW h \in Seq(Items), NEW s \in Seq(Items), ~Has(h, "200"), ~Has(s, "200"),
           NEW a \in Seq(Items), \A i \in 1..Len(a) : a[i] = "200" => i = 1
    PROVE  AtMostOnce(h, s \o a)
<1> DEFINE u == s \o a
<1>1. /\ u \in Seq(Items) /\ Len(u) = Len(s) + Len(a) /\ Len(s) \in Nat /\ Len(a) \in Nat
      /\ \A i \in 1..Len(u) : u[i] = IF i <= Len(s) THEN s[i] ELSE a[i - Len(s)]
  BY ConcatProperties
<1> HIDE DEF u
<1>2. ASSUME NEW i \in 1..Len(u), u[i] = "200" PROVE i = Len(s) + 1
  <2>1. i > Len(s)
    <3>1. SUFFICES ASSUME i <= Len(s) PROVE FALSE
      BY <1>1
    <3>2. i \in 1..Len(s) /\ s[i] = "200"
      BY <1>1, <1>2, <3>1
    <3>3. QED
      BY <3>2 DEF Has
  <2>2. i - Len(s) \in 1..Len(a) /\ a[i - Len(s)] = "200"
    BY <1>1, <1>2, <2>1
  <2>3. i - Len(s) = 1
    BY <2>2
  <2>4. QED
    BY <1>1, <2>3
<1>3. QED
  BY <1>2 DEF AtMostOnce, Has, u

LEMMA HostStepKeeps ==
    ASSUME Inv, inbox # <<>>, inbox' = Tail(inbox),
           UNCHANGED <<pc, req, hdr, sdp, session, width, socks, bound, udpFailed, starts, unsent>>,
           playing' \subseteq 1..MaxSessions,
           NEW m, m = Head(inbox), NEW a \in Seq(Items),
           \A i \in 1..Len(a) : a[i] = "200" => i = 1,
           \/ granted' = granted /\ ~Has(a, "200")
           \/ granted' = granted /\ m.conn # starts
           \/ granted' = granted \cup {m.req} /\ m.conn = starts /\ m.req # TEARDOWN,
           wire' = wire \/ (m.req # TEARDOWN /\ Open(m) /\ wire' = wire \o a)
    PROVE  Inv'
<1>1. /\ m \in Message
      /\ Mail(Tail(inbox), starts, req)
      /\ NoMail(inbox, starts) => NoMail(Tail(inbox), starts)
      /\ m.req # TEARDOWN /\ m.conn = starts =>
             /\ m.req = req /\ NoMail(Tail(inbox), starts)
             /\ pc # "idle" => req \notin granted /\ pc \in Awaiting \cup {"crashed"}
      /\ Open(m) => m.conn = starts /\ pc # "idle"
  BY MailRead
<1>2. /\ wire \in Seq(Items) /\ hdr \in Seq(Items)
      /\ granted \subseteq DESCRIBE..PLAY
  BY DEF Inv, Places, TypeOK
<1>3. wire' \in Seq(Items)
  <2>1. wire \o a \in Seq(Items)
    BY <1>2, ConcatProperties
  <2>2. QED
    BY <1>2, <2>1
<1>4. granted' \subseteq DESCRIBE..PLAY
  <2>1. CASE granted' = granted
    BY <1>2, <2>1
  <2>2. CASE granted' = granted \cup {m.req} /\ m.conn = starts /\ m.req # TEARDOWN
    <3>1. m.req = req /\ req \in DESCRIBE..PLAY
      BY <1>1, <2>2 DEF Inv, Places, TypeOK
    <3>2. QED
      BY <1>2, <2>2, <3>1
  <2>3. QED
    BY <2>1, <2>2
<1>5. Places'
  <2>1. inbox' \in Seq(Message)
    BY <1>1 DEF Mail
  <2>2. QED
    BY <1>3, <1>4, <2>1 DEF Inv, Places, TypeOK
<1>6. BuffersKept'
  BY BuffersStay
<1>7. Ports'
  BY DEF Inv, Ports, Rtsp, Udps, Udp
<1>8. Answers'
  <2>1. Mail(inbox', starts', req')
    BY <1>1
  <2>2. CASE pc = "idle"
    <3>1. wire' = <<>>
      BY <1>1, <2>2 DEF Inv, Answers
    <3>2. QED
      BY <2>1, <2>2, <3>1 DEF Answers, Awaiting
  <2>3. CASE pc # "idle" /\ m.req # TEARDOWN /\ m.conn = starts
    <3>1. /\ m.req = req /\ NoMail(inbox', starts') /\ req \notin granted
          /\ pc \in Awaiting \cup {"crashed"}
      BY <1>1, <2>3
    <3>2. pc \in Awaiting => ~Has(hdr, "200") /\ ~Has(wire, "200") /\ AtMostOnce(hdr, wire)
      BY <3>1 DEF Inv, Answers
    <3>3. pc \in Awaiting => AtMostOnce(hdr, wire)'
      <4>1. CASE wire' = wire
        BY <3>2, <4>1
      <4>2. CASE wire' = wire \o a
        BY <1>2, <3>2, <4>2, AnswerJoins
      <4>3. QED
        BY <4>1, <4>2
    <3>4. DESCRIBE..(req - 1) \subseteq granted /\ granted \subseteq DESCRIBE..req
          /\ req \in DESCRIBE..req
      BY <2>3, Typed DEF Inv, Answers, DESCRIBE
    <3>5. DESCRIBE..(req' - 1) \subseteq granted' /\ granted' \subseteq DESCRIBE..req'
      BY <3>1, <3>4
    <3>6. pc \in Awaiting /\ req \notin granted' => ~Has(wire', "200")
      <4>1. req \notin granted' => ~Has(a, "200")
        BY <2>3, <3>1
      <4>2. CASE wire' = wire
        BY <3>2, <4>2
      <4>3. CASE wire' = wire \o a
        BY <1>2, <3>2, <4>1, <4>3, PlainJoin DEF Plain
      <4>4. QED
        BY <4>2, <4>3
    <3>7. QED
      BY <2>1, <3>1, <3>2, <3>3, <3>5, <3>6 DEF Answers, Awaiting
  <2>4. CASE pc # "idle" /\ ~(m.req # TEARDOWN /\ m.conn = starts)
    <3>1. wire' = wire /\ granted' = granted
      BY <1>1, <2>4
    <3>2. ~NoMail(inbox', starts') => ~NoMail(inbox, starts)
      BY <1>1
    <3>3. QED
      BY <2>1, <2>4, <3>1, <3>2 DEF Inv, Answers
  <2>5. QED
    BY <2>2, <2>3, <2>4
<1>9. QED
  BY <1>5, <1>6, <1>7, <1>8 DEF Inv

LEMMA HostGrantsKeeps ==
    ASSUME Inv, HostGrants
    PROVE  Inv'
<1> DEFINE m == Head(inbox)
<1>1. /\ inbox # <<>> /\ inbox' = Tail(inbox)
      /\ UNCHANGED <<pc, req, hdr, sdp, session, width, socks, bound, udpFailed, starts, unsent>>
      /\ m.req # TEARDOWN /\ (m.req = PLAY => m.id = m.conn)
      /\ granted' = IF m.conn = starts THEN granted \cup {m.req} ELSE granted
      /\ playing' = IF m.req = PLAY THEN playing \cup {m.id} ELSE playing
  BY DEF HostGrants
<1>2. PICK a \in Grants(m.req) : wire' = IF Open(m) THEN wire \o a ELSE wire
  BY DEF HostGrants
<1>3. /\ a \in Seq(Items)
      /\ \A i \in 1..Len(a) : a[i] = "200" => i = 1
  BY Granting
<1>4. m.conn \in 1..MaxSessions /\ playing \subseteq 1..MaxSessions
  BY <1>1, MailRead DEF Message, Inv, Places, TypeOK
<1>5. playing' \subseteq 1..MaxSessions
  BY <1>1, <1>4
<1>6. /\ \/ granted' = granted /\ m.conn # starts
         \/ granted' = granted \cup {m.req} /\ m.conn = starts /\ m.req # TEARDOWN
      /\ wire' = wire \/ (m.req # TEARDOWN /\ Open(m) /\ wire' = wire \o a)
  <2>1. m.conn = starts => granted' = granted \cup {m.req}
    BY <1>1
  <2>2. m.conn # starts => granted' = granted
    BY <1>1
  <2>3. wire' = wire \/ (m.req # TEARDOWN /\ Open(m) /\ wire' = wire \o a)
    BY <1>1, <1>2
  <2>4. QED
    BY <1>1, <2>1, <2>2, <2>3
<1>7. m = Head(inbox)
  OBVIOUS
<1> HIDE DEF m
<1>8. QED
  BY <1>1, <1>3, <1>5, <1>6, <1>7, HostStepKeeps

LEMMA HostRefusesKeeps ==
    ASSUME Inv, HostRefuses
    PROVE  Inv'
<1> DEFINE m == Head(inbox)
<1>0. PICK a \in Refusals : wire' \in {wire, IF Open(m) THEN wire \o a ELSE wire}
  BY DEF HostRefuses
<1>1. /\ inbox # <<>> /\ inbox' = Tail(inbox) /\ granted' = granted /\ playing' = playing
      /\ UNCHANGED <<pc, req, hdr, sdp, session, width, socks, bound, udpFailed, starts, unsent>>
      /\ wire' = wire \/ (m.req # TEARDOWN /\ Open(m) /\ wire' = wire \o a)
  <2>1. m.req # TEARDOWN /\ wire' \in {wire, IF Open(m) THEN wire \o a ELSE wire}
    BY <1>0 DEF HostRefuses
  <2>2. wire' = wire \/ (m.req # TEARDOWN /\ Open(m) /\ wire' = wire \o a)
    BY <2>1
  <2>3. QED
    BY <2>2 DEF HostRefuses
<1>2. a \in Seq(Items) /\ ~Has(a, "200")
  BY PlainRefusal DEF Plain
<1>3. \A i \in 1..Len(a) : a[i] = "200" => i = 1
  BY <1>2 DEF Has
<1>4. playing' \subseteq 1..MaxSessions
  BY <1>1 DEF Inv, Places, TypeOK
<1>5. m = Head(inbox)
  OBVIOUS
<1> HIDE DEF m
<1>6. QED
  BY <1>1, <1>2, <1>3, <1>4, <1>5, HostStepKeeps

LEMMA HostTearsDownKeeps ==
    ASSUME Inv, HostTearsDown
    PROVE  Inv'
<1> DEFINE m == Head(inbox)
           a == <<>>
<1>1. /\ inbox # <<>> /\ inbox' = Tail(inbox) /\ granted' = granted /\ wire' = wire
      /\ playing' = playing \ {m.id}
      /\ UNCHANGED <<pc, req, hdr, sdp, session, width, socks, bound, udpFailed, starts, unsent>>
  BY DEF HostTearsDown
<1>2. /\ a \in Seq(Items) /\ ~Has(a, "200")
      /\ \A i \in 1..Len(a) : a[i] = "200" => i = 1
  BY DEF Has
<1>3. playing' \subseteq 1..MaxSessions
  BY <1>1 DEF Inv, Places, TypeOK
<1>4. m = Head(inbox) /\ (granted' = granted /\ ~Has(a, "200"))
  BY <1>1, <1>2
<1> HIDE DEF m, a
<1>5. QED
  BY <1>1, <1>2, <1>3, <1>4, HostStepKeeps

-----------------------------------------------------------------------------
LEMMA NextInv ==
    ASSUME Inv, [Next]_vars
    PROVE  Inv'
<1>1. CASE Start
  BY <1>1, StartKeeps
<1>2. CASE StartRefused
  BY <1>2, StartRefusedKeeps
<1>3. CASE Going
  <2>1. CASE ReadHeader \/ ReadTrailing \/ HeadersTimeout \/ ReadBody
    BY <2>1, ReadHeaderKeeps, ReadTrailingKeeps, HeadersTimeoutKeeps, ReadBodyKeeps
  <2>2. CASE Refused \/ Described \/ BodyRead \/ SetUp \/ Played
    BY <2>2, RefusedKeeps, DescribedKeeps, BodyReadKeeps, SetUpKeeps, PlayedKeeps
  <2>3. CASE UdpOpened
    BY <2>3, UdpOpenedKeeps
  <2>4. ASSUME NEW i \in 1..3, UdpBindFailed(i) PROVE Inv'
    <3> DEFINE taken == 1..(i - 1)
               opened == 1..3
    <3>1. opened \in SUBSET (1..3) /\ taken \in SUBSET opened
      OBVIOUS
    <3>2. /\ pc = "udp" /\ Teardown(socks \cup { Udp(j) : j \in opened })
          /\ bound' = bound \cup { Udp(j) : j \in taken } /\ udpFailed' = TRUE
          /\ UNCHANGED <<session, sdp, width, starts, granted, playing>>
      BY <2>4 DEF UdpBindFailed
    <3> HIDE DEF taken, opened
    <3>3. QED
      BY <3>1, <3>2, UdpFailedKeeps
  <2>5. ASSUME NEW opened \in SUBSET (1..3) \ {1..3}, UdpSocketFailed(opened) PROVE Inv'
    <3> DEFINE taken == {}
    <3>1. opened \in SUBSET (1..3) /\ taken \in SUBSET opened
      OBVIOUS
    <3>2. /\ pc = "udp" /\ Teardown(socks \cup { Udp(j) : j \in opened })
          /\ bound' = bound \cup { Udp(j) : j \in taken } /\ udpFailed' = TRUE
          /\ UNCHANGED <<session, sdp, width, starts, granted, playing>>
      BY <2>5 DEF UdpSocketFailed
    <3> HIDE DEF taken
    <3>3. QED
      BY <3>1, <3>2, UdpFailedKeeps
  <2>6. QED
    BY <1>3, <2>1, <2>2, <2>3, <2>4, <2>5 DEF Going
<1>4. CASE Stop
  BY <1>4, StopKeeps
<1>5. CASE Host
  BY <1>5, HostGrantsKeeps, HostRefusesKeeps, HostTearsDownKeeps DEF Host
<1>6. CASE UNCHANGED vars
  <2>1. Places' /\ BuffersKept'
    BY <1>6, BuffersStay DEF vars, Inv, Places, TypeOK
  <2>2. Ports'
    BY <1>6 DEF vars, Inv, Ports, Rtsp, Udps, Udp
  <2>3. Answers'
    BY <1>6 DEF vars, Inv, Answers
  <2>4. QED
    BY <2>1, <2>2, <2>3 DEF Inv
<1>7. QED
  BY <1>1, <1>2, <1>3, <1>4, <1>5, <1>6 DEF Next

LEMMA InvImplies ==
    ASSUME Inv
    PROVE  TypeOK /\ BuffersKept /\ ProceedsOnlyIfGranted /\ ClosedWhenIdle /\ LeakedPortIsFatal
<1>1. TypeOK /\ BuffersKept
  BY DEF Inv, Places
<1>2. ProceedsOnlyIfGranted
  BY DEF Inv, Places, Answers, ProceedsOnlyIfGranted
<1>3. ClosedWhenIdle
  BY DEF Inv, Ports, ClosedWhenIdle
<1>4. LeakedPortIsFatal
  <2>1. SUFFICES ASSUME NEW s \in bound, s[2] < starts, pc = "streaming" PROVE FALSE
    BY DEF LeakedPortIsFatal
  <2>2. s[2] = starts
    BY <2>1 DEF Inv, Ports
  <2>3. QED
    BY <2>1, <2>2, Typed
<1>5. QED
  BY <1>1, <1>2, <1>3, <1>4

-----------------------------------------------------------------------------
LEMMA SpecInv == Spec => []Inv
<1>1. QED
  BY InitInv, NextInv, PTL DEF Spec

(* Nothing leaves its range, whatever the host sends; the header buffer    *)
(* gets one byte too many at most.                                         *)
THEOREM TypeCorrect == Spec => []TypeOK
  BY SpecInv, InvImplies, PTL

(* Of all bytes and declared lengths a host can send, only an empty line   *)
(* LF CR CR at the very end of the header buffer and a Content-Length      *)
(* larger than the body buffer make a read go past its buffer, by one byte *)
(* and by no more than the declared length.                                *)
THEOREM BuffersKeptCorrect == Spec => []BuffersKept
  BY SpecInv, InvImplies, PTL

(* Answers carry no number the program would look at, and may come after   *)
(* their reader has given up; yet no "200" is ever taken for another       *)
(* request's.                                                              *)
THEOREM ProceedsOnlyIfGrantedCorrect == Spec => []ProceedsOnlyIfGranted
  BY SpecInv, InvImplies, PTL

(* Every end of a session but the failure of udp_open closes its sockets.  *)
THEOREM ClosedWhenIdleCorrect == Spec => []ClosedWhenIdle
  BY SpecInv, InvImplies, PTL

(* After that failure, no session streams again on the ports left bound.   *)
THEOREM LeakedPortIsFatalCorrect == Spec => []LeakedPortIsFatal
  BY SpecInv, InvImplies, PTL

-----------------------------------------------------------------------------
(* Streaming: while the program has not crashed, whatever is held is lost, *)
(* or it belongs to an object that is there and whose destroy function     *)
(* releases it.                                                            *)
Owned(h) ==
    /\ h = <<h[1], h[2], starts>>
    /\ h[1] \in Objects /\ Exists(h[1])
    /\ h[2] \in Freed(h[1])
Kept ==
    crash = "no" =>
        /\ \A h \in held : h[2] \in Lost \/ (pc = "streaming" /\ Owned(h))
        /\ pc = "streaming" =>
               Exists("vreasm") /\ \A o \in InPipe : Exists(o) => Exists("pipeline")

(* How a step of Session moves between up and down. *)
LEMMA UpAndDown ==
    ASSUME Next
    PROVE  /\ pc = "idle" \/ starts' = starts
           /\ pc' = "streaming" => pc \in {"udp", "streaming"}
           /\ pc = "streaming" => pc' \in {"idle", "streaming"}
<1>1. CASE Start \/ StartRefused
  BY <1>1 DEF Start, StartRefused, Send
<1>2. CASE Going
  <2>1. CASE ReadHeader \/ ReadTrailing \/ HeadersTimeout \/ ReadBody
    BY <2>1 DEF ReadHeader, ReadTrailing, HeadersTimeout, ReadBody, AfterSilence, After
  <2>2. CASE Refused \/ Described \/ BodyRead \/ SetUp \/ Played
    BY <2>2 DEF Refused, Described, BodyRead, SetUp, Played, Request, Send, Teardown
  <2>3. CASE UdpOpened
    BY <2>3 DEF UdpOpened
  <2>4. CASE \E i \in 1..3 : UdpBindFailed(i)
    BY <2>4 DEF UdpBindFailed, Teardown
  <2>5. CASE \E opened \in SUBSET (1..3) \ {1..3} : UdpSocketFailed(opened)
    BY <2>5 DEF UdpSocketFailed, Teardown
  <2>6. QED
    BY <1>2, <2>1, <2>2, <2>3, <2>4, <2>5 DEF Going
<1>3. CASE Stop
  BY <1>3 DEF Stop, Teardown
<1>4. CASE Host
  BY <1>4 DEF Host, HostGrants, HostRefuses, HostTearsDown
<1>5. QED
  BY <1>1, <1>2, <1>3, <1>4 DEF Next

-----------------------------------------------------------------------------
(* A constructor that succeeds acquires what its destroy function releases *)
(* or is lost; the last of its steps gives what its caller looks at.       *)
LastStep(o) == Steps[o][Len(Steps[o])]

LEMMA StepsOf ==
    ASSUME NEW o \in Objects
    PROVE  /\ Len(Steps[o]) \in Nat \ {0}
           /\ LastStep(o) \in Whole \ Tests
           /\ o \in Renderers => LastStep(o) # Steps[o][2] /\ Len(Steps[o]) = 3
           /\ \A i \in 1..Len(Steps[o]) : Steps[o][i] \in Freed(o) \cup Tests \cup Lost
           /\ \A i \in 1..Len(Steps[o]) : Steps[o][i] = LastStep(o) => i = Len(Steps[o])
<1>1. CASE o \in Decoders
  <2>1. Steps[o] = Decoder
    BY <1>1 DEF Steps, Decoders
  <2>2. /\ Len(Decoder) = 6 /\ Decoder[1] = "state" /\ Decoder[2] = "found"
        /\ Decoder[3] = "context" /\ Decoder[4] = "opened" /\ Decoder[5] = "frame"
        /\ Decoder[6] = "wrapper"
    BY DEF Decoder
  <2>3. \A r \in {"state", "context", "frame", "wrapper"} : r \in Freed(o)
    BY <1>1 DEF Decoders, Freed, VideoFreed, AudioFreed, Renderers
  <2>4. o \notin Renderers
    BY <1>1 DEF Decoders, Renderers
  <2>5. QED
    BY <2>1, <2>2, <2>3, <2>4 DEF LastStep, Whole, Tests
<1>2. CASE o = "playback"
  <2>1. /\ Len(Steps[o]) = 3 /\ Steps[o][1] = "output" /\ Steps[o][2] = "library"
        /\ Steps[o][3] = "port"
    BY <1>2 DEF Steps
  <2>2. Freed(o) = PlaybackFreed /\ o \notin Renderers
    BY <1>2 DEF Freed, Renderers
  <2>3. QED
    BY <2>1, <2>2 DEF LastStep, Whole, Tests, PlaybackFreed
<1>3. CASE o \in Renderers
  <2>1. /\ Len(Steps[o]) = 3 /\ Steps[o][1] = "renderer" /\ Steps[o][2] = "rsx"
        /\ Steps[o][3] = "pixels"
    BY <1>3 DEF Steps, Renderers
  <2>2. Freed(o) = RendererFreed
    BY <1>3 DEF Freed, Renderers
  <2>3. \A i \in 1..3 : i = 1 \/ i = 2 \/ i = 3
    OBVIOUS
  <2>4. \A i \in 1..3 : Steps[o][i] \in Freed(o) \cup Tests \cup Lost
    BY <2>1, <2>2, <2>3 DEF RendererFreed, Lost
  <2>5. LastStep(o) = "pixels" /\ \A i \in 1..3 : Steps[o][i] = "pixels" => i = 3
    BY <2>1, <2>3 DEF LastStep
  <2>6. "pixels" \in Whole \ Tests /\ Steps[o][2] # "pixels"
    BY <2>1 DEF Whole, Tests
  <2>7. QED
    BY <2>1, <2>4, <2>5, <2>6
<1>4. CASE o \in {"pipeline", "jitter", "vreasm", "areasm"}
  <2>1. /\ Len(Steps[o]) = 1 /\ Steps[o][1] \in {"pipeline", "buffer", "reassembler"}
        /\ Steps[o][1] \in Freed(o)
    BY <1>4 DEF Steps, Freed, JitterFreed, ReasmFreed, Renderers
  <2>2. o \notin Renderers
    BY <1>4 DEF Renderers
  <2>3. QED
    BY <2>1, <2>2 DEF LastStep, Whole, Tests
<1>5. QED
  BY <1>1, <1>2, <1>3, <1>4 DEF Objects, Steps, Decoders, Renderers

(* Before a step that fails, without ending the program, everything        *)
(* acquired is given back or lost.                                         *)
LEMMA GivenBack ==
    ASSUME NEW o \in Objects, NEW i \in 1..Len(Steps[o]), <<o, i>> \notin Unchecked,
           ~(o \in Renderers /\ i = 2),
           NEW r \in StepsBefore(o, i)
    PROVE  r \in Undone(o, Steps[o][i]) \cup Tests \cup Lost
<1>1. PICK j \in 1..(i - 1) : r = Steps[o][j]
  BY DEF StepsBefore
<1>2. Len(Steps[o]) \in Nat
  BY StepsOf
<1>3. i \in Nat /\ j \in Nat /\ 1 <= j /\ j < i /\ i <= Len(Steps[o])
  BY <1>1, <1>2
<1>4. CASE o \in Decoders
  <2>1. Steps[o] = Decoder
    BY <1>4 DEF Steps, Decoders
  <2>2. /\ Len(Decoder) = 6 /\ Decoder[1] = "state" /\ Decoder[2] = "found"
        /\ Decoder[3] = "context" /\ Decoder[4] = "opened" /\ Decoder[5] = "frame"
        /\ Decoder[6] = "wrapper"
    BY DEF Decoder
  <2>3. i # 6
    BY <1>4 DEF Decoders, Unchecked
  <2>4. i \in {2, 3, 4, 5} /\ j \in {1, 2, 3, 4}
    BY <1>3, <2>1, <2>2, <2>3
  <2>5. Undone(o, Steps[o][i]) = VideoUndone(Steps[o][i])
    BY <1>4 DEF Decoders, Undone, VideoUndone, AudioUndone, Renderers
  <2>6. \A s \in {"found", "context"} : VideoUndone(s) = {"state"}
    BY DEF VideoUndone
  <2>7. \A s \in {"opened", "frame"} : VideoUndone(s) = {"context", "state"}
    BY DEF VideoUndone
  <2>8. r \in {"found", "opened"} => r \in Tests
    BY DEF Tests
  <2>9. CASE i \in {2, 3}
    <3>1. j \in {1, 2}
      BY <1>3, <2>4, <2>9
    <3>2. QED
      BY <1>1, <2>1, <2>2, <2>5, <2>6, <2>8, <2>9, <3>1
  <2>10. CASE i \in {4, 5}
    <3>1. Undone(o, Steps[o][i]) = {"context", "state"}
      BY <2>1, <2>2, <2>5, <2>7, <2>10
    <3>2. r \in {"state", "found", "context", "opened"}
      BY <1>1, <2>1, <2>2, <2>4
    <3>3. QED
      BY <2>8, <3>1, <3>2
  <2>11. QED
    BY <2>4, <2>9, <2>10
<1>5. CASE o = "playback"
  <2>1. /\ Len(Steps[o]) = 3 /\ Steps[o][1] = "output" /\ Steps[o][2] = "library"
        /\ Steps[o][3] = "port"
    BY <1>5 DEF Steps
  <2>2. (i = 2 /\ j = 1) \/ (i = 3 /\ j \in {1, 2})
    BY <1>3, <2>1
  <2>3. \A s : Undone(o, s) = PlaybackUndone(s)
    BY <1>5 DEF Undone, Renderers
  <2>4. PlaybackUndone("library") = {"output"} /\ PlaybackUndone("port") = {"library", "output"}
    BY DEF PlaybackUndone
  <2>5. QED
    BY <1>1, <2>1, <2>2, <2>3, <2>4
<1>6. CASE o \in Renderers
  <2>1. /\ Len(Steps[o]) = 3 /\ Steps[o][1] = "renderer" /\ Steps[o][2] = "rsx"
        /\ Steps[o][3] = "pixels"
    BY <1>6 DEF Steps, Renderers
  <2>2. i = 3 /\ j \in {1, 2}
    BY <1>3, <1>6, <2>1
  <2>3. Undone(o, "pixels") = {"renderer"}
    BY <1>6 DEF Undone, RendererUndone, Renderers
  <2>4. QED
    BY <1>1, <2>1, <2>2, <2>3 DEF Lost
<1>7. CASE o \in {"pipeline", "jitter", "vreasm", "areasm"}
  <2>1. Len(Steps[o]) = 1
    BY <1>7 DEF Steps
  <2>2. QED
    BY <1>3, <2>1
<1>8. QED
  BY <1>4, <1>5, <1>6, <1>7 DEF Objects, Steps, Decoders, Renderers

(* What a constructor leaves. *)
LEMMA MadeWhole ==
    ASSUME NEW o \in Objects, NEW F \in SUBSET FailPoint,
           \A p \in F : p[1] = o => p \notin Unchecked
    PROVE  /\ Failed(o, F) = {} =>
                  /\ LastStep(o) \in Made(o, F)
                  /\ \A r \in Made(o, F) : r \in Freed(o) \cup Lost
           /\ Failed(o, F) # {} => \A r \in Made(o, F) : r \in Lost
<1>1. \A p \in F : p[1] = o => p[2] \in 1..Len(Steps[o]) /\ p = <<o, p[2]>>
  <2>1. SUFFICES ASSUME NEW p \in F, p[1] = o
                 PROVE  p[2] \in 1..Len(Steps[o]) /\ p = <<o, p[2]>>
    OBVIOUS
  <2>2. PICK q \in Objects : p \in {q} \X (1..Len(Steps[q]))
    BY DEF FailPoint
  <2>3. QED
    BY <2>1, <2>2
<1>2. ASSUME Failed(o, F) = {}
      PROVE  LastStep(o) \in Made(o, F) /\ \A r \in Made(o, F) : r \in Freed(o) \cup Lost
  <2>1. Made(o, F) = StepsBefore(o, Len(Steps[o]) + 1) \ Missing(o, F)
    BY <1>2 DEF Made
  <2>2. StepsBefore(o, Len(Steps[o]) + 1) = { Steps[o][j] : j \in 1..Len(Steps[o]) }
    <3>1. Len(Steps[o]) \in Nat
      BY StepsOf
    <3>2. (Len(Steps[o]) + 1) - 1 = Len(Steps[o])
      BY <3>1
    <3>3. QED
      BY <3>2 DEF StepsBefore
  <2>3. LastStep(o) \notin Missing(o, F)
    <3>1. \A p \in F : p[1] = o => o \in Renderers /\ p[2] = 2
      BY <1>2 DEF Failed, Harmless
    <3>2. \A p \in F : p[1] = o => Steps[o][p[2]] # LastStep(o)
      BY <3>1, StepsOf
    <3>3. LastStep(o) \notin Tests
      BY StepsOf
    <3>4. QED
      BY <3>2, <3>3 DEF Missing
  <2>4. LastStep(o) \in { Steps[o][j] : j \in 1..Len(Steps[o]) }
    <3>1. Len(Steps[o]) \in 1..Len(Steps[o])
      BY StepsOf
    <3>2. QED
      BY <3>1 DEF LastStep
  <2>5. \A r \in Made(o, F) : r \in Freed(o) \cup Lost
    <3>1. \A r \in Made(o, F) : r \notin Tests
      BY <2>1 DEF Missing
    <3>2. \A r \in Made(o, F) : \E j \in 1..Len(Steps[o]) : r = Steps[o][j]
      BY <2>1, <2>2
    <3>3. QED
      BY <3>1, <3>2, StepsOf
  <2>6. QED
    BY <2>1, <2>2, <2>3, <2>4, <2>5
<1>3. ASSUME Failed(o, F) # {}, NEW r \in Made(o, F)
      PROVE  r \in Lost
  <2>1. /\ r \in UNION { StepsBefore(o, p[2]) \ Undone(o, Steps[o][p[2]]) : p \in Failed(o, F) }
        /\ r \notin Missing(o, F)
    BY <1>3 DEF Made
  <2>2. PICK p \in Failed(o, F) : r \in StepsBefore(o, p[2]) /\ r \notin Undone(o, Steps[o][p[2]])
    BY <2>1
  <2>3. /\ p \in F /\ p[1] = o /\ ~Harmless(p)
        /\ p[2] \in 1..Len(Steps[o]) /\ <<o, p[2]>> \notin Unchecked
    BY <1>1, <2>2 DEF Failed
  <2>4. ~(o \in Renderers /\ p[2] = 2)
    BY <2>3 DEF Harmless
  <2>5. r \in Undone(o, Steps[o][p[2]]) \cup Tests \cup Lost
    BY <2>2, <2>3, <2>4, GivenBack
  <2>6. r \notin Tests
    BY <2>1 DEF Missing
  <2>7. QED
    BY <2>2, <2>5, <2>6
<1>4. QED
  BY <1>2, <1>3

LEMMA CreateKeeps ==
    ASSUME Create, \A h \in held : h[2] \in Lost, starts' = starts, pc' = "streaming"
    PROVE  Kept'
<1>1. PICK c \in Outcomes :
         /\ crash' = IF c.fatal THEN "start" ELSE "no"
         /\ held' = IF c.fatal THEN held ELSE held \cup { <<m[1], m[2], starts>> : m \in c.made }
  BY DEF Create
<1>2. PICK F \in Failures :
         c = [fatal |-> Fatal(F), made |-> UNION { {o} \X Made(o, F) : o \in Created(F) }]
  BY DEF Outcomes
<1>3. c.fatal <=> Fatal(F)
  BY <1>2
<1>4. c.made = UNION { {o} \X Made(o, F) : o \in Created(F) }
  BY <1>2
<1>5. SUFFICES ASSUME ~Fatal(F), held' = held \cup { <<m[1], m[2], starts>> : m \in c.made }
               PROVE  Kept'
  BY <1>1, <1>3 DEF Kept
<1>6. F \in SUBSET FailPoint
  BY DEF Failures
<1>7. \A o \in Created(F) : o \in Objects /\ \A p \in F : p[1] = o => p \notin Unchecked
  BY <1>5 DEF Created, Fatal
<1>8. \A o \in Created(F) : \A r \in Made(o, F) : <<o, r, starts>> \in held'
  <2>1. SUFFICES ASSUME NEW o \in Created(F), NEW r \in Made(o, F)
                 PROVE  <<o, r, starts>> \in held'
    OBVIOUS
  <2>2. <<o, r>> \in c.made
    BY <1>4
  <2>3. QED
    BY <1>5, <2>2
<1>9. \A h \in held' : \/ h \in held
                       \/ \E o \in Created(F) : \E r \in Made(o, F) : h = <<o, r, starts>>
  <2>1. SUFFICES ASSUME NEW h \in held', h \notin held
                 PROVE  \E o \in Created(F) : \E r \in Made(o, F) : h = <<o, r, starts>>
    OBVIOUS
  <2>2. PICK m \in c.made : h = <<m[1], m[2], starts>>
    BY <1>5, <2>1
  <2>3. PICK o \in Created(F) : m \in {o} \X Made(o, F)
    BY <1>4
  <2>4. m[1] = o /\ m[2] \in Made(o, F)
    BY <2>3
  <2>5. QED
    BY <2>2, <2>4
<1>10. \A o \in Created(F) : Failed(o, F) = {} => Exists(o)'
  <2>1. SUFFICES ASSUME NEW o \in Created(F), Failed(o, F) = {} PROVE Exists(o)'
    OBVIOUS
  <2>2. LastStep(o) \in Made(o, F) /\ LastStep(o) \in Whole
    BY <1>6, <1>7, <2>1, MadeWhole, StepsOf
  <2>3. <<o, LastStep(o), starts'>> \in held'
    BY <1>8, <2>2
  <2>4. QED
    BY <2>2, <2>3 DEF Exists, Whole
<1>11. ASSUME NEW h \in held', h[2] \notin Lost PROVE Owned(h)'
  <2>0. PICK o \in Created(F) : \E r \in Made(o, F) : h = <<o, r, starts>>
    BY <1>9, <1>11
  <2>1. PICK r \in Made(o, F) : h = <<o, r, starts>>
    BY <2>0
  <2>2. h[1] = o /\ h[2] = r /\ h = <<h[1], h[2], starts'>>
    BY <2>1
  <2>3. Failed(o, F) = {} /\ r \in Freed(o) /\ o \in Objects
    BY <1>6, <1>7, <1>11, <2>2, MadeWhole
  <2>4. Exists(o)'
    BY <1>10, <2>3
  <2>5. QED
    BY <2>2, <2>3, <2>4 DEF Owned
<1>12. Exists("vreasm")'
  <2>1. "vreasm" \in Created(F) /\ Steps["vreasm"] = <<"reassembler">> /\ Len(Steps["vreasm"]) = 1
    BY DEF Created, InPipe, Objects, Steps
  <2>2. \A p \in FailPoint : p[1] = "vreasm" => p = <<"vreasm", 1>>
    <3>1. SUFFICES ASSUME NEW p \in FailPoint, p[1] = "vreasm" PROVE p = <<"vreasm", 1>>
      OBVIOUS
    <3>2. PICK q \in Objects : p \in {q} \X (1..Len(Steps[q]))
      BY DEF FailPoint
    <3>3. p[1] = q /\ p[2] \in 1..Len(Steps[q]) /\ p = <<p[1], p[2]>>
      BY <3>2
    <3>4. Len(Steps[q]) = 1
      BY <2>1, <3>1, <3>3
    <3>5. QED
      BY <3>1, <3>3, <3>4
  <2>3. Failed("vreasm", F) = {}
    BY <1>6, <1>7, <2>1, <2>2 DEF Failed, Unchecked
  <2>4. QED
    BY <1>10, <2>1, <2>3
<1>13. ASSUME NEW o \in InPipe, Exists(o)' PROVE Exists("pipeline")'
  <2>1. PICK w \in Whole : <<o, w, starts'>> \in held'
    BY <1>13 DEF Exists, Whole
  <2>2. w \notin Lost
    BY <2>1 DEF Whole, Lost
  <2>3. <<o, w, starts'>> \notin held
    BY <2>2
  <2>4. PICK q \in Created(F) : \E r \in Made(q, F) : <<o, w, starts'>> = <<q, r, starts>>
    BY <1>9, <2>1, <2>3
  <2>5. o \in Created(F)
    BY <2>4
  <2>6. Failed("pipeline", F) = {} /\ "pipeline" \in Created(F)
    BY <1>13, <2>5 DEF Created, InPipe, Objects, Steps
  <2>7. QED
    BY <1>10, <2>6
<1>14. QED
  BY <1>11, <1>12, <1>13 DEF Kept

-----------------------------------------------------------------------------
LEMMA OfElements ==
    ASSUME NEW o, NEW R, NEW h \in Of(o, R)
    PROVE  h = <<h[1], h[2], starts>> /\ h[1] = o /\ h[2] \in R
<1>1. PICK r \in R : h = <<o, r, starts>>
  BY DEF Of
<1>2. QED
  BY <1>1

(* What a turn adds belongs to objects that are there.                     *)
LEMMA TurnKeeps ==
    ASSUME Kept, Turn
    PROVE  Kept'
<1>1. /\ crash = "no" /\ pc = "streaming" /\ Exists("pipeline")
      /\ pc' = pc /\ starts' = starts /\ crash' = crash
  BY DEF Turn, vars
<1>2. PICK h1 \in Collected(held) : \E h2 \in Pictured(h1) : \E h3 \in Shown(h2) : held' \in Heard(h3)
  BY DEF Turn
<1>3. PICK h2 \in Pictured(h1) : \E h3 \in Shown(h2) : held' \in Heard(h3)
  BY <1>2
<1>4. PICK h3 \in Shown(h2) : held' \in Heard(h3)
  BY <1>3
<1>5. /\ \A h \in held : h[2] \in Lost \/ Owned(h)
      /\ Exists("vreasm")
  BY <1>1 DEF Kept
<1> DEFINE New(h) == /\ h = <<h[1], h[2], starts>>
                     /\ \/ h[1] = "vreasm" /\ h[2] \in {"frame", "lost frame"}
                        \/ h[1] = "video" /\ h[2] = "picture" /\ Exists("video")
                        \/ h[1] = "jitter" /\ h[2] \in {"queue", "luma"} /\ Exists("jitter")
                        \/ h[1] = "audio" /\ h[2] = "pcm" /\ Exists("audio")
                        \/ h[1] = "playback" /\ h[2] = "staging" /\ Exists("playback")
           Stays(h) == h[2] \in Whole
<1>6. /\ \A h \in h1 : h \in held \/ New(h)
      /\ \A h \in held : Stays(h) => h \in h1
  <2>1. \/ h1 = held
        \/ h1 = held \cup Of("vreasm", {"frame"})
        \/ h1 = (held \ Of("vreasm", {"frame"})) \cup Of("vreasm", {"lost frame"})
    BY <1>2 DEF Collected
  <2>2. \A h \in Of("vreasm", {"frame"}) : New(h) /\ ~Stays(h)
    BY OfElements DEF Whole
  <2>3. \A h \in Of("vreasm", {"lost frame"}) : New(h)
    BY OfElements
  <2>4. QED
    BY <2>1, <2>2, <2>3
<1>7. /\ \A h \in h2 : h \in h1 \/ New(h)
      /\ \A h \in h1 : h \in h2
  <2>1. CASE h2 = h1
    BY <2>1
  <2>2. ASSUME h2 # h1
        PROVE  /\ Exists("video")
               /\ \E q \in SUBSET {"queue", "luma"} :
                      /\ q # {} => Exists("jitter")
                      /\ h2 = h1 \cup Of("video", {"picture"}) \cup Of("jitter", q)
    BY <1>3, <2>2 DEF Pictured
  <2>3. CASE h2 # h1
    <3>1. PICK q \in SUBSET {"queue", "luma"} :
             /\ q # {} => Exists("jitter")
             /\ h2 = h1 \cup Of("video", {"picture"}) \cup Of("jitter", q)
      BY <2>2, <2>3
    <3>0. Exists("video")
      BY <2>2, <2>3
    <3>2. \A h \in Of("video", {"picture"}) : New(h)
      BY <3>0, OfElements
    <3>3. \A h \in Of("jitter", q) : New(h)
      BY <3>1, OfElements
    <3>4. QED
      BY <3>1, <3>2, <3>3
  <2>4. QED
    BY <2>1, <2>3
<1>8. /\ \A h \in h3 : h \in h2
      /\ \A h \in h2 : Stays(h) => h \in h3
  <2>1. h3 = h2 \/ h3 = h2 \ Of("jitter", {"queue"})
    BY <1>4 DEF Shown
  <2>2. \A h \in Of("jitter", {"queue"}) : ~Stays(h)
    BY OfElements DEF Whole
  <2>3. QED
    BY <2>1, <2>2
<1>9. /\ \A h \in held' : h \in h3 \/ New(h)
      /\ \A h \in h3 : h \in held'
  <2>1. CASE held' = h3
    BY <2>1
  <2>2. ASSUME held' # h3
        PROVE  /\ Exists("audio")
               /\ \E q \in SUBSET {"staging"} :
                      /\ q # {} => Exists("playback")
                      /\ held' = h3 \cup Of("audio", {"pcm"}) \cup Of("playback", q)
    BY <1>4, <2>2 DEF Heard
  <2>3. CASE held' # h3
    <3>1. PICK q \in SUBSET {"staging"} :
             /\ q # {} => Exists("playback")
             /\ held' = h3 \cup Of("audio", {"pcm"}) \cup Of("playback", q)
      BY <2>2, <2>3
    <3>0. Exists("audio")
      BY <2>2, <2>3
    <3>2. \A h \in Of("audio", {"pcm"}) : New(h)
      BY <3>0, OfElements
    <3>3. \A h \in Of("playback", q) : New(h)
      BY <3>1, OfElements
    <3>4. QED
      BY <3>1, <3>2, <3>3
  <2>4. QED
    BY <2>1, <2>3
<1>10. \A h \in held' : h \in held \/ New(h)
  BY <1>6, <1>7, <1>8, <1>9
<1>11. \A h \in held : Stays(h) => h \in held'
  BY <1>6, <1>7, <1>8, <1>9
<1>12. \A o : Exists(o) => Exists(o)'
  <2>1. SUFFICES ASSUME NEW o, Exists(o) PROVE Exists(o)'
    OBVIOUS
  <2>2. PICK w \in Whole : <<o, w, starts>> \in held
    BY <2>1 DEF Exists
  <2>3. <<o, w, starts>> \in held'
    BY <1>11, <2>2
  <2>4. QED
    BY <1>1, <2>2, <2>3 DEF Exists, Whole
<1>13. \A o : o \in InPipe /\ Exists(o)' => Exists("pipeline")'
  BY <1>1, <1>12
<1>14. ASSUME NEW h, New(h), h[2] \notin Lost PROVE Owned(h)'
  <2>1. h = <<h[1], h[2], starts'>> /\ h[1] \in Objects
    BY <1>1, <1>14 DEF Objects, Steps
  <2>2. Exists(h[1])'
    BY <1>5, <1>12, <1>14
  <2>3. h[2] \in Freed(h[1])
    BY <1>14 DEF Freed, VideoFreed, AudioFreed, JitterFreed, PlaybackFreed, ReasmFreed, Lost, Renderers
  <2>4. QED
    BY <2>1, <2>2, <2>3 DEF Owned
<1>15. ASSUME NEW h \in held', h[2] \notin Lost PROVE Owned(h)'
  <2>1. CASE h \in held
    <3>1. Owned(h)
      BY <1>5, <1>15, <2>1
    <3>2. QED
      BY <1>1, <1>12, <3>1 DEF Owned
  <2>2. QED
    BY <1>10, <1>14, <1>15, <2>1
<1>16. QED
  BY <1>1, <1>5, <1>12, <1>13, <1>15 DEF Kept

LEMMA StreamNextKeeps ==
    ASSUME Kept, [StreamNext]_allVars
    PROVE  Kept'
<1>1. CASE Next /\ ObjectsFollow
  <2>1. /\ crash = "no"
        /\ pc = "idle" \/ starts' = starts
        /\ pc' = "streaming" => pc \in {"udp", "streaming"}
        /\ pc = "streaming" => pc' \in {"idle", "streaming"}
    BY <1>1, UpAndDown DEF ObjectsFollow
  <2>2. pc # "streaming" => \A h \in held : h[2] \in Lost
    BY <2>1 DEF Kept
  <2>3. CASE pc = "udp" /\ pc' = "streaming"
    <3>1. Create /\ starts' = starts
      BY <1>1, <2>1, <2>3 DEF ObjectsFollow
    <3>2. QED
      BY <2>2, <2>3, <3>1, CreateKeeps
  <2>4. CASE pc = "streaming" /\ pc' = "idle"
    <3>1. held' = held \ UNION { Of(o, Freed(o)) : o \in Destroyed }
      BY <1>1, <2>4 DEF ObjectsFollow, Destroy
    <3>2. ASSUME NEW h \in held', h[2] \notin Lost PROVE FALSE
      <4>1. Owned(h)
        BY <2>1, <2>4, <3>1, <3>2 DEF Kept
      <4>2. h[1] \in Destroyed
        BY <2>1, <2>4, <4>1 DEF Kept, Owned, Destroyed
      <4>3. h \in Of(h[1], Freed(h[1]))
        BY <4>1 DEF Owned, Of
      <4>4. QED
        BY <3>1, <3>2, <4>2, <4>3
    <3>3. QED
      BY <2>4, <3>2 DEF Kept
  <2>5. CASE pc = "streaming" /\ pc' = "streaming"
    <3>1. UNCHANGED <<held, crash, starts>>
      BY <1>1, <2>1, <2>5 DEF ObjectsFollow
    <3>2. QED
      BY <2>5, <3>1 DEF Kept, Owned, Exists
  <2>6. CASE pc # "streaming" /\ pc' # "streaming"
    <3>1. UNCHANGED <<held, crash>>
      BY <1>1, <2>6 DEF ObjectsFollow
    <3>2. QED
      BY <2>2, <2>6, <3>1 DEF Kept
  <2>7. QED
    BY <2>1, <2>3, <2>4, <2>5, <2>6
<1>2. CASE Turn
  BY <1>2, TurnKeeps
<1>3. CASE TurnOutOfMemory
  BY <1>3 DEF TurnOutOfMemory, Kept
<1>4. CASE UNCHANGED allVars
  BY <1>4 DEF allVars, vars, Kept, Owned, Exists
<1>5. QED
  BY <1>1, <1>2, <1>3, <1>4 DEF StreamNext

LEMMA StreamInv == StreamSpec => [](Inv /\ Kept)
<1>1. StreamInit => Inv /\ Kept
  <2>1. ASSUME StreamInit PROVE Inv /\ Kept
    <3>1. Init /\ held = {} /\ pc = "idle"
      BY <2>1 DEF StreamInit, Init
    <3>2. QED
      BY <3>1, InitInv DEF Kept
  <2>2. QED
    BY <2>1
<1>2. (Inv /\ Kept) /\ [StreamNext]_allVars => (Inv /\ Kept)'
  <2>1. [StreamNext]_allVars => [Next]_vars
    BY DEF StreamNext, Turn, TurnOutOfMemory, allVars
  <2>2. QED
    BY <2>1, NextInv, StreamNextKeeps
<1>3. QED
  BY <1>1, <1>2, PTL DEF StreamSpec

(* The sessions with their parts are still the sessions of Session. *)
THEOREM StreamingKeepsSession ==
    StreamSpec => [](/\ TypeOK /\ BuffersKept /\ ProceedsOnlyIfGranted
                     /\ ClosedWhenIdle /\ LeakedPortIsFatal)
  BY StreamInv, InvImplies, PTL

(* Whichever constructors fail and however often memory runs out, an ended *)
(* session leaves nothing behind but what the program has lost its pointer *)
(* to, and nothing half-made is in a running one.                          *)
THEOREM OnlyLostIsLeftCorrect == StreamSpec => []OnlyLostIsLeft
<1>1. Kept => OnlyLostIsLeft
  BY DEF Kept, Owned, OnlyLostIsLeft
<1>2. QED
  BY StreamInv, <1>1, PTL
=============================================================================
