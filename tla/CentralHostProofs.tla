------------------------- MODULE CentralHostProofs -------------------------
(***************************************************************************)
(* What the discovery of the central guarantees for every number of        *)
(* devices and characteristics, with late answers and with links that drop *)
(* and are made under a discovery that goes on; and what the dongle's      *)
(* buttons, and the updates it gives to devices, guarantee.                *)
(***************************************************************************)
EXTENDS CentralHost, TLAPS

Entry == [dev : Devices, chr : Char, ref : 0 .. Chars]

\* The device the link is with, as the controller and the host know it.
LinkKnown ==
  /\ link \in {"init", "conn"} => peer \in Devices
  /\ cur.up <=> link = "conn"
  /\ link = "conn" => cur.mac = peer
  /\ link # "conn" => air = <<>>

\* What a discovery has found is of the device it asks: an answer it has not
\* looked at came from there, and so will one that is still to come.
Found(d) == \A i \in DOMAIN db : db[i].dev = d
Fresh ==
  /\ dat.op \in Ops => dat.at \in Char /\ dat.dev \in Devices
  /\ run # Idle /\ busy = "none" => Found(cur.mac) /\ (dat.op \in Ops => dat.dev = cur.mac)
  /\ run # Idle /\ air # <<>> => Found(cur.mac)

IInv == TypeOK /\ LinkKnown /\ Fresh /\ PendingRuns /\ SavedOne

(***************************************************************************)
(* The entries of a discovery.                                             *)
(***************************************************************************)
\* A handle that is looked up is none, or is of an entry.
LEMMA FoundHandle ==
  ASSUME NEW found \in Seq(Entry), NEW c, NEW h, NEW d,
         \A i \in DOMAIN found : found[i].dev = d,
         IsHandle(found, c, h), h # NoHandle
  PROVE  h.dev = d
  BY DEF IsHandle

\* The reference of an entry is set.
LEMMA RefSet ==
  ASSUME NEW found \in Seq(Entry), NEW i \in Nat, NEW r \in 0 .. Chars
  PROVE  /\ [found EXCEPT ![i].ref = r] \in Seq(Entry)
         /\ \A j \in DOMAIN found : [found EXCEPT ![i].ref = r][j].dev = found[j].dev
         /\ DOMAIN [found EXCEPT ![i].ref = r] = DOMAIN found
<1> DEFINE new == [found EXCEPT ![i].ref = r]
<1>1. DOMAIN new = 1 .. Len(found) /\ DOMAIN found = 1 .. Len(found) /\ Len(found) \in Nat
  OBVIOUS
<1>2. \A j \in 1 .. Len(found) : new[j] = IF j = i THEN [found[j] EXCEPT !.ref = r] ELSE found[j]
  OBVIOUS
<1>3. \A j \in 1 .. Len(found) : found[j] \in Entry
  OBVIOUS
<1>4. \A j \in 1 .. Len(found) : new[j] \in Entry /\ new[j].dev = found[j].dev
  BY <1>2, <1>3 DEF Entry
<1>5. new \in [1 .. Len(found) -> Entry]
  BY <1>1, <1>4
<1>6. new \in Seq(Entry)
  <2> HIDE DEF new
  <2>1. QED
    BY <1>1, <1>5
<1>7. QED
  BY <1>1, <1>4, <1>6

\* An entry is added.
LEMMA Added ==
  ASSUME NEW found \in Seq(Entry), NEW e \in Entry
  PROVE  /\ Append(found, e) \in Seq(Entry)
         /\ \A j \in DOMAIN Append(found, e) :
              Append(found, e)[j] = e \/ (j \in DOMAIN found /\ Append(found, e)[j] = found[j])
  OBVIOUS

(***************************************************************************)
(* The steps.                                                              *)
(***************************************************************************)
\* What stays when a request is pushed, and db' is of the device asked.
LEMMA AskStep ==
  ASSUME IInv, UNCHANGED <<radio, cur, smp, sdp, service, saved>>,
         NEW op \in Ops, NEW at \in 0 .. Chars, NEW entry \in Nat,
         Ask(op, at, entry),
         db' \in Seq(Entry), \A i \in DOMAIN db' : db'[i].dev = cur.mac
  PROVE  IInv'
<1> USE DEF IInv, Ask
<1>1. air' \in Seq(Request)
  <2>1. [op |-> op, at |-> at] \in Request
    BY DEF Request
  <2>2. QED
    BY <2>1 DEF TypeOK
<1>2. TypeOK'
  <2>1. smp' \in BOOLEAN /\ sdp' \in BOOLEAN /\ service' \in BOOLEAN
    BY Zenon DEF TypeOK
  <2>2. 0 \in 0 .. Chars
    BY CentralHostAssumption
  <2>3. /\ link' \in {"scan", "init", "conn"}
        /\ peer' \in Devices \cup {NoDevice}
        /\ cur' \in [up : BOOLEAN, mac : Devices \cup {NoDevice}]
        /\ saved' \in [mac : Devices \cup {NoDevice}, handles : [Char -> Handle]]
    BY Zenon DEF TypeOK, radio
  <2>4. /\ busy' \in Ops \cup {"none"}
        /\ armed' \in BOOLEAN
        /\ dat' \in [op : Ops \cup {"request", "error"}, dev : Devices \cup {NoDevice}, at : 0 .. Chars]
        /\ run' \in [at : Ops \cup {"idle"}, entry : Nat]
    BY <2>2 DEF Asked, Message
  <2>5. QED
    BY <1>1, <2>1, <2>3, <2>4, Zenon DEF TypeOK, Entry
<1>3. run' # Idle /\ busy' # "none"
  BY DEF Idle, Ops
<1>4. LinkKnown'
  BY DEF LinkKnown, radio
<1>5. Fresh'
  <2>1. dat'.op \notin Ops
    BY DEF Asked, Message, Ops
  <2>2. QED
    BY <1>3, <2>1 DEF Fresh, Found
<1>6. PendingRuns' /\ SavedOne'
  BY <1>3 DEF PendingRuns, SavedOne
<1>7. QED
  BY <1>2, <1>4, <1>5, <1>6

\* A discovery ends; what it saves is of one device.
LEMMA EndStep ==
  ASSUME IInv, UNCHANGED <<radio, cur, smp, air, busy, armed, dat>>, EndDiscovery,
         db' \in Seq(Entry),
         saved' \in [mac : Devices \cup {NoDevice}, handles : [Char -> Handle]], SavedOne'
  PROVE  IInv'
<1> USE DEF IInv
<1>1. TypeOK'
  <2>1. smp' \in BOOLEAN /\ sdp' \in BOOLEAN /\ service' \in BOOLEAN
    BY Zenon DEF TypeOK, EndDiscovery
  <2>2. run' \in [at : Ops \cup {"idle"}, entry : Nat]
    BY DEF EndDiscovery, Idle
  <2>3. /\ link' \in {"scan", "init", "conn"}
        /\ peer' \in Devices \cup {NoDevice}
        /\ air' \in Seq(Request)
        /\ cur' \in [up : BOOLEAN, mac : Devices \cup {NoDevice}]
        /\ busy' \in Ops \cup {"none"}
        /\ armed' \in BOOLEAN
        /\ dat' \in [op : Ops \cup {"request", "error"}, dev : Devices \cup {NoDevice}, at : 0 .. Chars]
    BY Zenon DEF TypeOK, radio
  <2>4. QED
    BY <2>1, <2>2, <2>3, Zenon DEF TypeOK, Entry
<1>2. LinkKnown'
  BY DEF LinkKnown, radio
<1>3. Fresh'
  BY DEF Fresh, EndDiscovery
<1>4. PendingRuns'
  BY DEF PendingRuns, EndDiscovery
<1>5. QED
  BY <1>1, <1>2, <1>3, <1>4

LEMMA SaveStep ==
  ASSUME IInv, UNCHANGED <<radio, cur, smp>>,
         NEW found \in Seq(Entry), \A i \in DOMAIN found : found[i].dev = cur.mac,
         db' = found, SaveHandles(found)
  PROVE  IInv'
<1>1. PICK h \in [Char -> Handle] :
        /\ \A c \in Char : IsHandle(found, c, h[c])
        /\ saved' = [mac |-> cur.mac, handles |-> h]
  BY DEF SaveHandles
<1>2. saved' \in [mac : Devices \cup {NoDevice}, handles : [Char -> Handle]]
  BY <1>1 DEF IInv, TypeOK
<1>3. \A c \in Char : h[c] # NoHandle => h[c].dev = cur.mac
  BY <1>1, FoundHandle
<1>4. SavedOne'
  BY <1>1, <1>3 DEF SavedOne
<1>5. QED
  BY <1>2, <1>4, EndStep DEF SaveHandles

LEMMA ReportStep ==
  ASSUME IInv, UNCHANGED <<radio, cur, smp>>,
         NEW found \in Seq(Entry), \A i \in DOMAIN found : found[i].dev = cur.mac,
         db' = found, NEW i \in Nat, NextReport(found, i)
  PROVE  IInv'
<1> DEFINE Rest == {j \in DOMAIN found : j > i /\ found[j].chr \in Reports}
<1>1. CASE Rest = {}
  BY <1>1, SaveStep DEF NextReport
<1>2. CASE Rest # {}
  <2>1. PICK j \in Rest : /\ Ask("info", found[j].chr, j)
                          /\ UNCHANGED <<sdp, service, saved>>
    BY <1>2 DEF NextReport
  <2>2. j \in Nat /\ found[j] \in Entry
    OBVIOUS
  <2>3. found[j].chr \in 0 .. Chars
    BY <2>2 DEF Entry, Char
  <2>4. "info" \in Ops
    BY DEF Ops
  <2>5. QED
    BY <2>1, <2>2, <2>3, <2>4, AskStep
<1>3. QED
  BY <1>1, <1>2

LEMMA StartStep ==
  ASSUME IInv, StartDiscovery
  PROVE  IInv'
<1>1. CASE cur.up
  <2>1. db' \in Seq(Entry) /\ \A i \in DOMAIN db' : db'[i].dev = cur.mac
    BY <1>1 DEF StartDiscovery
  <2>2. "type" \in Ops /\ 0 \in 0 .. Chars /\ 0 \in Nat
    BY CentralHostAssumption DEF Ops
  <2>3. QED
    BY <1>1, <2>1, <2>2, AskStep DEF StartDiscovery
<1>2. CASE ~ cur.up
  <2>1. db' \in Seq(Entry) /\ SavedOne' /\ saved' \in [mac : Devices \cup {NoDevice}, handles : [Char -> Handle]]
    BY <1>2 DEF StartDiscovery, IInv, TypeOK, SavedOne, Entry
  <2>2. QED
    BY <1>2, <2>1, EndStep DEF StartDiscovery
<1>3. QED
  BY <1>1, <1>2

LEMMA NextRequestStep ==
  ASSUME IInv, NextRequest
  PROVE  IInv'
<1>1. /\ UNCHANGED <<radio, cur, smp>>
      /\ run.entry \in Nat
      /\ db \in Seq(Entry)
      /\ \A i \in DOMAIN db : db[i].dev = cur.mac
  BY DEF NextRequest, IInv, TypeOK, Fresh, Found, Entry
<1>2. dat.op \in Ops => dat.at \in Char /\ dat.dev = cur.mac /\ dat.dev \in Devices
  BY DEF NextRequest, IInv, Fresh
<1>3. /\ Char \subseteq 0 .. Chars /\ 0 \in 0 .. Chars /\ 0 \in Nat
      /\ "type" \in Ops /\ "info" \in Ops /\ "read" \in Ops
  BY CentralHostAssumption DEF Ops, Char
<1>4. CASE /\ run.at = "type" /\ dat.op = "type"
           /\ db' = Append(db, [dev |-> dat.dev, chr |-> dat.at, ref |-> 0])
           /\ Ask("type", dat.at, 0)
           /\ UNCHANGED <<sdp, service, saved>>
  <2> DEFINE e == [dev |-> dat.dev, chr |-> dat.at, ref |-> 0]
  <2>1. e \in Entry /\ e.dev = cur.mac
    BY <1>2, <1>3, <1>4 DEF Entry
  <2>2. db' \in Seq(Entry)
    BY <1>1, <1>4, <2>1, Added
  <2>3. \A i \in DOMAIN db' : db'[i] = e \/ (i \in DOMAIN db /\ db'[i] = db[i])
    BY <1>1, <1>4, <2>1, Added
  <2> HIDE DEF e
  <2>4. \A i \in DOMAIN db' : db'[i].dev = cur.mac
    BY <1>1, <2>1, <2>3
  <2>5. dat.at \in 0 .. Chars
    BY <1>2, <1>3, <1>4
  <2>6. QED
    BY <1>1, <1>3, <1>4, <2>2, <2>4, <2>5, AskStep
<1>5. CASE /\ run.at = "type" /\ dat.op # "type"
           /\ NextReport(db, 0)
           /\ UNCHANGED db
  BY <1>1, <1>3, <1>5, ReportStep
<1>6. CASE /\ run.at = "info" /\ dat.op = "info"
           /\ Ask("read", dat.at, run.entry)
           /\ UNCHANGED <<sdp, service, saved, db>>
  BY <1>1, <1>2, <1>3, <1>6, AskStep
<1>7. CASE /\ run.at = "info" /\ dat.op # "info"
           /\ NextReport(db, run.entry)
           /\ UNCHANGED db
  BY <1>1, <1>7, ReportStep
<1>8. CASE /\ run.at = "read"
           /\ \E found \in {IF dat.op = "read" THEN [db EXCEPT ![run.entry].ref = dat.at] ELSE db} :
                /\ db' = found
                /\ NextReport(found, run.entry)
  <2>1. CASE dat.op = "read"
    <3> DEFINE new == [db EXCEPT ![run.entry].ref = dat.at]
    <3>1. db' = new /\ NextReport(new, run.entry)
      BY <1>8, <2>1
    <3>2. dat.at \in 0 .. Chars
      BY <1>2, <1>3, <2>1
    <3>3. /\ new \in Seq(Entry) /\ DOMAIN new = DOMAIN db
          /\ \A j \in DOMAIN db : new[j].dev = db[j].dev
      BY <1>1, <3>2, RefSet
    <3> HIDE DEF new
    <3>4. \A j \in DOMAIN new : new[j].dev = cur.mac
      BY <1>1, <3>3
    <3>5. QED
      BY <1>1, <3>1, <3>3, <3>4, ReportStep
  <2>2. CASE dat.op # "read"
    BY <1>1, <1>8, <2>2, ReportStep
  <2>3. QED
    BY <2>1, <2>2
<1>9. QED
  BY <1>4, <1>5, <1>6, <1>7, <1>8 DEF NextRequest

LEMMA GiveUpStep ==
  ASSUME IInv, GiveUp
  PROVE  IInv'
<1>1. db' \in Seq(Entry) /\ SavedOne' /\ saved' \in [mac : Devices \cup {NoDevice}, handles : [Char -> Handle]]
  BY DEF GiveUp, IInv, TypeOK, SavedOne, Entry
<1>2. QED
  BY <1>1, EndStep DEF GiveUp

LEMMA AnswerType ==
  ASSUME NEW r \in Request, NEW d \in Devices
  PROVE  /\ Answer(r, d) \in [op : Ops \cup {"error"}, dev : {d}, at : 0 .. Chars]
         /\ Answer(r, d).op \in Ops => Answer(r, d).at \in Char
<1>1. Chars \in Nat /\ Reports \subseteq Char
  BY CentralHostAssumption DEF Char
<1>2. QED
  BY <1>1 DEF Answer, Message, Request, Ops, Char

LEMMA PeerAnswersStep ==
  ASSUME IInv, PeerAnswers
  PROVE  IInv'
<1> USE DEF IInv
<1>1. /\ link = "conn" /\ air # <<>> /\ air \in Seq(Request) /\ air' = Tail(air)
      /\ UNCHANGED <<radio, cur, smp, sdp, service, armed, run, db, saved>>
  BY DEF PeerAnswers, TypeOK
<1>2. Head(air) \in Request /\ air' \in Seq(Request)
  BY <1>1
<1>3. peer \in Devices /\ cur.mac = peer
  BY <1>1 DEF LinkKnown
<1> DEFINE a == Answer(Head(air), peer)
<1>4. /\ a \in [op : Ops \cup {"error"}, dev : {peer}, at : 0 .. Chars]
      /\ a.op \in Ops => a.at \in Char
  BY <1>2, <1>3, AnswerType
<1>5. (dat' = a /\ busy' = "none") \/ UNCHANGED <<dat, busy>>
  BY DEF PeerAnswers
<1> HIDE DEF a
<1>6. LinkKnown' /\ PendingRuns' /\ SavedOne'
  BY <1>1 DEF LinkKnown, PendingRuns, SavedOne, radio
<1>7. CASE dat' = a /\ busy' = "none"
  <2>1. TypeOK'
    BY <1>1, <1>2, <1>3, <1>4, <1>7 DEF TypeOK, radio
  <2>2. Fresh'
    BY <1>1, <1>3, <1>4, <1>7 DEF Fresh, Found
  <2>3. QED
    BY <1>6, <2>1, <2>2
<1>8. CASE UNCHANGED <<dat, busy>>
  <2>1. TypeOK'
    BY <1>1, <1>2, <1>8 DEF TypeOK, radio
  <2>2. Fresh'
    BY <1>1, <1>8 DEF Fresh, Found
  <2>3. QED
    BY <1>6, <2>1, <2>2
<1>9. QED
  BY <1>5, <1>7, <1>8

LEMMA LinkStep ==
  ASSUME IInv, (\E d \in Devices : Advertises(d)) \/ Establish \/ Disconnect
  PROVE  IInv'
<1> USE DEF IInv
<1>1. ASSUME NEW d \in Devices, Advertises(d)
      PROVE  IInv'
  BY <1>1 DEF Advertises, TypeOK, LinkKnown, Fresh, Found, PendingRuns, SavedOne
<1>2. ASSUME Establish
      PROVE  IInv'
  <2>1. peer \in Devices /\ air = <<>> /\ peer' = peer
    BY <1>2 DEF Establish, LinkKnown
  <2>2. TypeOK'
    BY <1>2, <2>1 DEF Establish, RegisterIfNew, TypeOK
  <2>3. LinkKnown'
    BY <1>2, <2>1 DEF Establish, LinkKnown
  <2>4. Fresh'
    BY <1>2, <2>1 DEF Establish, Fresh, Found
  <2>5. PendingRuns' /\ SavedOne'
    BY <1>2 DEF Establish, RegisterIfNew, PendingRuns, SavedOne
  <2>6. QED
    BY <2>2, <2>3, <2>4, <2>5
<1>3. ASSUME Disconnect
      PROVE  IInv'
  <2>1. cur' \in [up : BOOLEAN, mac : Devices \cup {NoDevice}] /\ cur'.mac = cur.mac /\ ~ cur'.up
    BY <1>3 DEF Disconnect, TypeOK
  <2>2. TypeOK'
    <3>1. /\ smp' \in BOOLEAN /\ sdp' \in BOOLEAN /\ service' \in BOOLEAN
          /\ armed' \in BOOLEAN
      BY <1>3, Zenon DEF Disconnect, TypeOK
    <3>2. /\ link' \in {"scan", "init", "conn"}
          /\ peer' \in Devices \cup {NoDevice}
          /\ air' \in Seq(Request)
      BY <1>3 DEF Disconnect
    <3>3. /\ busy' \in Ops \cup {"none"}
          /\ dat' \in [op : Ops \cup {"request", "error"}, dev : Devices \cup {NoDevice}, at : 0 .. Chars]
          /\ run' \in [at : Ops \cup {"idle"}, entry : Nat]
          /\ db' \in Seq([dev : Devices, chr : Char, ref : 0 .. Chars])
          /\ saved' \in [mac : Devices \cup {NoDevice}, handles : [Char -> Handle]]
      BY <1>3, Zenon DEF Disconnect, TypeOK
    <3>4. QED
      BY <2>1, <3>1, <3>2, <3>3, Zenon DEF TypeOK
  <2>3. LinkKnown'
    BY <1>3, <2>1 DEF Disconnect, LinkKnown
  <2>4. Fresh'
    BY <1>3, <2>1 DEF Disconnect, Fresh, Found
  <2>5. PendingRuns' /\ SavedOne'
    BY <1>3 DEF Disconnect, PendingRuns, SavedOne
  <2>6. QED
    BY <2>2, <2>3, <2>4, <2>5
<1>4. QED
  BY <1>1, <1>2, <1>3

\* A step that changes the pending flags only.
LEMMA FlagsStep ==
  ASSUME IInv, UNCHANGED <<link, peer, air, cur, busy, armed, dat, run, db, saved>>,
         smp' \in BOOLEAN, sdp' \in BOOLEAN, service' \in BOOLEAN, PendingRuns'
  PROVE  IInv'
<1> USE DEF IInv
<1>1. TypeOK'
  <2>1. /\ link' = link /\ peer' = peer /\ air' = air /\ cur' = cur /\ busy' = busy
        /\ armed' = armed /\ dat' = dat /\ run' = run /\ db' = db /\ saved' = saved
    OBVIOUS
  <2>2. TypeOK
    OBVIOUS
  <2>3. armed' \in BOOLEAN /\ cur' \in [up : BOOLEAN, mac : Devices \cup {NoDevice}]
    BY <2>1, <2>2, Zenon DEF TypeOK
  <2>4. /\ link' \in {"scan", "init", "conn"}
        /\ peer' \in Devices \cup {NoDevice}
        /\ air' \in Seq(Request)
        /\ busy' \in Ops \cup {"none"}
        /\ dat' \in [op : Ops \cup {"request", "error"}, dev : Devices \cup {NoDevice}, at : 0 .. Chars]
        /\ run' \in [at : Ops \cup {"idle"}, entry : Nat]
        /\ db' \in Seq([dev : Devices, chr : Char, ref : 0 .. Chars])
        /\ saved' \in [mac : Devices \cup {NoDevice}, handles : [Char -> Handle]]
    BY <2>1, <2>2 DEF TypeOK
  <2>5. QED
    BY <2>3, <2>4, Zenon DEF TypeOK
<1>2. LinkKnown' /\ Fresh'
  BY DEF LinkKnown, Fresh, Found
<1>3. SavedOne'
  <2>1. saved' = saved
    OBVIOUS
  <2>2. QED
    BY <2>1, Zenon DEF SavedOne
<1>4. QED
  BY <1>1, <1>2, <1>3

LEMMA PairingStep ==
  ASSUME IInv, Pairing
  PROVE  IInv'
<1>1. ASSUME SmpFinish
      PROVE  IInv'
  <2>1. /\ UNCHANGED <<link, peer, air, cur, busy, armed, dat, run, db, saved>>
        /\ smp' = FALSE
        /\ service' = (service \/ cur.mac # saved.mac)
        /\ sdp' = (cur.mac # saved.mac)
    BY <1>1 DEF SmpFinish, RegisterIfNew, radio
  <2>2. smp' \in BOOLEAN /\ sdp' \in BOOLEAN /\ service' \in BOOLEAN
    BY <2>1, Zenon
  <2>3. sdp' => service'
    BY <2>1, Zenon
  <2>4. PendingRuns'
    BY <2>3, Zenon DEF PendingRuns
  <2>5. QED
    BY <2>1, <2>2, <2>4, FlagsStep
<1>2. ASSUME SmpFail
      PROVE  IInv'
  <2>1. /\ UNCHANGED <<link, peer, air, cur, sdp, service, busy, armed, dat, run, db, saved>>
        /\ smp' = FALSE
    BY <1>2 DEF SmpFail, radio
  <2>2. TypeOK /\ PendingRuns
    BY DEF IInv
  <2>3. sdp' = sdp /\ service' = service /\ run' = run
    BY <2>1
  <2>4. smp' \in BOOLEAN /\ sdp' \in BOOLEAN /\ service' \in BOOLEAN
    BY <2>1, <2>2, <2>3, Zenon DEF TypeOK
  <2>5. PendingRuns'
    BY <2>2, <2>3, Zenon DEF PendingRuns
  <2>6. QED
    BY <2>1, <2>4, <2>5, FlagsStep
<1>3. QED
  BY <1>1, <1>2 DEF Pairing

(***************************************************************************)
(* The theorems.                                                           *)
(***************************************************************************)
LEMMA InitIInv == Init => IInv
<1> SUFFICES ASSUME Init PROVE IInv
  OBVIOUS
<1>1. TypeOK
  <2>1. 0 \in 0 .. Chars
    BY CentralHostAssumption
  <2>2. /\ smp \in BOOLEAN /\ sdp \in BOOLEAN /\ service \in BOOLEAN
        /\ armed \in BOOLEAN
    BY Zenon DEF Init
  <2>3. saved \in [mac : Devices \cup {NoDevice}, handles : [Char -> Handle]]
    BY DEF Init, Handle
  <2>4. /\ dat \in [op : Ops \cup {"request", "error"}, dev : Devices \cup {NoDevice}, at : 0 .. Chars]
        /\ run \in [at : Ops \cup {"idle"}, entry : Nat]
        /\ air \in Seq(Request)
        /\ db \in Seq([dev : Devices, chr : Char, ref : 0 .. Chars])
    BY <2>1 DEF Init, Asked, Message, Idle
  <2>5. link \in {"scan", "init", "conn"} /\ peer \in Devices \cup {NoDevice} /\ busy \in Ops \cup {"none"}
    BY DEF Init
  <2>6. cur \in [up : BOOLEAN, mac : Devices \cup {NoDevice}]
    BY DEF Init
  <2>7. QED
    BY <2>2, <2>3, <2>4, <2>5, <2>6, Zenon DEF TypeOK
<1>2. LinkKnown /\ PendingRuns /\ SavedOne
  BY DEF Init, LinkKnown, PendingRuns, SavedOne
<1>3. Fresh
  BY DEF Init, Fresh, Asked, Message, Ops
<1>4. QED
  BY <1>1, <1>2, <1>3 DEF IInv

LEMMA NextIInv == IInv /\ [Next]_vars => IInv'
<1> SUFFICES ASSUME IInv, [Next]_vars PROVE IInv'
  OBVIOUS
<1>1. CASE Discovery
  BY <1>1, StartStep, NextRequestStep, GiveUpStep DEF Discovery
<1>2. CASE PeerAnswers
  BY <1>2, PeerAnswersStep
<1>3. CASE (\E d \in Devices : Advertises(d)) \/ Establish \/ Disconnect
  BY <1>3, LinkStep
<1>4. CASE Pairing
  BY <1>4, PairingStep
<1>5. CASE UNCHANGED vars
  BY <1>5 DEF vars, IInv, TypeOK, LinkKnown, Fresh, Found, PendingRuns, SavedOne
<1>6. QED
  BY <1>1, <1>2, <1>3, <1>4, <1>5 DEF Next

LEMMA Invariant == Spec => []IInv
<1>1. QED
  BY InitIInv, NextIInv, PTL DEF Spec

\* The variables of the central stay in their types.
THEOREM TypeCorrect == Spec => []TypeOK
<1>1. IInv => TypeOK
  BY DEF IInv
<1>2. QED
  BY <1>1, Invariant, PTL

\* Whenever the central is kept from other devices by a pending discovery, one
\* runs or is registered to run.
THEOREM PendingDiscoveryRuns == Spec => []PendingRuns
<1>1. IInv => PendingRuns
  BY DEF IInv
<1>2. QED
  BY <1>1, Invariant, PTL

\* The handles saved are all of the device saved with them, whatever links
\* drop and are made while they are looked for.
THEOREM HandlesOfOneDevice == Spec => []SavedOne
<1>1. IInv => SavedOne
  BY DEF IInv
<1>2. QED
  BY <1>1, Invariant, PTL

-----------------------------------------------------------------------------
(***************************************************************************)
(* The dongle's buttons and the end of a pairing.                          *)
(***************************************************************************)
CONSTANTS TwoButtons, Careless, Updates
VARIABLES
  btn_down, btn_samples, btn_stable, btn_pairing, btn_unpairing, btn_flags, btn_run,
  btn_recent, btn_mode, btn_cmd, btn_polled, btn_target, btn_link, btn_closing,
  btn_bonds, btn_wants

Btn == INSTANCE PairButtons WITH
  down <- btn_down, samples <- btn_samples, stable <- btn_stable, pairing <- btn_pairing,
  unpairing <- btn_unpairing, flags <- btn_flags, run <- btn_run, recent <- btn_recent,
  mode <- btn_mode, cmd <- btn_cmd, polled <- btn_polled, target <- btn_target,
  link <- btn_link, closing <- btn_closing, bonds <- btn_bonds, wants <- btn_wants

\* A request to end a pairing is of the button, or of the device connected and not yet
\* sent away; a device is connected to only when none is.
AskInv ==
  /\ btn_target = NoDevice \/ btn_link = NoDevice
  /\ btn_unpairing => \/ "unpair" \in btn_flags
                      \/ btn_link # NoDevice /\ btn_link \in btn_wants /\ ~ btn_closing
  /\ btn_pairing => "pair" \in btn_flags
  /\ btn_stable = {} => btn_flags = {}

ButtonInv == Btn!TypeOK /\ AskInv

\* With one button at a time: the one that is down is the one last taken to be down.
OneInv ==
  /\ btn_flags \subseteq btn_stable
  /\ \A b \in btn_down : btn_stable \subseteq {b} /\ btn_down = {b}
  /\ \A b \in btn_stable : btn_stable = {b}

-----------------------------------------------------------------------------
LEMMA ButtonTypes ==
  ASSUME Btn!PairButtonsAssumption, Btn!TypeOK, [Btn!Next]_(Btn!vars)
  PROVE  Btn!TypeOK'
<1> USE DEF Btn!TypeOK
<1>1. CASE Btn!proc_button
  <2> USE <1>1 DEF Btn!proc_button
  <2>1. btn_samples' \in (SUBSET Btn!Button) \X (SUBSET Btn!Button)
    OBVIOUS
  <2>2. CASE ~ Btn!Changed
    BY <2>1, <2>2
  <2>3. CASE \E key \in Btn!Button : btn_down = {key} /\ Btn!OneKey(key)
    <3>1. PICK key \in Btn!Button : Btn!OneKey(key)
      BY <2>3
    <3>2. btn_run' \in 0 .. 4 /\ btn_recent' \in BOOLEAN /\ btn_mode' \in 0 .. 2
      <4>1. CASE Updates
        <5>1. PICK n : n = IF btn_mode = 0 /\ btn_recent /\ key = "pair" THEN btn_run + 1 ELSE 0
          OBVIOUS
        <5>2. btn_run' = IF n < 4 THEN n ELSE 4
          BY <3>1, <4>1, <5>1 DEF Btn!OneKey, Btn!CountPress
        <5>3. btn_mode' = IF n >= 4 THEN 1 ELSE btn_mode
          BY <3>1, <4>1, <5>1 DEF Btn!OneKey, Btn!CountPress
        <5>4. btn_recent' \in BOOLEAN
          BY <3>1, <4>1, Zenon DEF Btn!OneKey, Btn!CountPress
        <5>5. n \in 0 .. 5
          <6>1. btn_run \in 0 .. 4
            OBVIOUS
          <6> QED
            BY ONLY <5>1, <6>1
        <5>6. btn_run' \in 0 .. 4
          BY ONLY <5>2, <5>5
        <5>7. btn_mode' \in 0 .. 2
          BY <5>3
        <5> QED
          BY <5>4, <5>6, <5>7
      <4>2. CASE ~ Updates
        BY <3>1, <4>2 DEF Btn!OneKey, Btn!CountPress
      <4> QED
        BY <4>1, <4>2
    <3>3. btn_pairing' \in BOOLEAN /\ btn_unpairing' \in BOOLEAN
      BY <3>1, Zenon DEF Btn!OneKey
    <3>4. btn_flags' \subseteq Btn!Button /\ btn_cmd' = btn_cmd
      BY <3>1 DEF Btn!OneKey
    <3>5. btn_stable' \subseteq Btn!Button
      OBVIOUS
    <3> QED
      BY <2>1, <3>2, <3>3, <3>4, <3>5
  <2>4. CASE btn_down = {} /\ Btn!Released
    <3>1. btn_pairing' \in BOOLEAN /\ btn_unpairing' \in BOOLEAN
      BY <2>4, Zenon DEF Btn!Released
    <3>2. btn_cmd' \in 0 .. 2
      BY <2>4 DEF Btn!Released, Btn!Trigger
    <3>3. btn_stable' \subseteq Btn!Button
      OBVIOUS
    <3> QED
      BY <2>1, <2>4, <3>1, <3>2, <3>3 DEF Btn!Released
  <2>5. CASE /\ btn_down = Btn!Button
             /\ UNCHANGED <<btn_pairing, btn_unpairing, btn_flags, btn_run, btn_recent, btn_mode, btn_cmd>>
    BY <2>1, <2>5
  <2> QED
    BY <2>2, <2>3, <2>4, <2>5
<1>2. CASE Btn!host_pair_unpair_proc
  <2>1. btn_closing' \in BOOLEAN /\ btn_unpairing' \in BOOLEAN /\ btn_polled' \in BOOLEAN
    BY <1>2, Zenon DEF Btn!host_pair_unpair_proc, Btn!EndsPairing
  <2> QED
    BY <1>2, <2>1 DEF Btn!host_pair_unpair_proc, Btn!EndsPairing, Btn!btnVars
<1>3. CASE Btn!UnpairKey
  <2>1. btn_unpairing' \in BOOLEAN
    BY <1>3, Zenon DEF Btn!UnpairKey
  <2> QED
    BY <1>3, <2>1 DEF Btn!UnpairKey, Btn!btnVars, Btn!Up
<1>4. ASSUME NEW d \in Devices, NEW asks \in {"nothing", "pair", "unpair"}, Btn!Advertises(d, asks)
      PROVE  Btn!TypeOK'
  BY <1>4 DEF Btn!Advertises, Btn!btnVars
<1>5. CASE Btn!Establish
  BY <1>5 DEF Btn!Establish, Btn!btnVars
<1>6. CASE Btn!Disconnect
  BY <1>6 DEF Btn!Disconnect, Btn!btnVars
<1>7. CASE Btn!Moves
  BY <1>7 DEF Btn!Moves
<1>8. CASE Btn!Later
  <2>1. btn_recent' \in BOOLEAN
    BY <1>8, Zenon DEF Btn!Later
  <2> QED
    BY <1>8, <2>1 DEF Btn!Later
<1>9. CASE UNCHANGED Btn!vars
  BY <1>9 DEF Btn!vars, Btn!btnVars
<1> QED
  BY <1>1, <1>2, <1>3, <1>4, <1>5, <1>6, <1>7, <1>8, <1>9 DEF Btn!Next

LEMMA AskInvStep ==
  ASSUME Btn!PairButtonsAssumption, ~ Careless, ButtonInv, [Btn!Next]_(Btn!vars)
  PROVE  AskInv'
<1> USE DEF ButtonInv, AskInv, Btn!TypeOK
<1>1. CASE Btn!proc_button
  <2>1. /\ btn_target' = btn_target /\ btn_link' = btn_link /\ btn_wants' = btn_wants
        /\ btn_closing' = btn_closing
    BY <1>1 DEF Btn!proc_button
  <2>2. CASE ~ Btn!Changed
    BY <1>1, <2>1, <2>2 DEF Btn!proc_button
  <2>3. CASE Btn!Changed /\ \E key \in Btn!Button : btn_down = {key} /\ Btn!OneKey(key)
    <3>1. PICK key \in Btn!Button : btn_down = {key} /\ Btn!OneKey(key)
      BY <2>3
    <3>2. btn_stable' = {key}
      BY <1>1, <2>3, <3>1 DEF Btn!proc_button
    <3>3. /\ btn_pairing' = (btn_pairing \/ (key = "pair" /\ btn_mode' = 0))
          /\ btn_unpairing' = (btn_unpairing \/ (key = "unpair" /\ btn_mode' = 0))
          /\ btn_flags' = btn_flags \cup {key}
      BY <3>1 DEF Btn!OneKey
    <3> QED
      BY <2>1, <3>2, <3>3
  <2>4. CASE Btn!Changed /\ btn_down = {} /\ Btn!Released
    BY <1>1, <2>1, <2>4 DEF Btn!proc_button, Btn!Released
  <2>5. CASE /\ Btn!Changed /\ btn_down = Btn!Button
             /\ UNCHANGED <<btn_pairing, btn_unpairing, btn_flags, btn_run, btn_recent, btn_mode, btn_cmd>>
    <3>1. btn_stable' # {}
      BY <1>1, <2>5 DEF Btn!proc_button, Btn!Button
    <3> QED
      BY <1>1, <2>1, <2>5, <3>1
  <2> QED
    BY <1>1, <2>2, <2>3, <2>4, <2>5 DEF Btn!proc_button
<1>2. CASE Btn!host_pair_unpair_proc
  BY <1>2 DEF Btn!host_pair_unpair_proc, Btn!EndsPairing, Btn!btnVars, Btn!Up
<1>3. CASE Btn!UnpairKey
  BY <1>3 DEF Btn!UnpairKey, Btn!btnVars, Btn!Up
<1>4. ASSUME NEW d \in Devices, NEW asks \in {"nothing", "pair", "unpair"}, Btn!Advertises(d, asks)
      PROVE  AskInv'
  BY <1>4 DEF Btn!Advertises, Btn!btnVars, Btn!Up
<1>5. CASE Btn!Establish
  BY <1>5 DEF Btn!Establish, Btn!btnVars
<1>6. CASE Btn!Disconnect
  BY <1>6 DEF Btn!Disconnect, Btn!btnVars, Btn!Up
<1>7. CASE Btn!Moves
  BY <1>7 DEF Btn!Moves
<1>8. CASE Btn!Later
  BY <1>8 DEF Btn!Later
<1>9. CASE UNCHANGED Btn!vars
  BY <1>9 DEF Btn!vars, Btn!btnVars
<1> QED
  BY <1>1, <1>2, <1>3, <1>4, <1>5, <1>6, <1>7, <1>8, <1>9 DEF Btn!Next

LEMMA OneStep ==
  ASSUME Btn!PairButtonsAssumption, ~ TwoButtons, Btn!TypeOK, OneInv, [Btn!Next]_(Btn!vars)
  PROVE  OneInv'
<1> USE DEF OneInv, Btn!TypeOK
<1>1. CASE Btn!proc_button
  <2>0. btn_down' = btn_down
    BY <1>1 DEF Btn!proc_button
  <2>2. CASE ~ Btn!Changed
    BY <1>1, <2>0, <2>2 DEF Btn!proc_button
  <2>3. CASE Btn!Changed /\ \E key \in Btn!Button : btn_down = {key} /\ Btn!OneKey(key)
    <3>1. PICK key \in Btn!Button : btn_down = {key} /\ Btn!OneKey(key)
      BY <2>3
    <3>2. btn_stable' = {key} /\ btn_flags' = btn_flags \cup {key} /\ btn_stable \subseteq {key}
      BY <1>1, <2>3, <3>1 DEF Btn!proc_button, Btn!OneKey
    <3> QED
      BY <2>0, <3>1, <3>2
  <2>4. CASE Btn!Changed /\ btn_down = {} /\ Btn!Released
    BY <1>1, <2>0, <2>4 DEF Btn!proc_button, Btn!Released
  <2>5. CASE btn_down = Btn!Button
    BY <2>5 DEF Btn!Button
  <2> QED
    BY <1>1, <2>2, <2>3, <2>4, <2>5 DEF Btn!proc_button
<1>2. CASE Btn!Moves
  BY <1>2 DEF Btn!Moves
<1>3. CASE UNCHANGED <<btn_down, btn_stable, btn_flags>>
  BY <1>3
<1>4. \/ Btn!proc_button \/ Btn!Moves \/ UNCHANGED <<btn_down, btn_stable, btn_flags>>
  BY DEF Btn!Next, Btn!vars, Btn!btnVars, Btn!host_pair_unpair_proc, Btn!UnpairKey, Btn!Advertises,
         Btn!Establish, Btn!Disconnect, Btn!Later
<1> QED
  BY <1>1, <1>2, <1>3, <1>4

LEMMA ButtonStart ==
  ASSUME Btn!PairButtonsAssumption, Btn!Init
  PROVE  ButtonInv /\ OneInv
<1>1. AskInv /\ OneInv
  BY DEF Btn!Init, AskInv, OneInv
<1>2. /\ btn_pairing \in BOOLEAN /\ btn_unpairing \in BOOLEAN /\ btn_recent \in BOOLEAN
      /\ btn_polled \in BOOLEAN /\ btn_closing \in BOOLEAN
  BY Zenon DEF Btn!Init
<1>3. btn_samples \in (SUBSET Btn!Button) \X (SUBSET Btn!Button)
  BY DEF Btn!Init
<1>4. btn_run \in 0 .. 4 /\ btn_mode \in 0 .. 2 /\ btn_cmd \in 0 .. 2
  BY DEF Btn!Init
<1> QED
  BY <1>1, <1>2, <1>3, <1>4 DEF Btn!Init, ButtonInv, Btn!TypeOK

LEMMA ButtonsHold ==
  ASSUME Btn!PairButtonsAssumption, ~ Careless
  PROVE  Btn!Spec => []ButtonInv
<1>1. Btn!Init => ButtonInv
  BY ButtonStart
<1>2. ButtonInv /\ [Btn!Next]_(Btn!vars) => ButtonInv'
  BY ButtonTypes, AskInvStep DEF ButtonInv
<1> QED
  BY <1>1, <1>2, PTL DEF Btn!Spec

\* The state of the buttons keeps its types, whatever the user and the devices do.
THEOREM BtnTypeCorrect ==
  ASSUME Btn!PairButtonsAssumption
  PROVE  Btn!Spec => []Btn!TypeOK
<1>1. Btn!Init => Btn!TypeOK
  BY ButtonStart DEF ButtonInv
<1> QED
  BY <1>1, ButtonTypes, PTL DEF Btn!Spec

\* With the buttons released the dongle neither pairs nor ends a pairing that no device asked to end.
THEOREM BtnReleasedIsOff ==
  ASSUME Btn!PairButtonsAssumption, ~ Careless
  PROVE  Btn!Spec => []Btn!ReleasedIsOff
<1>1. ButtonInv => Btn!ReleasedIsOff
  BY DEF ButtonInv, AskInv, Btn!ReleasedIsOff
<1> QED
  BY <1>1, ButtonsHold, PTL

\* A bond is deleted only of a device that asked for it, or at the UNPAIR button: a request that
\* came over one link never reaches the next device.
THEOREM BtnUnpairsAsked ==
  ASSUME Btn!PairButtonsAssumption, ~ Careless
  PROVE  Btn!Spec => Btn!UnpairsAsked
<1> DEFINE Asked2 == \A d \in btn_bonds \ btn_bonds' : d \in btn_wants' \/ "unpair" \in btn_flags
<1>1. ButtonInv /\ [Btn!Next]_(Btn!vars) => [Asked2]_(Btn!vars)
  <2> SUFFICES ASSUME ButtonInv, [Btn!Next]_(Btn!vars), NEW d \in btn_bonds \ btn_bonds'
               PROVE  d \in btn_wants' \/ "unpair" \in btn_flags
    OBVIOUS
  <2>1. CASE Btn!host_pair_unpair_proc
    BY <2>1 DEF Btn!host_pair_unpair_proc, Btn!EndsPairing, ButtonInv, AskInv, Btn!Up
  <2>2. ASSUME NEW x \in Devices, NEW asks \in {"nothing", "pair", "unpair"}, Btn!Advertises(x, asks)
        PROVE  d \in btn_wants'
    BY <2>2 DEF Btn!Advertises
  <2>3. CASE Btn!Establish
    BY <2>3 DEF Btn!Establish
  <2>4. CASE UNCHANGED btn_bonds
    BY <2>4
  <2>5. \/ Btn!host_pair_unpair_proc \/ Btn!Establish \/ UNCHANGED btn_bonds
        \/ \E x \in Devices, asks \in {"nothing", "pair", "unpair"} : Btn!Advertises(x, asks)
    BY DEF Btn!Next, Btn!vars, Btn!btnVars, Btn!proc_button, Btn!UnpairKey,
           Btn!Disconnect, Btn!Moves, Btn!Later
  <2> QED
    BY <2>1, <2>2, <2>3, <2>4, <2>5
<1> QED
  BY <1>1, ButtonsHold, PTL DEF Btn!Spec, Btn!UnpairsAsked

\* With one button at a time a key's request lasts no longer than the key is held.
THEOREM BtnKeysEnable ==
  ASSUME Btn!PairButtonsAssumption, ~ Careless, ~ TwoButtons
  PROVE  Btn!Spec => []Btn!KeysEnable
<1>1. Btn!Init => OneInv
  BY ButtonStart
<1>2. ButtonInv /\ OneInv /\ [Btn!Next]_(Btn!vars) => OneInv'
  BY OneStep DEF ButtonInv
<1>3. ButtonInv /\ OneInv => Btn!KeysEnable
  BY DEF ButtonInv, AskInv, OneInv, Btn!KeysEnable
<1> QED
  BY <1>1, <1>2, <1>3, ButtonsHold, PTL DEF Btn!Spec

\* The test mode is entered from released buttons only.
THEOREM BtnPressesAlone ==
  ASSUME Btn!PairButtonsAssumption, ~ TwoButtons
  PROVE  Btn!Spec => Btn!TestModeAlone
<1>1. Btn!Init => Btn!TypeOK /\ OneInv
  BY ButtonStart DEF ButtonInv
<1>2. Btn!TypeOK /\ OneInv /\ [Btn!Next]_(Btn!vars) => Btn!TypeOK' /\ OneInv'
  BY ButtonTypes, OneStep
<1>3. Btn!TypeOK /\ OneInv /\ [Btn!Next]_(Btn!vars) => [Btn!PressesAlone]_(Btn!vars)
  <2> SUFFICES ASSUME OneInv, [Btn!Next]_(Btn!vars), btn_mode' # btn_mode, btn_mode = 0
               PROVE  btn_stable = {}
    BY DEF Btn!PressesAlone
  <2>1. Btn!proc_button
    BY DEF Btn!Next, Btn!vars, Btn!btnVars, Btn!host_pair_unpair_proc, Btn!UnpairKey, Btn!Advertises,
           Btn!Establish, Btn!Disconnect, Btn!Moves, Btn!Later
  <2>2. Btn!Changed
    BY <2>1 DEF Btn!proc_button
  <2>3. PICK key \in Btn!Button : btn_down = {key} /\ btn_stable # btn_down
    BY <2>1, <2>2 DEF Btn!proc_button, Btn!Released, Btn!Changed
  <2>4. btn_stable \subseteq {key}
    BY <2>3 DEF OneInv
  <2> QED
    BY <2>3, <2>4
<1> QED
  BY <1>1, <1>2, <1>3, PTL DEF Btn!Spec, Btn!TestModeAlone

-----------------------------------------------------------------------------
(***************************************************************************)
(* The dongle as the host of an update.                                    *)
(***************************************************************************)
CONSTANTS Roms, FW_SIZE_MAX, Block, TxFifo, Stale
VARIABLES
  ota_rom, ota_link, ota_noticed, ota_busy, ota_req, ota_update, ota_ota, ota_expired,
  ota_lit, ota_reading, ota_air, ota_got

HOta == INSTANCE HostOta WITH
  rom <- ota_rom, link <- ota_link, noticed <- ota_noticed, busy <- ota_busy,
  req <- ota_req, update <- ota_update, ota <- ota_ota, expired <- ota_expired,
  lit <- ota_lit, reading <- ota_reading, air <- ota_air, got <- ota_got

\* The commands of a session up to its n-th block, and with its end.
Blocks(img, n) == [i \in 1 .. n + 1 |-> IF i = 1 THEN HOta!Start ELSE HOta!Data(img, i - 2)]
Closed(img, n) == Append(Blocks(img, n), HOta!End(n - 1))

\* The commands s of a session are the last ones in the controller, or the device
\* received the first of them and the controller has the rest.
Waiting(sent, s) ==
  /\ Len(sent) >= Len(s)
  /\ \A i \in 1 .. Len(s) : sent[Len(sent) - Len(s) + i] = s[i]
Arrived(sent, taken, s) ==
  /\ Len(taken) > 0 /\ Len(taken) + Len(sent) = Len(s)
  /\ \A i \in 1 .. Len(taken) : taken[i] = s[i]
  /\ \A i \in 1 .. Len(sent) : sent[i] = s[Len(taken) + i]
Carried(sent, taken, s) == Waiting(sent, s) \/ Arrived(sent, taken, s)

\* A session is one of the device connected: it goes on only over its link, and writes
\* to the handle it found there.
SessionInv ==
  /\ ~ HOta!Up => /\ ota_reading = FALSE /\ ota_air = <<>>
                  /\ ota_update = "none" /\ ota_req = NoDevice
  /\ HOta!Up => ota_noticed
  /\ ~ HOta!Up /\ ota_noticed => ota_ota.start \in {0, 1}
  /\ HOta!Up /\ ota_ota.start >= 4 => ota_ota.handle = ota_link

\* n blocks are sent: those that the image has up to there.
Commands(n) == IF ota_ota.start = 9 THEN Closed(ota_ota.img, n) ELSE Blocks(ota_ota.img, n)
SentSo(n) ==
  /\ ota_ota.adr = n * Block
  /\ ota_ota.start = 5 => n = 0
  /\ ota_ota.adr < ota_rom[ota_ota.img] + Block
  /\ ota_ota.start >= 7 => ota_ota.adr >= ota_rom[ota_ota.img]
  /\ Carried(ota_air, ota_got, Commands(n))
SentInv == HOta!Up /\ ota_ota.start \in 5 .. 9 => \E n \in Nat : SentSo(n)

UpdateInv == HOta!TypeOK /\ HOta!ParametersOfLink /\ HOta!OwnHandle /\ SessionInv /\ SentInv

-----------------------------------------------------------------------------
LEMMA BlockNumber ==
  ASSUME NEW b \in Nat \ {0}, NEW n \in Nat
  PROVE  (n * b) \div b = n
<1>1. (b * n + 0) \div b = n
  BY SMT
<1>2. b * n + 0 = n * b
  BY SMT
<1> QED BY <1>1, <1>2

LEMMA LastNumber ==
  ASSUME NEW b \in Nat \ {0}, NEW n \in Nat, NEW r \in Nat \ {0},
         n * b >= r, n * b < r + b
  PROVE  /\ n > 0
         /\ (r - 1) \div b = n - 1
         /\ (n * b - b) \div b = n - 1
<1>1. n > 0
  <2>1. n = 0 => n * b = 0
    BY SMT
  <2> QED BY <2>1
<1>2. PICK m \in Nat : n = m + 1
  BY <1>1
<1>3. n * b = m * b + b
  BY <1>2, SMT
<1>4. m * b \in Nat
  BY SMT
<1>5. r - 1 - m * b \in 0 .. b - 1
  BY <1>3, <1>4
<1>6. PICK e \in 0 .. b - 1 : e = r - 1 - m * b
  BY <1>5
<1>7. (b * m + e) \div b = m /\ (b * m + 0) \div b = m
  BY SMT
<1>8. b * m = m * b
  BY SMT
<1>9. b * m + e = r - 1 /\ b * m + 0 = n * b - b
  BY <1>3, <1>4, <1>6, <1>8
<1> QED
  BY <1>1, <1>2, <1>7, <1>9

LEMMA MoreBlocks ==
  ASSUME NEW b \in Nat \ {0}, NEW n \in Nat
  PROVE  n * b \in Nat /\ n * b + b = (n + 1) * b
  BY SMT

-----------------------------------------------------------------------------
LEMMA AppendedTo ==
  ASSUME NEW T, NEW s \in Seq(T), NEW c \in T
  PROVE  /\ Append(s, c) \in Seq(T)
         /\ Len(Append(s, c)) = Len(s) + 1
         /\ Append(s, c)[Len(s) + 1] = c
         /\ \A i \in 1 .. Len(s) : Append(s, c)[i] = s[i]
  OBVIOUS

LEMMA SessionLengths ==
  ASSUME NEW img \in HOta!Image, NEW n \in Nat
  PROVE  /\ Blocks(img, n) \in Seq(HOta!Command)
         /\ Closed(img, n) \in Seq(HOta!Command) \/ n = 0
         /\ Len(Blocks(img, n)) = n + 1
         /\ Len(Closed(img, n)) = n + 2
         /\ Blocks(img, n)[1] = HOta!Start /\ Closed(img, n)[1] = HOta!Start
         /\ \A i \in 2 .. n + 1 : Blocks(img, n)[i] # HOta!Start
         /\ \A i \in 2 .. n + 2 : Closed(img, n)[i] # HOta!Start
         /\ Blocks(img, n + 1) = Append(Blocks(img, n), HOta!Data(img, n))
<1>1. /\ HOta!Start \in HOta!Command /\ \A i \in Nat : HOta!Data(img, i) \in HOta!Command
      /\ \A i \in Nat : HOta!End(i) \in HOta!Command
  BY DEF HOta!Start, HOta!Data, HOta!Command, HOta!Image, HOta!End
<1>2. \A i \in 1 .. n + 1 : (IF i = 1 THEN HOta!Start ELSE HOta!Data(img, i - 2)) \in HOta!Command
  <2> SUFFICES ASSUME NEW i \in 1 .. n + 1, i # 1
               PROVE  HOta!Data(img, i - 2) \in HOta!Command
    BY <1>1
  <2>1. PICK k \in Nat : k = i - 2
    OBVIOUS
  <2> QED BY <1>1, <2>1
<1>3. Blocks(img, n) \in Seq(HOta!Command)
  BY <1>2 DEF Blocks
<1>4. n # 0 => Closed(img, n) \in Seq(HOta!Command)
  <2> SUFFICES ASSUME n # 0
               PROVE  Closed(img, n) \in Seq(HOta!Command)
    OBVIOUS
  <2>1. PICK k \in Nat : k = n - 1
    OBVIOUS
  <2> QED BY <1>1, <1>3, <2>1 DEF Closed
<1>5. /\ Len(Blocks(img, n)) = n + 1
      /\ Len(Closed(img, n)) = n + 2
      /\ Blocks(img, n)[1] = HOta!Start /\ Closed(img, n)[1] = HOta!Start
      /\ \A i \in 2 .. n + 1 : Blocks(img, n)[i] # HOta!Start
      /\ \A i \in 2 .. n + 2 : Closed(img, n)[i] # HOta!Start
  BY DEF Blocks, Closed, HOta!Start, HOta!Data, HOta!End
<1>6. Blocks(img, n + 1) = Append(Blocks(img, n), HOta!Data(img, n))
  <2> DEFINE s == Append(Blocks(img, n), HOta!Data(img, n))
  <2>1. Len(Blocks(img, n + 1)) = n + 2 /\ Len(s) = n + 2
    BY <1>3, <1>5 DEF Blocks
  <2>2. s \in Seq(HOta!Command)
    BY <1>1, <1>3, AppendedTo
  <2>5. s \in [1 .. n + 2 -> HOta!Command]
    <3> HIDE DEF s
    <3> QED BY <2>1, <2>2
  <2>3. ASSUME NEW i \in 1 .. n + 2
        PROVE  s[i] = IF i = 1 THEN HOta!Start ELSE HOta!Data(img, i - 2)
    <3>1. CASE i = n + 2
      BY <1>3, <1>5, <3>1
    <3>2. CASE i \in 1 .. n + 1
      BY <1>3, <1>5, <3>2 DEF Blocks
    <3>3. i = n + 2 \/ i \in 1 .. n + 1
      BY ONLY n \in Nat, i \in 1 .. n + 2
    <3> QED BY ONLY <3>1, <3>2, <3>3
  <2>4. Blocks(img, n + 1) = [i \in 1 .. n + 2 |-> IF i = 1 THEN HOta!Start ELSE HOta!Data(img, i - 2)]
    BY DEF Blocks
  <2> HIDE DEF s
  <2>6. s = Blocks(img, n + 1)
    BY <2>3, <2>4, <2>5
  <2> QED BY <2>6 DEF s
<1> QED BY <1>3, <1>4, <1>5, <1>6

LEMMA MoreCarried ==
  ASSUME NEW T, NEW sent \in Seq(T), NEW taken \in Seq(T), NEW s \in Seq(T), NEW c \in T,
         Carried(sent, taken, s)
  PROVE  Carried(Append(sent, c), taken, Append(s, c))
<1> DEFINE a == Append(sent, c)
           t == Append(s, c)
<1>1. a \in Seq(T) /\ Len(a) = Len(sent) + 1 /\ a[Len(sent) + 1] = c
      /\ \A i \in 1 .. Len(sent) : a[i] = sent[i]
  BY AppendedTo
<1>2. t \in Seq(T) /\ Len(t) = Len(s) + 1 /\ t[Len(s) + 1] = c
      /\ \A i \in 1 .. Len(s) : t[i] = s[i]
  BY AppendedTo
<1>3. Len(sent) \in Nat /\ Len(s) \in Nat /\ Len(taken) \in Nat
  OBVIOUS
<1> HIDE DEF a, t
<1>4. CASE Waiting(sent, s)
  <2>1. Len(sent) >= Len(s) /\ Len(a) >= Len(t) /\ Len(a) - Len(t) = Len(sent) - Len(s)
    BY <1>1, <1>2, <1>3, <1>4 DEF Waiting
  <2>2. ASSUME NEW i \in 1 .. Len(t)
        PROVE  a[Len(a) - Len(t) + i] = t[i]
    <3>1. CASE i = Len(s) + 1
      BY <1>1, <1>2, <1>3, <2>1, <3>1
    <3>2. CASE i \in 1 .. Len(s)
      <4>0. PICK x \in Nat, y \in Nat : x = Len(sent) /\ y = Len(s)
        BY <1>3, Zenon
      <4>1. PICK j \in 1 .. Len(sent) : j = Len(sent) - Len(s) + i
        <5>1. i \in 1 .. y /\ x >= y
          BY ONLY <4>0, <2>1, <3>2
        <5>2. x - y + i \in 1 .. x
          BY ONLY <5>1, x \in Nat, y \in Nat
        <5> QED BY ONLY <4>0, <5>2
      <4>2. sent[j] = s[i]
        BY <1>4, <3>2, <4>1 DEF Waiting
      <4>3. Len(a) - Len(t) + i = j
        BY <1>3, <2>1, <4>1
      <4>4. a[j] = sent[j] /\ t[i] = s[i]
        BY <1>1, <1>2, <3>2
      <4> QED BY ONLY <4>2, <4>3, <4>4
    <3> QED BY <1>2, <1>3, <3>1, <3>2
  <2> QED BY <2>1, <2>2 DEF Carried, Waiting, a, t
<1>5. CASE Arrived(sent, taken, s)
  <2>1. Len(taken) + Len(a) = Len(t) /\ Len(taken) > 0 /\ Len(taken) + Len(sent) = Len(s)
    <3>1. Len(taken) > 0 /\ Len(taken) + Len(sent) = Len(s)
      BY <1>5 DEF Arrived
    <3>2. Len(a) = Len(sent) + 1 /\ Len(t) = Len(s) + 1
      BY <1>1, <1>2
    <3>3. PICK x \in Nat, y \in Nat, z \in Nat : x = Len(sent) /\ y = Len(s) /\ z = Len(taken)
      BY <1>3, Zenon
    <3>4. z > 0 /\ z + x = y /\ Len(a) = x + 1 /\ Len(t) = y + 1
      BY ONLY <3>1, <3>2, <3>3
    <3>5. z + Len(a) = Len(t) /\ z > 0 /\ z + x = y
      BY ONLY <3>4, x \in Nat, y \in Nat, z \in Nat
    <3> QED BY ONLY <3>3, <3>5
  <2>2. \A i \in 1 .. Len(taken) : taken[i] = t[i]
    BY <1>2, <1>3, <1>5, <2>1 DEF Arrived
  <2>3. ASSUME NEW i \in 1 .. Len(a)
        PROVE  a[i] = t[Len(taken) + i]
    <3>1. CASE i = Len(sent) + 1
      BY <1>1, <1>2, <1>3, <2>1, <3>1
    <3>2. CASE i \in 1 .. Len(sent)
      <4>1. PICK j \in 1 .. Len(s) : j = Len(taken) + i
        BY <1>3, <2>1, <3>2
      <4>2. sent[i] = s[j]
        BY <1>5, <3>2, <4>1 DEF Arrived
      <4> QED BY <1>1, <1>2, <3>2, <4>1, <4>2
    <3> QED BY <1>1, <1>3, <3>1, <3>2
  <2> QED BY <2>1, <2>2, <2>3 DEF Carried, Arrived, a, t
<1> QED BY <1>4, <1>5 DEF Carried

LEMMA CarriedOver ==
  ASSUME NEW T, NEW sent \in Seq(T), NEW taken \in Seq(T), NEW s \in Seq(T), NEW f \in T,
         sent # <<>>, Len(s) > 0, s[1] = f, \A i \in 2 .. Len(s) : s[i] # f,
         Carried(sent, taken, s)
  PROVE  Carried(Tail(sent), IF Head(sent) = f THEN <<f>> ELSE Append(taken, Head(sent)), s)
<1>1. CASE Waiting(sent, s) /\ Len(sent) > Len(s)
  BY <1>1 DEF Carried, Waiting
<1>2. CASE Waiting(sent, s) /\ Len(sent) = Len(s)
  <2>1. Head(sent) = f
    BY <1>2 DEF Waiting
  <2>2. Arrived(Tail(sent), <<f>>, s)
    BY <1>2 DEF Waiting, Arrived
  <2> QED BY <2>1, <2>2 DEF Carried
<1>3. CASE Arrived(sent, taken, s)
  <2>1. Head(sent) = s[Len(taken) + 1] /\ Len(taken) + 1 \in 2 .. Len(s)
    BY <1>3 DEF Arrived
  <2>2. Head(sent) # f
    BY <2>1
  <2>3. Arrived(Tail(sent), Append(taken, Head(sent)), s)
    BY <1>3, <2>1 DEF Arrived
  <2> QED BY <2>2, <2>3 DEF Carried
<1> QED
  BY <1>1, <1>2, <1>3 DEF Carried, Waiting

-----------------------------------------------------------------------------
\* What proc_ota does at one poll: it ends a session, waits for a fast connection, or
\* goes on with a session whose link is up.
Steps ==
  \/ HOta!FindHandle \/ HOta!SendStart \/ HOta!NextStep \/ HOta!SendData
  \/ HOta!SendEnd \/ HOta!Finish

LEMMA OtaPoll ==
  ASSUME HOta!proc_ota
  PROVE  /\ UNCHANGED <<ota_rom, ota_link, ota_busy, ota_req, ota_got>>
         /\ ota_noticed' = TRUE
         /\ ota_update' = ota_update \/ (HOta!Up /\ ota_update' = "fast")
         /\ \/ HOta!ota_set_result(FALSE)
            \/ /\ HOta!Up /\ ota_ota' = [ota_ota EXCEPT !.pending = 2]
               /\ UNCHANGED <<ota_expired, ota_lit, ota_reading, ota_air>>
            \/ HOta!Begin
            \/ HOta!Up /\ Steps
            \/ /\ HOta!Up \/ ota_ota.start = 0
               /\ UNCHANGED <<ota_ota, ota_expired, ota_lit, ota_reading, ota_air>>
<1>1. /\ UNCHANGED <<ota_rom, ota_link, ota_busy, ota_req, ota_got>>
      /\ ota_noticed' = TRUE
      /\ ota_update' = ota_update \/ (HOta!Up /\ ota_update' = "fast")
  <2>1. ota_noticed' = TRUE
    BY Zenon DEF HOta!proc_ota
  <2>2. ota_update' = ota_update \/ (HOta!Up /\ ota_update' = "fast")
    BY Zenon DEF HOta!proc_ota, HOta!AsksFast
  <2>3. UNCHANGED <<ota_rom, ota_link, ota_busy, ota_req, ota_got>>
    BY Zenon DEF HOta!proc_ota
  <2> QED BY ONLY <2>1, <2>2, <2>3
<1>2. CASE HOta!AsksFast
  BY <1>1, <1>2 DEF HOta!proc_ota, HOta!AsksFast
<1>3. CASE ~ HOta!AsksFast /\ ota_ota.start # 0 /\ HOta!Fails
  BY <1>1, <1>3 DEF HOta!proc_ota
<1>4. CASE ~ HOta!AsksFast /\ ~ (ota_ota.start # 0 /\ HOta!Fails)
  <2>1. HOta!Up \/ ota_ota.start = 0
    BY <1>4 DEF HOta!Fails
  <2>2. Steps => ota_ota.start # 0
    <3>1. Steps => ota_ota.start \in {2, 4, 5, 7, 6, 8, 9}
      BY Zenon DEF Steps, HOta!FindHandle, HOta!SendStart, HOta!NextStep, HOta!SendData,
                   HOta!SendEnd, HOta!Finish
    <3> QED BY <3>1
  <2>3. \/ HOta!Begin \/ Steps \/ HOta!Waits
        \/ /\ ota_ota.start = 0 /\ ota_ota.cmd = 0
           /\ UNCHANGED <<ota_ota, ota_expired, ota_lit, ota_reading, ota_air>>
    BY <1>4 DEF HOta!proc_ota, Steps
  <2> QED BY <1>1, <2>1, <2>2, <2>3 DEF HOta!Waits
<1> QED BY <1>2, <1>3, <1>4

LEMMA UpdateStart ==
  ASSUME HOta!HostOtaAssumption, HOta!Init
  PROVE  UpdateInv
<1> USE DEF HOta!Init, HOta!Idle, HOta!Image, HOta!Up
<1>1. /\ ota_noticed \in BOOLEAN /\ ota_busy \in BOOLEAN /\ ota_expired \in BOOLEAN
      /\ ota_reading \in BOOLEAN
  BY Zenon
<1>2. ota_air \in Seq(HOta!Command) /\ Len(ota_air) <= TxFifo /\ ota_got \in Seq(HOta!Command)
  BY DEF HOta!HostOtaAssumption
<1>3. ota_ota \in [start : 0 .. 9, pending : 0 .. 2, cmd : 0 .. 2, img : HOta!Image, adr : Nat,
                   handle : Devices \cup {NoDevice}, success : BOOLEAN]
  OBVIOUS
<1>4. HOta!TypeOK
  BY <1>1, <1>2, <1>3 DEF HOta!TypeOK
<1>5. HOta!ParametersOfLink /\ SessionInv /\ SentInv
  <2>1. HOta!ParametersOfLink /\ SentInv
    BY DEF HOta!HostOtaAssumption, HOta!ParametersOfLink, SentInv
  <2>2. SessionInv
    BY Zenon DEF SessionInv
  <2> QED BY <2>1, <2>2
<1>6. HOta!OwnHandle
  BY DEF HOta!OwnHandle
<1> QED BY <1>4, <1>5, <1>6 DEF UpdateInv

\* While blocks are sent their number is that of the bytes.
LEMMA BlocksSent ==
  ASSUME HOta!HostOtaAssumption, UpdateInv, HOta!Up, ota_ota.start \in 5 .. 9
  PROVE  \E n \in Nat :
           /\ SentSo(n) /\ ota_ota.adr \div Block = n
           /\ ota_ota.start >= 7 => /\ n > 0 /\ (ota_ota.adr - Block) \div Block = n - 1
                                    /\ HOta!LastBlock(ota_ota.img) = n - 1
<1>1. PICK n \in Nat : SentSo(n)
  BY DEF UpdateInv, SentInv
<1>2. Block \in Nat \ {0} /\ ota_rom[ota_ota.img] \in Nat \ {0}
  BY DEF HOta!HostOtaAssumption, UpdateInv, HOta!TypeOK, HOta!Image
<1>3. ota_ota.adr \div Block = n
  BY <1>1, <1>2, BlockNumber DEF SentSo
<1>4. ASSUME ota_ota.start >= 7
      PROVE  /\ n > 0 /\ (ota_ota.adr - Block) \div Block = n - 1
             /\ HOta!LastBlock(ota_ota.img) = n - 1
  <2>1. PICK r \in Nat \ {0} : r = ota_rom[ota_ota.img]
    BY <1>2
  <2>2. n * Block >= r /\ n * Block < r + Block /\ ota_ota.adr = n * Block
    BY <1>1, <1>4, <2>1 DEF SentSo
  <2>3. n > 0 /\ (r - 1) \div Block = n - 1 /\ (n * Block - Block) \div Block = n - 1
    BY <1>2, <2>2, LastNumber
  <2> QED BY <2>1, <2>2, <2>3 DEF HOta!LastBlock
<1> QED BY <1>1, <1>3, <1>4

LEMMA PushedOne ==
  ASSUME HOta!HostOtaAssumption, UpdateInv, HOta!Up, ota_ota.start >= 4,
         NEW c \in HOta!Command, HOta!Push(c)
  PROVE  /\ ota_air' = Append(ota_air, c)
         /\ ota_air' \in Seq(HOta!Command) /\ Len(ota_air') <= TxFifo
         /\ c.op # "stray" => HOta!OwnHandle'
<1>1. ota_air' = Append(ota_air, c) /\ Len(ota_air) < TxFifo
  BY DEF HOta!Push, UpdateInv, SessionInv
<1>2. ota_air \in Seq(HOta!Command) /\ TxFifo \in Nat
  BY DEF UpdateInv, HOta!TypeOK, HOta!HostOtaAssumption
<1>3. /\ ota_air' \in Seq(HOta!Command) /\ Len(ota_air') = Len(ota_air) + 1
      /\ ota_air'[Len(ota_air) + 1] = c
      /\ \A i \in 1 .. Len(ota_air) : ota_air'[i] = ota_air[i]
  BY <1>1, <1>2, AppendedTo
<1>4. Len(ota_air') <= TxFifo
  BY <1>1, <1>2, <1>3
<1>5. ASSUME c.op # "stray", NEW i \in DOMAIN ota_air'
      PROVE  ota_air'[i].op # "stray"
  <2>1. i = Len(ota_air) + 1 \/ i \in 1 .. Len(ota_air)
    BY <1>2, <1>3
  <2>2. \A j \in 1 .. Len(ota_air) : ota_air[j].op # "stray"
    BY <1>2 DEF UpdateInv, HOta!OwnHandle
  <2> QED BY <1>3, <1>5, <2>1, <2>2
<1> QED BY <1>1, <1>3, <1>4, <1>5 DEF HOta!OwnHandle

LEMMA SessionCommands ==
  ASSUME NEW img \in HOta!Image, NEW n \in Nat
  PROVE  /\ HOta!Start \in HOta!Command /\ HOta!Start.op # "stray"
         /\ HOta!Data(img, n) \in HOta!Command /\ HOta!Data(img, n).op # "stray"
         /\ HOta!End(n) \in HOta!Command /\ HOta!End(n).op # "stray"
  BY DEF HOta!Start, HOta!Data, HOta!Command, HOta!Image, HOta!End

OtaVars == [start : 0 .. 9, pending : 0 .. 2, cmd : 0 .. 2, img : HOta!Image, adr : Nat,
            handle : Devices \cup {NoDevice}, success : BOOLEAN]

LEMMA OtaFields ==
  ASSUME NEW r \in OtaVars
  PROVE  /\ \A v \in 0 .. 9 : [r EXCEPT !.start = v] \in OtaVars
         /\ \A v \in 0 .. 2 : [r EXCEPT !.pending = v] \in OtaVars
         /\ \A v \in 0 .. 2 : [r EXCEPT !.cmd = v] \in OtaVars
         /\ \A v \in HOta!Image : [r EXCEPT !.img = v] \in OtaVars
         /\ \A v \in Nat : [r EXCEPT !.adr = v] \in OtaVars
         /\ \A v \in Devices \cup {NoDevice} : [r EXCEPT !.handle = v] \in OtaVars
         /\ \A v \in BOOLEAN : [r EXCEPT !.success = v] \in OtaVars
  BY DEF OtaVars

LEMMA OtaMoreFields ==
  ASSUME NEW r \in OtaVars
  PROVE  /\ \A b \in BOOLEAN :
              [r EXCEPT !.start = 0, !.pending = 0, !.cmd = 0, !.success = b] \in OtaVars
         /\ \A i \in HOta!Image, b \in BOOLEAN :
              [r EXCEPT !.pending = 0, !.cmd = 0, !.img = i, !.success = b] \in OtaVars
         /\ \A i \in HOta!Image :
              [r EXCEPT !.start = 1, !.pending = 1, !.img = i] \in OtaVars
         /\ [r EXCEPT !.start = 5, !.adr = 0] \in OtaVars
         /\ \A k \in 0 .. 9 :
              [r EXCEPT !.pending = 0, !.start = k] \in OtaVars
         /\ \A h \in Devices \cup {NoDevice} :
              [r EXCEPT !.start = 4, !.handle = h] \in OtaVars
<1>0. /\ 0 \in 0 .. 9 /\ 1 \in 0 .. 9 /\ 4 \in 0 .. 9 /\ 5 \in 0 .. 9 /\ 0 \in 0 .. 2 /\ 1 \in 0 .. 2
      /\ 0 \in Nat /\ NoDevice \in Devices \cup {NoDevice} /\ 1 \in HOta!Image
  BY DEF HOta!Image
<1>1. ASSUME NEW b \in BOOLEAN
      PROVE  [r EXCEPT !.start = 0, !.pending = 0, !.cmd = 0, !.success = b] \in OtaVars
  <2>1. [r EXCEPT !.start = 0] \in OtaVars
    BY <1>0, OtaFields, Zenon
  <2>2. [[r EXCEPT !.start = 0] EXCEPT !.pending = 0] \in OtaVars
    BY <1>0, <2>1, OtaFields, Zenon
  <2>3. [[[r EXCEPT !.start = 0] EXCEPT !.pending = 0] EXCEPT !.cmd = 0] \in OtaVars
    BY <1>0, <2>2, OtaFields, Zenon
  <2>4. [[[[r EXCEPT !.start = 0] EXCEPT !.pending = 0] EXCEPT !.cmd = 0] EXCEPT !.success = b] \in OtaVars
    BY <1>0, <2>3, OtaFields, Zenon
  <2> QED BY <2>4
<1>2. ASSUME NEW i \in HOta!Image, NEW b \in BOOLEAN
      PROVE  [r EXCEPT !.pending = 0, !.cmd = 0, !.img = i, !.success = b] \in OtaVars
  <2>1. [r EXCEPT !.pending = 0] \in OtaVars
    BY <1>0, OtaFields, Zenon
  <2>2. [[r EXCEPT !.pending = 0] EXCEPT !.cmd = 0] \in OtaVars
    BY <1>0, <2>1, OtaFields, Zenon
  <2>3. [[[r EXCEPT !.pending = 0] EXCEPT !.cmd = 0] EXCEPT !.img = i] \in OtaVars
    BY <1>0, <2>2, OtaFields, Zenon
  <2>4. [[[[r EXCEPT !.pending = 0] EXCEPT !.cmd = 0] EXCEPT !.img = i] EXCEPT !.success = b] \in OtaVars
    BY <1>0, <2>3, OtaFields, Zenon
  <2> QED BY <2>4
<1>3. ASSUME NEW i \in HOta!Image
      PROVE  [r EXCEPT !.start = 1, !.pending = 1, !.img = i] \in OtaVars
  <2>1. [r EXCEPT !.start = 1] \in OtaVars
    BY <1>0, OtaFields, Zenon
  <2>2. [[r EXCEPT !.start = 1] EXCEPT !.pending = 1] \in OtaVars
    BY <1>0, <2>1, OtaFields, Zenon
  <2>3. [[[r EXCEPT !.start = 1] EXCEPT !.pending = 1] EXCEPT !.img = i] \in OtaVars
    BY <1>0, <2>2, OtaFields, Zenon
  <2> QED BY <2>3
<1>4. [r EXCEPT !.start = 5, !.adr = 0] \in OtaVars
  <2>1. [r EXCEPT !.start = 5] \in OtaVars
    BY <1>0, OtaFields, Zenon
  <2>2. [[r EXCEPT !.start = 5] EXCEPT !.adr = 0] \in OtaVars
    BY <1>0, <2>1, OtaFields, Zenon
  <2> QED BY <2>2
<1>5. ASSUME NEW k \in 0 .. 9
      PROVE  [r EXCEPT !.pending = 0, !.start = k] \in OtaVars
  <2>1. [r EXCEPT !.pending = 0] \in OtaVars
    BY <1>0, OtaFields, Zenon
  <2>2. [[r EXCEPT !.pending = 0] EXCEPT !.start = k] \in OtaVars
    BY <1>0, <2>1, OtaFields, Zenon
  <2> QED BY <2>2
<1>6. ASSUME NEW h \in Devices \cup {NoDevice}
      PROVE  [r EXCEPT !.start = 4, !.handle = h] \in OtaVars
  <2>1. [r EXCEPT !.start = 4] \in OtaVars
    BY <1>0, OtaFields, Zenon
  <2>2. [[r EXCEPT !.start = 4] EXCEPT !.handle = h] \in OtaVars
    BY <1>0, <2>1, OtaFields, Zenon
  <2> QED BY <2>2
<1> QED BY <1>1, <1>2, <1>3, <1>4, <1>5, <1>6

LEMMA UpdateTypes ==
  ASSUME HOta!HostOtaAssumption, ~ Stale, UpdateInv, [HOta!Next]_(HOta!vars)
  PROVE  HOta!TypeOK' /\ HOta!OwnHandle'
<1> USE DEF HOta!TypeOK, HOta!Image
<1>0. HOta!TypeOK /\ HOta!OwnHandle /\ ota_ota \in OtaVars /\ (TRUE \in BOOLEAN /\ FALSE \in BOOLEAN)
  BY Zenon DEF UpdateInv, OtaVars
<1>1. CASE HOta!proc_ota
  <2>1. /\ UNCHANGED <<ota_rom, ota_link, ota_busy, ota_req, ota_got>>
        /\ ota_update' \in Devices \cup {"none", "fast"}
    BY <1>0, <1>1, OtaPoll
  <2>2. ota_noticed' \in BOOLEAN
    BY <1>1, Zenon DEF HOta!proc_ota
  <2>3. CASE HOta!ota_set_result(FALSE)
    <3>1. ota_ota' \in OtaVars
      BY <1>0, <2>3, OtaMoreFields, Zenon DEF HOta!ota_set_result, HOta!Image
    <3>2. UNCHANGED <<ota_expired, ota_reading, ota_air>> /\ ota_lit' \subseteq HOta!Image
      BY <1>0, <2>3 DEF HOta!ota_set_result
    <3> QED BY <1>0, <2>1, <2>2, <3>1, <3>2 DEF HOta!OwnHandle, OtaVars
  <2>4. CASE /\ HOta!Up /\ ota_ota' = [ota_ota EXCEPT !.pending = 2]
             /\ UNCHANGED <<ota_expired, ota_lit, ota_reading, ota_air>>
    BY <1>0, <2>1, <2>2, <2>4 DEF HOta!OwnHandle
  <2>5. CASE HOta!Begin
    <3>1. ota_expired' \in BOOLEAN
      BY <1>0, <2>5, Zenon DEF HOta!Begin
    <3>2. PICK i \in HOta!Image : i = IF ota_ota.cmd = 1 THEN 1 ELSE 2
      OBVIOUS
    <3>3. \/ ota_ota' = [ota_ota EXCEPT !.pending = 0, !.cmd = 0, !.img = i, !.success = FALSE]
          \/ ota_ota' = [ota_ota EXCEPT !.start = 1, !.pending = 1, !.img = i]
      BY <2>5, <3>2 DEF HOta!Begin
    <3>4. ota_ota' \in OtaVars
      BY <1>0, <3>3, OtaMoreFields, Zenon
    <3>5. UNCHANGED <<ota_reading, ota_air>> /\ ota_lit' \subseteq HOta!Image
      BY <1>0, <2>5, <3>2 DEF HOta!Begin
    <3> QED BY <1>0, <2>1, <2>2, <3>1, <3>4, <3>5 DEF HOta!OwnHandle, OtaVars
  <2>6. CASE HOta!FindHandle
    <3>1. ota_reading' \in BOOLEAN
      BY <2>6, Zenon DEF HOta!FindHandle
    <3> QED BY <1>0, <2>1, <2>2, <2>6, <3>1 DEF HOta!FindHandle, HOta!OwnHandle
  <2>7. CASE HOta!Up /\ HOta!SendStart
    <3>1. /\ ota_air' \in Seq(HOta!Command) /\ Len(ota_air') <= TxFifo
          /\ HOta!OwnHandle'
      BY <1>0, <2>7, SessionCommands, PushedOne DEF HOta!SendStart
    <3>2. ota_ota' \in OtaVars /\ UNCHANGED <<ota_expired, ota_lit, ota_reading>>
      BY <1>0, <2>7, OtaMoreFields, Zenon DEF HOta!SendStart, HOta!Image
    <3> QED BY <1>0, <2>1, <2>2, <3>1, <3>2 DEF OtaVars
  <2>8. CASE HOta!NextStep
    BY <1>0, <2>1, <2>2, <2>8 DEF HOta!NextStep, HOta!OwnHandle
  <2>9. CASE HOta!Up /\ HOta!SendData
    <3>1. CASE ota_ota.adr < ota_rom[ota_ota.img]
      <4>1. PICK n \in Nat : ota_ota.adr \div Block = n
        BY <2>9, BlocksSent DEF HOta!SendData
      <4>2. /\ ota_air' \in Seq(HOta!Command) /\ Len(ota_air') <= TxFifo
            /\ HOta!OwnHandle'
        BY <1>0, <2>9, <3>1, <4>1, SessionCommands, PushedOne DEF HOta!SendData
      <4>3. ota_ota' = [ota_ota EXCEPT !.adr = ota_ota.adr + Block] /\ Block \in Nat
        BY <2>9, <3>1 DEF HOta!SendData, HOta!HostOtaAssumption
      <4>4. ota_ota.adr + Block \in Nat
        BY <1>0, <4>3
      <4>5. ota_ota' \in OtaVars /\ UNCHANGED <<ota_expired, ota_lit, ota_reading>>
        BY <1>0, <2>9, <4>3, <4>4, OtaFields, Zenon DEF HOta!SendData, HOta!Image
      <4> QED BY <1>0, <2>1, <2>2, <4>2, <4>5 DEF OtaVars
    <3>2. CASE ~ (ota_ota.adr < ota_rom[ota_ota.img])
      BY <1>0, <2>1, <2>2, <2>9, <3>2 DEF HOta!SendData, HOta!OwnHandle
    <3> QED BY <3>1, <3>2
  <2>10. CASE HOta!Up /\ HOta!SendEnd
    <3>1. PICK n \in Nat : (ota_ota.adr - Block) \div Block = n
      <4>1. PICK m \in Nat : m > 0 /\ (ota_ota.adr - Block) \div Block = m - 1
        BY <2>10, BlocksSent DEF HOta!SendEnd
      <4>2. m - 1 \in Nat
        BY <4>1
      <4> QED BY <4>1, <4>2
    <3>2. /\ ota_air' \in Seq(HOta!Command) /\ Len(ota_air') <= TxFifo
          /\ HOta!OwnHandle'
      BY <1>0, <2>10, <3>1, SessionCommands, PushedOne DEF HOta!SendEnd
    <3>3. 9 \in 0 .. 9
      OBVIOUS
    <3>4. ota_ota' \in OtaVars /\ UNCHANGED <<ota_expired, ota_lit, ota_reading>>
      BY <1>0, <2>10, <3>3, OtaFields, Zenon DEF HOta!SendEnd
    <3> QED BY <1>0, <2>1, <2>2, <3>2, <3>4 DEF OtaVars
  <2>11. CASE HOta!Finish
    <3>1. ota_ota' = [ota_ota EXCEPT !.start = 0, !.pending = 0, !.cmd = 0, !.success = TRUE]
      BY <2>11 DEF HOta!Finish, HOta!ota_set_result
    <3>2. UNCHANGED <<ota_expired, ota_reading, ota_air>> /\ ota_lit' \subseteq HOta!Image
      BY <1>0, <2>11 DEF HOta!Finish, HOta!ota_set_result
    <3>3. ota_ota' \in OtaVars
      BY <1>0, <3>1, OtaMoreFields, Zenon DEF HOta!Image
    <3> QED BY <1>0, <2>1, <2>2, <3>2, <3>3 DEF HOta!OwnHandle, OtaVars
  <2>12. CASE UNCHANGED <<ota_ota, ota_expired, ota_lit, ota_reading, ota_air>>
    BY <1>0, <2>1, <2>2, <2>12 DEF HOta!OwnHandle
  <2> QED
    BY <1>1, <2>3, <2>4, <2>5, <2>6, <2>7, <2>8, <2>9, <2>10, <2>11, <2>12, OtaPoll DEF Steps
<1>2. ASSUME NEW c \in HOta!Image, HOta!Button(c)
      PROVE  HOta!TypeOK' /\ HOta!OwnHandle'
  <2>1. ota_ota' \in OtaVars
    <3>1. c \in 0 .. 2
      OBVIOUS
    <3> QED BY <1>0, <1>2, <3>1, OtaFields, Zenon DEF HOta!Button
  <2> QED BY <1>0, <1>2, <2>1 DEF HOta!Button, HOta!hostVars, HOta!OwnHandle, OtaVars
<1>3. CASE HOta!AsksParameters
  BY <1>0, <1>3 DEF HOta!AsksParameters, HOta!OwnHandle
<1>4. CASE HOta!host_update_conn_proc
  BY <1>0, <1>4 DEF HOta!host_update_conn_proc, HOta!OwnHandle
<1>5. CASE HOta!UpdateCompletes
  <2>1. PICK k \in 0 .. 9 : k = IF ota_ota.start = 1 THEN 2 ELSE ota_ota.start
    BY <1>0
  <2>2. ota_ota' = ota_ota \/ ota_ota' = [ota_ota EXCEPT !.pending = 0, !.start = k]
    BY <1>5, <2>1 DEF HOta!UpdateCompletes
  <2>3. ota_ota' \in OtaVars
    <3>1. \A v \in 0 .. 9 : [ota_ota EXCEPT !.pending = 0, !.start = v] \in OtaVars
      BY <1>0, OtaMoreFields, Zenon
    <3>2. [ota_ota EXCEPT !.pending = 0, !.start = k] \in OtaVars
      BY <3>1, Zenon
    <3> QED BY <1>0, <2>2, <3>2, Zenon
  <2> QED
    BY <1>0, <1>5, <2>3 DEF HOta!UpdateCompletes, HOta!hostVars, HOta!OwnHandle, OtaVars
<1>6. CASE HOta!AnswersRead
  <2>1. ota_reading' \in BOOLEAN
    BY <1>6, Zenon DEF HOta!AnswersRead
  <2>2. ota_ota' = ota_ota \/ ota_ota' = [ota_ota EXCEPT !.start = 4, !.handle = ota_link]
    BY <1>6 DEF HOta!AnswersRead
  <2>3. ota_ota' \in OtaVars
    <3>1. ota_link \in Devices \cup {NoDevice}
      BY <1>0
    <3>2. \A v \in Devices \cup {NoDevice} : [ota_ota EXCEPT !.start = 4, !.handle = v] \in OtaVars
      BY <1>0, OtaMoreFields, Zenon
    <3>3. [ota_ota EXCEPT !.start = 4, !.handle = ota_link] \in OtaVars
      BY <3>1, <3>2, Zenon
    <3> QED BY <1>0, <2>2, <3>3, Zenon
  <2> QED BY <1>0, <1>6, <2>1, <2>3 DEF HOta!AnswersRead, HOta!hostVars, HOta!OwnHandle, OtaVars
<1>7. CASE HOta!Delivered
  <2>1. ota_air' = Tail(ota_air) /\ ota_air # <<>> /\ ota_air \in Seq(HOta!Command)
        /\ Len(ota_air) <= TxFifo /\ TxFifo \in Nat
    BY <1>0, <1>7 DEF HOta!Delivered, HOta!HostOtaAssumption
  <2>2. ota_air' \in Seq(HOta!Command) /\ Len(ota_air') <= TxFifo /\ Head(ota_air) \in HOta!Command
    BY <2>1
  <2>3. HOta!OwnHandle'
    BY <1>0, <2>1 DEF HOta!OwnHandle
  <2>4. ota_got' \in Seq(HOta!Command)
    BY <1>0, <1>7, <2>2 DEF HOta!Delivered
  <2> QED BY <1>0, <1>7, <2>2, <2>3, <2>4 DEF HOta!Delivered, HOta!hostVars
<1>8. CASE HOta!Settles
  <2>1. ota_busy' \in BOOLEAN
    BY <1>8, Zenon DEF HOta!Settles
  <2> QED BY <1>0, <1>8, <2>1 DEF HOta!Settles, HOta!OwnHandle
<1>9. ASSUME NEW d \in Devices, HOta!Establish(d)
      PROVE  HOta!TypeOK' /\ HOta!OwnHandle'
  <2>1. ota_busy' \in BOOLEAN
    BY <1>9, Zenon DEF HOta!Establish
  <2> QED BY <1>0, <1>9, <2>1 DEF HOta!Establish, HOta!OwnHandle
<1>10. CASE HOta!Disconnect
  <2>1. ota_noticed' \in BOOLEAN /\ ota_busy' \in BOOLEAN /\ ota_reading' \in BOOLEAN
    BY <1>10, Zenon DEF HOta!Disconnect
  <2>2. ota_air' = <<>> /\ TxFifo \in Nat
    BY <1>10 DEF HOta!Disconnect, HOta!HostOtaAssumption
  <2> QED BY <1>0, <1>10, <2>1, <2>2 DEF HOta!Disconnect, HOta!OwnHandle
<1>11. CASE HOta!Expires
  <2>1. ota_expired' \in BOOLEAN
    BY <1>11, Zenon DEF HOta!Expires
  <2> QED BY <1>0, <1>11, <2>1 DEF HOta!Expires, HOta!hostVars, HOta!OwnHandle
<1>12. CASE UNCHANGED HOta!vars
  BY <1>0, <1>12 DEF HOta!vars, HOta!hostVars, HOta!OwnHandle
<1> QED
  BY <1>1, <1>2, <1>3, <1>4, <1>5, <1>6, <1>7, <1>8, <1>9, <1>10, <1>11, <1>12 DEF HOta!Next

\* The fields of the program that a step leaves alone.
LEMMA OtaStarts ==
  ASSUME UpdateInv
  PROVE  /\ HOta!ota_set_result(FALSE) => ota_ota'.start = 0
         /\ HOta!Begin => ota_ota'.start \in {0, 1} /\ ota_ota.start = 0
         /\ HOta!FindHandle => ota_ota'.start = 3
         /\ HOta!SendStart => /\ ota_ota'.start = 5 /\ ota_ota.start = 4 /\ ota_ota'.adr = 0
                              /\ ota_ota'.handle = ota_ota.handle /\ ota_ota'.img = ota_ota.img
         /\ HOta!NextStep => /\ ota_ota.start \in {5, 7} /\ ota_ota'.start = ota_ota.start + 1
                             /\ ota_ota'.handle = ota_ota.handle /\ ota_ota'.img = ota_ota.img
                             /\ ota_ota'.adr = ota_ota.adr
         /\ HOta!SendEnd => /\ ota_ota.start = 8 /\ ota_ota'.start = 9
                            /\ ota_ota'.handle = ota_ota.handle /\ ota_ota'.img = ota_ota.img
                            /\ ota_ota'.adr = ota_ota.adr
         /\ HOta!Finish => ota_ota.start = 9 /\ ota_ota'.start = 0
         /\ HOta!SendData => /\ ota_ota.start = 6 /\ ota_ota'.start \in {6, 7}
                             /\ ota_ota'.handle = ota_ota.handle /\ ota_ota'.img = ota_ota.img
<1>0. ota_ota \in OtaVars
  BY DEF UpdateInv, HOta!TypeOK, OtaVars
<1>1. HOta!ota_set_result(FALSE) => ota_ota'.start = 0
  BY <1>0 DEF HOta!ota_set_result, OtaVars
<1>2. HOta!Begin => ota_ota'.start \in {0, 1} /\ ota_ota.start = 0
  BY <1>0 DEF HOta!Begin, OtaVars
<1>3. HOta!FindHandle => ota_ota'.start = 3
  BY <1>0 DEF HOta!FindHandle, OtaVars
<1>4. HOta!SendStart => /\ ota_ota'.start = 5 /\ ota_ota.start = 4 /\ ota_ota'.adr = 0
                        /\ ota_ota'.handle = ota_ota.handle /\ ota_ota'.img = ota_ota.img
  BY <1>0 DEF HOta!SendStart, OtaVars
<1>5. HOta!NextStep => /\ ota_ota.start \in {5, 7} /\ ota_ota'.start = ota_ota.start + 1
                       /\ ota_ota'.handle = ota_ota.handle /\ ota_ota'.img = ota_ota.img
                       /\ ota_ota'.adr = ota_ota.adr
  BY <1>0 DEF HOta!NextStep, OtaVars
<1>6. HOta!SendEnd => /\ ota_ota.start = 8 /\ ota_ota'.start = 9
                      /\ ota_ota'.handle = ota_ota.handle /\ ota_ota'.img = ota_ota.img
                      /\ ota_ota'.adr = ota_ota.adr
  BY <1>0 DEF HOta!SendEnd, OtaVars
<1>7. HOta!Finish => ota_ota.start = 9 /\ ota_ota'.start = 0
  BY <1>0 DEF HOta!Finish, HOta!ota_set_result, OtaVars
<1>8. HOta!SendData => /\ ota_ota.start = 6 /\ ota_ota'.start \in {6, 7}
                       /\ ota_ota'.handle = ota_ota.handle /\ ota_ota'.img = ota_ota.img
  BY <1>0 DEF HOta!SendData, OtaVars
<1> QED BY <1>1, <1>2, <1>3, <1>4, <1>5, <1>6, <1>7, <1>8

LEMMA SessionStep ==
  ASSUME HOta!HostOtaAssumption, ~ Stale, UpdateInv, [HOta!Next]_(HOta!vars)
  PROVE  SessionInv' /\ HOta!ParametersOfLink'
<1> USE DEF HOta!Up
<1>0. /\ SessionInv /\ HOta!ParametersOfLink /\ ota_ota \in OtaVars /\ ota_ota.start \in 0 .. 9
      /\ ota_link \in Devices \cup {NoDevice} /\ "none" \notin Devices /\ "fast" \notin Devices
      /\ NoDevice \notin Devices
  BY DEF UpdateInv, HOta!TypeOK, OtaVars, HOta!HostOtaAssumption
<1>1. CASE HOta!proc_ota
  <2>1. UNCHANGED <<ota_rom, ota_link, ota_busy, ota_req, ota_got>>
    BY <1>1, OtaPoll
  <2>2. HOta!ParametersOfLink'
    BY <1>0, <1>1, <2>1, OtaPoll DEF HOta!ParametersOfLink
  <2>3. ota_noticed'
    BY <1>1, Zenon DEF HOta!proc_ota
  <2>4. CASE ~ HOta!Up
    <3>1. \/ HOta!ota_set_result(FALSE) \/ HOta!Begin
          \/ UNCHANGED <<ota_ota, ota_expired, ota_lit, ota_reading, ota_air>> /\ ota_ota.start = 0
      BY <1>1, <2>4, OtaPoll
    <3>2. UNCHANGED <<ota_reading, ota_air>>
      BY <3>1 DEF HOta!ota_set_result, HOta!Begin
    <3>3. ota_ota'.start \in {0, 1}
      BY <3>1, OtaStarts
    <3>4. UNCHANGED ota_update
      BY <1>1, <2>4, OtaPoll
    <3>5. ota_reading = FALSE /\ ota_air = <<>> /\ ota_update = "none" /\ ota_req = NoDevice
      BY <1>0, <2>4, Zenon DEF SessionInv
    <3>6. ota_reading' = FALSE /\ ota_air' = <<>> /\ ota_update' = "none" /\ ota_req' = NoDevice
      BY <2>1, <3>2, <3>4, <3>5, Zenon
    <3>7. ~ HOta!Up'
      BY <2>1, <2>4
    <3> QED BY <2>2, <2>3, <3>3, <3>6, <3>7, Zenon DEF SessionInv
  <2>5. CASE HOta!Up
    <3>1. HOta!Up'
      BY <2>1, <2>5
    <3>2. ota_ota'.start >= 4 => ota_ota'.handle = ota_link'
      <4>1. CASE HOta!ota_set_result(FALSE) \/ HOta!Begin \/ HOta!FindHandle \/ HOta!Finish
        <5>1. HOta!Finish => ota_ota'.start = 0
          BY OtaStarts
        <5>2. (HOta!ota_set_result(FALSE) => ota_ota'.start = 0) /\ (HOta!FindHandle => ota_ota'.start = 3)
          BY OtaStarts
        <5>3. HOta!Begin => ota_ota'.start \in {0, 1}
          BY OtaStarts
        <5>4. ota_ota'.start \in {0, 1, 3}
          BY ONLY <4>1, <5>1, <5>2, <5>3
        <5> QED BY ONLY <5>4
      <4>2. CASE ota_ota' = [ota_ota EXCEPT !.pending = 2]
        BY <1>0, <2>1, <2>5, <4>2 DEF SessionInv, OtaVars
      <4>3. CASE HOta!SendStart \/ HOta!NextStep \/ HOta!SendData \/ HOta!SendEnd
        <5>1. ota_ota.start >= 4 /\ ota_ota'.handle = ota_ota.handle
          BY <4>3, OtaStarts
        <5> QED BY <1>0, <2>1, <2>5, <5>1 DEF SessionInv
      <4>4. CASE UNCHANGED ota_ota
        BY <1>0, <2>1, <2>5, <4>4 DEF SessionInv
      <4>5. \/ HOta!ota_set_result(FALSE) \/ HOta!Begin \/ HOta!FindHandle \/ HOta!Finish
            \/ ota_ota' = [ota_ota EXCEPT !.pending = 2]
            \/ HOta!SendStart \/ HOta!NextStep \/ HOta!SendData \/ HOta!SendEnd
            \/ UNCHANGED ota_ota
        BY <1>1, OtaPoll DEF Steps
      <4> QED BY <4>1, <4>2, <4>3, <4>4, <4>5
    <3> QED BY <2>2, <2>3, <3>1, <3>2, Zenon DEF SessionInv
  <2> QED BY <2>4, <2>5
<1>2. ASSUME NEW c \in HOta!Image, HOta!Button(c)
      PROVE  SessionInv' /\ HOta!ParametersOfLink'
  BY <1>0, <1>2 DEF HOta!Button, HOta!hostVars, SessionInv, HOta!ParametersOfLink, OtaVars
<1>3. CASE HOta!AsksParameters
  BY <1>0, <1>3 DEF HOta!AsksParameters, SessionInv, HOta!ParametersOfLink
<1>4. CASE HOta!host_update_conn_proc
  BY <1>0, <1>4 DEF HOta!host_update_conn_proc, SessionInv, HOta!ParametersOfLink
<1>5. CASE HOta!UpdateCompletes
  <2>1. /\ UNCHANGED <<ota_link, ota_noticed, ota_req, ota_reading, ota_air>>
        /\ ota_update # "none" /\ ota_update' = "none"
    BY <1>5 DEF HOta!UpdateCompletes, HOta!hostVars
  <2>2. HOta!Up
    BY <1>0, <2>1 DEF SessionInv
  <2>3. PICK k \in 0 .. 9 : k = IF ota_ota.start = 1 THEN 2 ELSE ota_ota.start
    BY <1>0
  <2>4. ota_ota' = ota_ota \/ ota_ota' = [ota_ota EXCEPT !.pending = 0, !.start = k]
    BY <1>5, <2>3 DEF HOta!UpdateCompletes
  <2>5. ota_ota'.start >= 4 => ota_ota'.handle = ota_ota.handle /\ ota_ota.start >= 4
    <3>1. CASE ota_ota' = [ota_ota EXCEPT !.pending = 0, !.start = k]
      <4>1. ota_ota'.start = k /\ ota_ota'.handle = ota_ota.handle
        BY <1>0, <3>1 DEF OtaVars
      <4> QED BY <1>0, <2>3, <4>1
    <3> QED BY <2>4, <3>1
  <2> QED BY <1>0, <2>1, <2>2, <2>5 DEF SessionInv, HOta!ParametersOfLink
<1>6. CASE HOta!AnswersRead
  <2>1. /\ UNCHANGED <<ota_link, ota_noticed, ota_req, ota_update, ota_air>>
        /\ ota_reading
    BY <1>6 DEF HOta!AnswersRead, HOta!hostVars
  <2>2. ota_reading # FALSE
    BY <2>1, Zenon
  <2>3. HOta!Up
    BY <1>0, <2>2, Zenon DEF SessionInv
  <2>4. ota_ota' = ota_ota \/ ota_ota' = [ota_ota EXCEPT !.start = 4, !.handle = ota_link]
    BY <1>6 DEF HOta!AnswersRead
  <2>5. ota_ota' = ota_ota \/ ota_ota'.handle = ota_link
    BY <1>0, <2>4 DEF OtaVars
  <2> QED BY <1>0, <2>1, <2>3, <2>5 DEF SessionInv, HOta!ParametersOfLink
<1>7. CASE HOta!Delivered
  BY <1>0, <1>7 DEF HOta!Delivered, HOta!hostVars, SessionInv, HOta!ParametersOfLink
<1>8. CASE HOta!Settles
  BY <1>0, <1>8 DEF HOta!Settles, SessionInv, HOta!ParametersOfLink
<1>9. ASSUME NEW d \in Devices, HOta!Establish(d)
      PROVE  SessionInv' /\ HOta!ParametersOfLink'
  <2>1. /\ ~ HOta!Up /\ ota_noticed /\ ota_link' = d /\ HOta!Up'
        /\ UNCHANGED <<ota_noticed, ota_req, ota_update, ota_ota>>
    BY <1>0, <1>9 DEF HOta!Establish
  <2>2. ota_ota.start \in {0, 1} /\ ota_update = "none" /\ ota_req = NoDevice
    BY <1>0, <2>1 DEF SessionInv
  <2> QED BY <1>0, <2>1, <2>2 DEF SessionInv, HOta!ParametersOfLink
<1>10. CASE HOta!Disconnect
  <2>1. ota_reading' = FALSE /\ ~ ota_noticed'
    BY <1>10, Zenon DEF HOta!Disconnect
  <2>2. ~ HOta!Up' /\ ota_air' = <<>> /\ ota_update' = "none" /\ ota_req' = NoDevice
    BY <1>10 DEF HOta!Disconnect
  <2>3. HOta!ParametersOfLink'
    BY <1>0, <2>2 DEF HOta!ParametersOfLink
  <2> QED BY <2>1, <2>2, <2>3, Zenon DEF SessionInv
<1>11. CASE HOta!Expires
  BY <1>0, <1>11 DEF HOta!Expires, HOta!hostVars, SessionInv, HOta!ParametersOfLink
<1>12. CASE UNCHANGED HOta!vars
  BY <1>0, <1>12 DEF HOta!vars, HOta!hostVars, SessionInv, HOta!ParametersOfLink
<1> QED
  BY <1>1, <1>2, <1>3, <1>4, <1>5, <1>6, <1>7, <1>8, <1>9, <1>10, <1>11, <1>12 DEF HOta!Next

LEMMA SentSame ==
  ASSUME UpdateInv, HOta!Up' => HOta!Up, UNCHANGED <<ota_rom, ota_air, ota_got>>,
         ota_ota'.start \in 5 .. 9 =>
           /\ ota_ota'.start = ota_ota.start /\ ota_ota'.adr = ota_ota.adr /\ ota_ota'.img = ota_ota.img
  PROVE  SentInv'
<1> SUFFICES ASSUME HOta!Up', ota_ota'.start \in 5 .. 9
             PROVE  \E n \in Nat : SentSo(n)'
  BY DEF SentInv
<1>1. PICK n \in Nat : SentSo(n)
  BY DEF UpdateInv, SentInv
<1>2. Commands(n)' = Commands(n)
  BY DEF Commands, Closed, Blocks, HOta!Start, HOta!Data, HOta!End
<1>3. SentSo(n)'
  BY <1>1, <1>2 DEF SentSo, Carried, Waiting, Arrived
<1> QED BY <1>3

LEMMA SentStep ==
  ASSUME HOta!HostOtaAssumption, ~ Stale, UpdateInv, [HOta!Next]_(HOta!vars)
  PROVE  SentInv'
<1>0. /\ SessionInv /\ ota_ota \in OtaVars /\ ota_ota.start \in 0 .. 9 /\ ota_ota.img \in HOta!Image
      /\ ota_air \in Seq(HOta!Command) /\ ota_got \in Seq(HOta!Command)
      /\ Block \in Nat \ {0} /\ ota_rom[ota_ota.img] \in Nat \ {0}
  BY DEF UpdateInv, HOta!TypeOK, OtaVars, HOta!HostOtaAssumption, HOta!Image
<1>1. CASE HOta!proc_ota
  <2>1. UNCHANGED <<ota_rom, ota_link, ota_busy, ota_req, ota_got>> /\ (HOta!Up' <=> HOta!Up)
    BY <1>1, OtaPoll DEF HOta!Up
  <2>2. CASE ota_ota'.start \notin 5 .. 9
    BY <2>2 DEF SentInv
  <2>3. CASE UNCHANGED ota_air /\ (ota_ota' = ota_ota \/ ota_ota' = [ota_ota EXCEPT !.pending = 2])
    <3>1. /\ ota_ota'.start = ota_ota.start /\ ota_ota'.adr = ota_ota.adr
          /\ ota_ota'.img = ota_ota.img
      BY <1>0, <2>3 DEF OtaVars
    <3> QED BY <2>1, <2>3, <3>1, SentSame
  <2>4. CASE HOta!Up /\ HOta!SendStart
    <3>1. /\ ota_ota'.start = 5 /\ ota_ota.start = 4 /\ ota_ota'.adr = 0 /\ ota_ota'.img = ota_ota.img
      BY <2>4, OtaStarts
    <3>2. ota_air' = Append(ota_air, HOta!Start)
      BY <1>0, <2>4, <3>1, SessionCommands, PushedOne DEF HOta!SendStart
    <3>3. HOta!Start \in HOta!Command
      BY <1>0, SessionCommands
    <3>4. Blocks(ota_ota.img, 0)' = [i \in 1 .. 1 |-> IF i = 1 THEN HOta!Start ELSE HOta!Data(ota_ota.img, i - 2)]
      BY <3>1 DEF Blocks, HOta!Start, HOta!Data
    <3>5. Waiting(ota_air, Blocks(ota_ota.img, 0))'
      <4>1. PICK l \in Nat : l = Len(ota_air)
        BY <1>0
      <4>2. Len(ota_air') = l + 1 /\ ota_air'[l + 1] = HOta!Start
        BY <1>0, <3>2, <3>3, <4>1, AppendedTo
      <4>3. Len(Blocks(ota_ota.img, 0)') = 1 /\ Blocks(ota_ota.img, 0)'[1] = HOta!Start
        BY <3>4
      <4>4. PICK b : b = Blocks(ota_ota.img, 0)'
        OBVIOUS
      <4>5. Len(b) = 1 /\ b[1] = HOta!Start
        BY ONLY <4>3, <4>4
      <4>6. PICK a : a = ota_air'
        OBVIOUS
      <4>7. Len(a) = l + 1 /\ a[l + 1] = HOta!Start
        BY ONLY <4>2, <4>6
      <4>8. Waiting(a, b)
        BY ONLY <4>5, <4>7, l \in Nat DEF Waiting
      <4> QED BY <4>4, <4>6, <4>8 DEF Waiting
    <3>6. Carried(ota_air, ota_got, Commands(0))'
      BY <3>1, <3>5 DEF Carried, Commands
    <3>7. 0 = 0 * Block /\ 0 < ota_rom[ota_ota.img] + Block
      BY <1>0
    <3>8. SentSo(0)'
      BY <2>1, <3>1, <3>6, <3>7 DEF SentSo
    <3> QED BY <3>8 DEF SentInv
  <2>5. CASE HOta!Up /\ HOta!NextStep
    <3>1. /\ ota_ota.start \in {5, 7} /\ ota_ota'.start = ota_ota.start + 1
          /\ ota_ota'.img = ota_ota.img /\ ota_ota'.adr = ota_ota.adr
      BY <2>5, OtaStarts
    <3>2. PICK n \in Nat : SentSo(n)
      BY <2>5, <3>1 DEF UpdateInv, SentInv
    <3>3. Commands(n)' = Commands(n)
      BY <3>1 DEF Commands, Blocks, HOta!Start, HOta!Data
    <3>4. UNCHANGED ota_air
      BY <2>5 DEF HOta!NextStep
    <3>5. Carried(ota_air, ota_got, Commands(n))'
      BY <2>1, <3>2, <3>3, <3>4 DEF SentSo, Carried, Waiting, Arrived
    <3>6. SentSo(n)'
      BY <2>1, <3>1, <3>2, <3>5 DEF SentSo
    <3> QED BY <3>6 DEF SentInv
  <2>6. CASE HOta!Up /\ HOta!SendData
    <3>1. /\ ota_ota.start = 6 /\ ota_ota'.start \in {6, 7} /\ ota_ota'.img = ota_ota.img
      BY <2>6, OtaStarts
    <3>2. PICK n \in Nat : SentSo(n) /\ ota_ota.adr \div Block = n
      BY <2>6, <3>1, BlocksSent
    <3>3. CASE ota_ota.adr < ota_rom[ota_ota.img]
      <4>1. ota_ota'.start = 6 /\ ota_ota'.adr = ota_ota.adr + Block
        BY <1>0, <2>6, <3>3 DEF HOta!SendData, OtaVars
      <4>2. ota_air' = Append(ota_air, HOta!Data(ota_ota.img, n))
        BY <1>0, <2>6, <3>1, <3>2, <3>3, SessionCommands, PushedOne DEF HOta!SendData
      <4>3. Commands(n + 1)' = Append(Blocks(ota_ota.img, n), HOta!Data(ota_ota.img, n))
        <5>1. Commands(n + 1)' = Blocks(ota_ota.img, n + 1)
          BY <3>1, <4>1 DEF Commands, Blocks, HOta!Start, HOta!Data
        <5> QED BY <1>0, <5>1, SessionLengths
      <4>4. Carried(ota_air, ota_got, Blocks(ota_ota.img, n))
        BY <3>1, <3>2 DEF SentSo, Commands
      <4>5. Carried(Append(ota_air, HOta!Data(ota_ota.img, n)), ota_got,
                    Append(Blocks(ota_ota.img, n), HOta!Data(ota_ota.img, n)))
        <5>1. Blocks(ota_ota.img, n) \in Seq(HOta!Command) /\ HOta!Data(ota_ota.img, n) \in HOta!Command
          BY <1>0, SessionLengths, SessionCommands
        <5> QED BY <1>0, <4>4, <5>1, MoreCarried
      <4>6. Carried(ota_air, ota_got, Commands(n + 1))'
        BY <2>1, <4>2, <4>3, <4>5 DEF Carried, Waiting, Arrived
      <4>7. n * Block \in Nat /\ ota_ota'.adr = (n + 1) * Block
        BY <1>0, <3>2, <4>1, MoreBlocks DEF SentSo
      <4>8. ota_ota'.adr < ota_rom[ota_ota.img] + Block
        BY <1>0, <3>3, <4>1 DEF OtaVars
      <4>9. SentSo(n + 1)'
        BY <2>1, <3>1, <4>1, <4>6, <4>7, <4>8 DEF SentSo
      <4> QED BY <4>9 DEF SentInv
    <3>4. CASE ~ (ota_ota.adr < ota_rom[ota_ota.img])
      <4>1. ota_ota'.start = 7 /\ ota_ota'.adr = ota_ota.adr /\ UNCHANGED ota_air
        BY <1>0, <2>6, <3>4 DEF HOta!SendData, OtaVars
      <4>2. Commands(n)' = Commands(n)
        BY <3>1, <4>1 DEF Commands, Blocks, HOta!Start, HOta!Data
      <4>3. Carried(ota_air, ota_got, Commands(n))'
        BY <2>1, <3>2, <4>1, <4>2 DEF SentSo, Carried, Waiting, Arrived
      <4>4. ota_ota.adr >= ota_rom[ota_ota.img]
        BY <1>0, <3>4 DEF OtaVars
      <4>5. SentSo(n)'
        BY <2>1, <3>1, <3>2, <4>1, <4>3, <4>4 DEF SentSo
      <4> QED BY <4>5 DEF SentInv
    <3> QED BY <3>3, <3>4
  <2>7. CASE HOta!Up /\ HOta!SendEnd
    <3>1. /\ ota_ota.start = 8 /\ ota_ota'.start = 9 /\ ota_ota'.img = ota_ota.img
          /\ ota_ota'.adr = ota_ota.adr
      BY <2>7, OtaStarts
    <3>2. PICK n \in Nat : SentSo(n) /\ n > 0 /\ (ota_ota.adr - Block) \div Block = n - 1
      BY <2>7, <3>1, BlocksSent
    <3>3. PICK k \in Nat : k = n - 1
      BY <3>2
    <3>4. ota_air' = Append(ota_air, HOta!End(k))
      BY <1>0, <2>7, <3>1, <3>2, <3>3, SessionCommands, PushedOne DEF HOta!SendEnd
    <3>5. Commands(n)' = Append(Blocks(ota_ota.img, n), HOta!End(k))
      BY <3>1, <3>3 DEF Commands, Closed, Blocks, HOta!Start, HOta!Data, HOta!End
    <3>6. Carried(ota_air, ota_got, Blocks(ota_ota.img, n))
      BY <3>1, <3>2 DEF SentSo, Commands
    <3>7. Carried(Append(ota_air, HOta!End(k)), ota_got, Append(Blocks(ota_ota.img, n), HOta!End(k)))
      <4>1. Blocks(ota_ota.img, n) \in Seq(HOta!Command) /\ HOta!End(k) \in HOta!Command
        BY <1>0, SessionLengths, SessionCommands
      <4> QED BY <1>0, <3>6, <4>1, MoreCarried
    <3>8. Carried(ota_air, ota_got, Commands(n))'
      BY <2>1, <3>4, <3>5, <3>7 DEF Carried, Waiting, Arrived
    <3>9. SentSo(n)'
      BY <2>1, <3>1, <3>2, <3>8 DEF SentSo
    <3> QED BY <3>9 DEF SentInv
  <2>8. CASE HOta!ota_set_result(FALSE) \/ HOta!Begin \/ HOta!FindHandle \/ HOta!Finish
    <3>1. HOta!Finish => ota_ota'.start = 0
      BY OtaStarts
    <3>2. (HOta!ota_set_result(FALSE) => ota_ota'.start = 0) /\ (HOta!FindHandle => ota_ota'.start = 3)
      BY OtaStarts
    <3>3. HOta!Begin => ota_ota'.start \in {0, 1}
      BY OtaStarts
    <3>4. ota_ota'.start \in {0, 1, 3}
      BY ONLY <2>8, <3>1, <3>2, <3>3
    <3>5. ota_ota'.start \notin 5 .. 9
      BY ONLY <3>4
    <3> QED BY <2>2, <3>5
  <2> QED BY <1>1, <2>3, <2>4, <2>5, <2>6, <2>7, <2>8, OtaPoll DEF Steps
<1>2. CASE HOta!Delivered
  <2>1. /\ UNCHANGED <<ota_rom, ota_link, ota_ota>> /\ ota_air # <<>> /\ ota_air' = Tail(ota_air)
        /\ ota_got' = IF Head(ota_air) = HOta!Start THEN <<HOta!Start>>
                      ELSE Append(ota_got, Head(ota_air))
    BY <1>2 DEF HOta!Delivered, HOta!hostVars
  <2> SUFFICES ASSUME HOta!Up', ota_ota'.start \in 5 .. 9
               PROVE  \E n \in Nat : SentSo(n)'
    BY DEF SentInv
  <2>2. HOta!Up /\ ota_ota.start \in 5 .. 9
    BY <2>1 DEF HOta!Up
  <2>3. PICK n \in Nat : SentSo(n) /\ (ota_ota.start >= 7 => n > 0)
    BY <2>2, BlocksSent
  <2>4. /\ Commands(n) \in Seq(HOta!Command) /\ Len(Commands(n)) > 0 /\ Commands(n)[1] = HOta!Start
        /\ \A i \in 2 .. Len(Commands(n)) : Commands(n)[i] # HOta!Start
    <3>1. CASE ota_ota.start = 9
      <4>1. Commands(n) = Closed(ota_ota.img, n) /\ n # 0
        BY <2>3, <3>1 DEF Commands
      <4>2. /\ Closed(ota_ota.img, n) \in Seq(HOta!Command) /\ Len(Closed(ota_ota.img, n)) = n + 2
            /\ Closed(ota_ota.img, n)[1] = HOta!Start
            /\ \A i \in 2 .. n + 2 : Closed(ota_ota.img, n)[i] # HOta!Start
        BY <1>0, <4>1, SessionLengths
      <4>3. n + 2 > 0
        OBVIOUS
      <4> QED BY ONLY <4>1, <4>2, <4>3
    <3>2. CASE ota_ota.start # 9
      <4>1. Commands(n) = Blocks(ota_ota.img, n)
        BY <3>2 DEF Commands
      <4>2. /\ Blocks(ota_ota.img, n) \in Seq(HOta!Command) /\ Len(Blocks(ota_ota.img, n)) = n + 1
            /\ Blocks(ota_ota.img, n)[1] = HOta!Start
            /\ \A i \in 2 .. n + 1 : Blocks(ota_ota.img, n)[i] # HOta!Start
        BY <1>0, SessionLengths
      <4>3. n + 1 > 0
        OBVIOUS
      <4> QED BY ONLY <4>1, <4>2, <4>3
    <3> QED BY <3>1, <3>2
  <2>5. Carried(Tail(ota_air), IF Head(ota_air) = HOta!Start THEN <<HOta!Start>>
                               ELSE Append(ota_got, Head(ota_air)), Commands(n))
    <3>1. HOta!Start \in HOta!Command /\ Carried(ota_air, ota_got, Commands(n))
      BY <1>0, <2>3, SessionCommands DEF SentSo
    <3> HIDE DEF Commands
    <3> QED BY <1>0, <2>1, <2>4, <3>1, CarriedOver
  <2>6. Commands(n)' = Commands(n)
    BY <2>1 DEF Commands, Closed, Blocks, HOta!Start, HOta!Data, HOta!End
  <2>7. Carried(ota_air, ota_got, Commands(n))'
    BY <2>1, <2>5, <2>6 DEF Carried, Waiting, Arrived
  <2>8. SentSo(n)'
    BY <2>1, <2>3, <2>7 DEF SentSo
  <2> QED BY <2>8
<1>3. ASSUME NEW d \in Devices, HOta!Establish(d)
      PROVE  SentInv'
  <2>1. ~ HOta!Up /\ ota_noticed /\ UNCHANGED ota_ota
    BY <1>3 DEF HOta!Establish
  <2>2. ota_ota.start \in {0, 1}
    BY <1>0, <2>1 DEF SessionInv
  <2> QED BY <2>1, <2>2 DEF SentInv
<1>4. CASE HOta!Disconnect
  BY <1>4 DEF HOta!Disconnect, SentInv, HOta!Up
<1>5. ASSUME NEW c \in HOta!Image, HOta!Button(c)
      PROVE  SentInv'
  <2>1. UNCHANGED <<ota_rom, ota_link, ota_air, ota_got>> /\ ota_ota' = [ota_ota EXCEPT !.cmd = c]
    BY <1>5 DEF HOta!Button, HOta!hostVars
  <2>2. /\ ota_ota'.start = ota_ota.start /\ ota_ota'.adr = ota_ota.adr
        /\ ota_ota'.img = ota_ota.img
    BY <1>0, <2>1 DEF OtaVars
  <2> QED BY <2>1, <2>2, SentSame DEF HOta!Up
<1>6. CASE HOta!AnswersRead
  <2>1. UNCHANGED <<ota_rom, ota_link, ota_air, ota_got>>
    BY <1>6 DEF HOta!AnswersRead, HOta!hostVars
  <2>2. ota_ota' = ota_ota \/ ota_ota' = [ota_ota EXCEPT !.start = 4, !.handle = ota_link]
    BY <1>6 DEF HOta!AnswersRead
  <2>3. ota_ota' = ota_ota \/ ota_ota'.start = 4
    BY <1>0, <2>2 DEF OtaVars
  <2> QED BY <2>1, <2>3, SentSame DEF HOta!Up
<1>7. CASE HOta!UpdateCompletes
  <2>1. UNCHANGED <<ota_rom, ota_link, ota_air, ota_got>>
    BY <1>7 DEF HOta!UpdateCompletes, HOta!hostVars
  <2>2. PICK k \in 0 .. 9 : k = IF ota_ota.start = 1 THEN 2 ELSE ota_ota.start
    BY <1>0
  <2>3. ota_ota' = ota_ota \/ ota_ota' = [ota_ota EXCEPT !.pending = 0, !.start = k]
    BY <1>7, <2>2 DEF HOta!UpdateCompletes
  <2>4. CASE ota_ota' = [ota_ota EXCEPT !.pending = 0, !.start = k]
    <3>1. ota_ota'.start = k /\ ota_ota'.adr = ota_ota.adr /\ ota_ota'.img = ota_ota.img
      BY <1>0, <2>4 DEF OtaVars
    <3>2. k \in 5 .. 9 => k = ota_ota.start
      BY <2>2
    <3> QED BY <2>1, <3>1, <3>2, SentSame DEF HOta!Up
  <2> QED BY <2>1, <2>3, <2>4, SentSame DEF HOta!Up
<1>8. CASE UNCHANGED <<ota_rom, ota_link, ota_ota, ota_air, ota_got>>
  BY <1>8, SentSame DEF HOta!Up
<1>9. \/ HOta!proc_ota \/ HOta!Delivered \/ HOta!Disconnect \/ HOta!AnswersRead
      \/ HOta!UpdateCompletes \/ UNCHANGED <<ota_rom, ota_link, ota_ota, ota_air, ota_got>>
      \/ (\E d \in Devices : HOta!Establish(d)) \/ (\E c \in HOta!Image : HOta!Button(c))
  BY DEF HOta!Next, HOta!vars, HOta!hostVars, HOta!AsksParameters, HOta!host_update_conn_proc,
         HOta!Settles, HOta!Expires
<1> QED BY <1>1, <1>2, <1>3, <1>4, <1>5, <1>6, <1>7, <1>8, <1>9

LEMMA UpdateHolds ==
  ASSUME HOta!HostOtaAssumption, ~ Stale
  PROVE  HOta!Spec => []UpdateInv
<1>1. HOta!Init => UpdateInv
  BY UpdateStart
<1>2. UpdateInv /\ [HOta!Next]_(HOta!vars) => UpdateInv'
  BY UpdateTypes, SessionStep, SentStep DEF UpdateInv
<1> QED BY <1>1, <1>2, PTL DEF HOta!Spec

\* The variables of an update that the dongle gives stay in their types.
THEOREM OtaTypeCorrect ==
  ASSUME HOta!HostOtaAssumption, ~ Stale
  PROVE  HOta!Spec => []HOta!TypeOK
<1>1. UpdateInv => HOta!TypeOK
  BY DEF UpdateInv
<1> QED BY <1>1, UpdateHolds, PTL

\* Connection parameters that a device asked for are of the link with that device.
THEOREM OtaParametersOfLink ==
  ASSUME HOta!HostOtaAssumption, ~ Stale
  PROVE  HOta!Spec => []HOta!ParametersOfLink
<1>1. UpdateInv => HOta!ParametersOfLink
  BY DEF UpdateInv
<1> QED BY <1>1, UpdateHolds, PTL

\* No command of an update is written to a handle of another device.
THEOREM OtaOwnHandle ==
  ASSUME HOta!HostOtaAssumption, ~ Stale
  PROVE  HOta!Spec => []HOta!OwnHandle
<1>1. UpdateInv => HOta!OwnHandle
  BY DEF UpdateInv
<1> QED BY <1>1, UpdateHolds, PTL

LEMMA AppendedOne ==
  ASSUME NEW T, NEW s \in Seq(T), NEW c \in T
  PROVE  Append(s, c) = s \o <<c>>
<1> DEFINE a == Append(s, c)
           b == s \o <<c>>
<1>1. a \in Seq(T) /\ Len(a) = Len(s) + 1 /\ b \in Seq(T) /\ Len(b) = Len(s) + 1
  OBVIOUS
<1>2. \A i \in 1 .. Len(s) + 1 : a[i] = b[i]
  OBVIOUS
<1> HIDE DEF a, b
<1> QED BY <1>1, <1>2 DEF a, b

LEMMA AllArrived ==
  ASSUME HOta!HostOtaAssumption, UpdateInv, HOta!Up, ota_ota.start = 9, ota_air = <<>>
  PROVE  ota_got = HOta!Whole(ota_ota.img)
<1>1. PICK n \in Nat : SentSo(n) /\ n > 0 /\ HOta!LastBlock(ota_ota.img) = n - 1
  BY BlocksSent
<1>2. ota_ota.img \in HOta!Image /\ ota_got \in Seq(HOta!Command)
  BY DEF UpdateInv, HOta!TypeOK
<1> DEFINE s == Closed(ota_ota.img, n)
<1>3. s \in Seq(HOta!Command) /\ Len(s) = n + 2
  BY <1>1, <1>2, SessionLengths
<1>4. Carried(<<>>, ota_got, s)
  BY <1>1 DEF SentSo, Commands
<1>5. ota_got = s
  <2> HIDE DEF s
  <2>1. ~ Waiting(<<>>, s)
    BY <1>3 DEF Waiting
  <2>2. Len(ota_got) = Len(s) /\ \A i \in 1 .. Len(ota_got) : ota_got[i] = s[i]
    BY <1>2, <1>3, <1>4, <2>1 DEF Carried, Arrived
  <2> QED BY <1>2, <1>3, <2>2
<1>6. s = HOta!Whole(ota_ota.img)
  <2> DEFINE b == [i \in 1 .. n |-> HOta!Data(ota_ota.img, i - 1)]
             w == <<HOta!Start>> \o b
  <2>1. HOta!LastBlock(ota_ota.img) + 1 = n
    BY <1>1
  <2>2. HOta!Whole(ota_ota.img) = w \o <<HOta!End(n - 1)>>
    BY <1>1, <2>1 DEF HOta!Whole
  <2>3. w = Blocks(ota_ota.img, n)
    <3>1. \A i \in 1 .. n : b[i] \in HOta!Command
      <4> SUFFICES ASSUME NEW i \in 1 .. n
                   PROVE  HOta!Data(ota_ota.img, i - 1) \in HOta!Command
        OBVIOUS
      <4>1. PICK k \in Nat : k = i - 1
        OBVIOUS
      <4> QED BY <1>2, <4>1, SessionCommands
    <3>2. b \in Seq(HOta!Command) /\ Len(b) = n /\ HOta!Start \in HOta!Command
      BY <1>2, <3>1, SessionCommands
    <3>3. w \in Seq(HOta!Command) /\ Len(w) = n + 1 /\ w[1] = HOta!Start
          /\ \A i \in 2 .. n + 1 : w[i] = b[i - 1]
      <4> HIDE DEF b
      <4> QED BY <3>2
    <3>4. \A i \in 1 .. n + 1 : w[i] = IF i = 1 THEN HOta!Start ELSE HOta!Data(ota_ota.img, i - 2)
      <4> SUFFICES ASSUME NEW i \in 2 .. n + 1
                   PROVE  b[i - 1] = HOta!Data(ota_ota.img, i - 2)
        BY <3>3
      <4> QED OBVIOUS
    <3>5. w = [i \in 1 .. n + 1 |-> w[i]]
      <4> HIDE DEF w
      <4> QED BY <3>3
    <3> QED BY <3>4, <3>5 DEF Blocks
  <2>4. Append(Blocks(ota_ota.img, n), HOta!End(n - 1)) = Blocks(ota_ota.img, n) \o <<HOta!End(n - 1)>>
    <3>1. PICK k \in Nat : k = n - 1
      BY <1>1
    <3>2. Blocks(ota_ota.img, n) \in Seq(HOta!Command) /\ HOta!End(k) \in HOta!Command
      BY <1>2, SessionLengths, SessionCommands
    <3> QED BY <3>1, <3>2, AppendedOne
  <2> QED BY <2>2, <2>3, <2>4 DEF Closed
<1> QED BY <1>5, <1>6

\* A success is shown only when the device connected received the whole image: all its
\* blocks in order, between the start and the end, whatever was sent before.
THEOREM OtaSuccessIsWhole ==
  ASSUME HOta!HostOtaAssumption, ~ Stale
  PROVE  HOta!Spec => HOta!SuccessIsWhole
<1> DEFINE Shown == ota_ota.start = 9 /\ ota_ota'.start = 0 /\ ota_ota'.success
<1>1. UpdateInv /\ [HOta!Next]_(HOta!vars) => [Shown => ota_got = HOta!Whole(ota_ota.img)]_(HOta!vars)
  <2> SUFFICES ASSUME UpdateInv, [HOta!Next]_(HOta!vars), Shown
               PROVE  HOta!Up /\ ota_air = <<>>
    BY UpdateHolds, AllArrived
  <2>0. ota_ota \in OtaVars
    BY DEF UpdateInv, HOta!TypeOK, OtaVars
  <2>1. HOta!proc_ota
    <3>1. ASSUME NEW c \in HOta!Image, HOta!Button(c)
          PROVE  FALSE
      BY <2>0, <3>1 DEF HOta!Button, OtaVars
    <3>2. ~ HOta!UpdateCompletes
      <4> SUFFICES ASSUME HOta!UpdateCompletes
                   PROVE  ota_ota'.start # 0
        OBVIOUS
      <4>1. ota_ota' = ota_ota \/ ota_ota' = [ota_ota EXCEPT !.pending = 0, !.start = 9]
        BY DEF HOta!UpdateCompletes
      <4>2. CASE ota_ota' = [ota_ota EXCEPT !.pending = 0, !.start = 9]
        BY <2>0, <4>2 DEF OtaVars
      <4> QED BY <4>1, <4>2
    <3>3. ~ HOta!AnswersRead
      BY DEF HOta!AnswersRead
    <3>4. ota_ota' # ota_ota
      OBVIOUS
    <3> QED
      BY <3>1, <3>2, <3>3, <3>4 DEF HOta!Next, HOta!vars, HOta!AsksParameters,
         HOta!host_update_conn_proc, HOta!Delivered, HOta!Settles, HOta!Establish, HOta!Disconnect,
         HOta!Expires
  <2>2. ~ HOta!ota_set_result(FALSE)
    <3> SUFFICES ASSUME HOta!ota_set_result(FALSE)
                 PROVE  ota_ota'.success = FALSE
      BY Zenon
    <3> QED BY <2>0 DEF HOta!ota_set_result, OtaVars
  <2>3. ota_ota' # ota_ota /\ ota_ota' # [ota_ota EXCEPT !.pending = 2]
    BY <2>0 DEF OtaVars
  <2>4. ~ HOta!Begin /\ ~ HOta!FindHandle /\ ~ HOta!SendStart /\ ~ HOta!NextStep /\ ~ HOta!SendEnd
        /\ ~ HOta!SendData
    BY DEF HOta!Begin, HOta!FindHandle, HOta!SendStart, HOta!NextStep, HOta!SendEnd, HOta!SendData
  <2>5. HOta!Up /\ HOta!Finish
    BY <2>1, <2>2, <2>3, <2>4, OtaPoll DEF Steps
  <2> QED BY <2>5 DEF HOta!Finish
<1> QED BY <1>1, UpdateHolds, PTL DEF HOta!Spec, HOta!SuccessIsWhole
=============================================================================
