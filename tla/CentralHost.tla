---------------------------- MODULE CentralHost ----------------------------
(* The central of the dongle: which device it connects to, and the simple   *)
(* service discovery it runs on a new one (vendor/ble_master_kma_dongle/     *)
(* blm_host.c, vendor/common/simple_sdp.c).                                  *)
(*                                                                           *)
(* The discovery is a call of the main loop that asks one ATT request after  *)
(* the other.  While it waits for an answer, one second at most, it runs the *)
(* main loop inside itself, and the events of the radio are handled there:   *)
(* the link may drop, and another device may connect, under a discovery that *)
(* goes on.  Every link has the same connection handle.                      *)
EXTENDS Naturals, Sequences, FiniteSets

CONSTANTS
  Devices,     \* the devices in range
  NoDevice,
  Chars,       \* a device has the characteristics 1 .. Chars, in this order
  Reports,     \* those that are HID reports, known by a report reference
  Slow,        \* may a device take longer than a second to answer?
  DropsAnyTime \* may a link drop while a discovery runs?

ASSUME CentralHostAssumption ==
  /\ NoDevice \notin Devices /\ Chars \in Nat \ {0} /\ Reports \subseteq 1 .. Chars
  /\ Slow \in BOOLEAN /\ DropsAnyTime \in BOOLEAN

VARIABLES
  link,       \* the controller: "scan", "init" (connecting) or "conn"
  peer,       \* the device the controller connects or is connected to
  air,        \* requests the peer has not answered
  cur,        \* cur_conn_device: is its handle set, and its address
  smp,        \* central_smp_pending
  sdp,        \* central_sdp_pending
  service,    \* is main_service registered?
  busy,       \* host_att_req_busy: the operation waited for, "none" for 0
  armed,      \* is p_att_response set?
  dat,        \* dat, the buffer of the discovery: a request or an answer
  run,        \* where app_service_discovery is: its step and the entry it is at
  db,         \* the characteristics it has found
  saved       \* serviceDiscovery_address and conn_char_handler

radio == <<link, peer>>
vars == <<link, peer, air, cur, smp, sdp, service, busy, armed, dat, run, db, saved>>

Char == 1 .. Chars
Ops == {"type", "info", "read"}
NoHandle == [dev |-> NoDevice, chr |-> 0]
Handle == [dev : Devices, chr : Char] \cup {NoHandle}
Message(op, dev, at) == [op |-> op, dev |-> dev, at |-> at]
Asked == Message("request", NoDevice, 0)
Idle == [at |-> "idle", entry |-> 0]
Request == [op : Ops, at : 0 .. Chars]

\* What device d answers.  The characteristic behind the place asked for, its
\* report reference descriptor, the reference, or an error.
Answer(r, d) ==
  IF r.op = "type"
  THEN IF r.at < Chars THEN Message("type", d, r.at + 1) ELSE Message("error", d, 0)
  ELSE IF r.at \in Reports THEN Message(r.op, d, r.at) ELSE Message("error", d, 0)

(***************************************************************************)
(* The discovery.                                                          *)
(***************************************************************************)

\* app_char_discovery, app_find_char_info, app_read_char_value: push a request
\* and wait.  A request pushed without a link is lost.
Ask(op, at, entry) ==
  /\ air' = IF cur.up THEN Append(air, [op |-> op, at |-> at]) ELSE air
  /\ busy' = op
  /\ armed' = TRUE
  /\ dat' = Asked
  /\ run' = [at |-> op, entry |-> entry]

\* A mistake: a registration made while the discovery ran is kept.
EndDiscoveryPending ==
  /\ run' = Idle
  /\ UNCHANGED sdp
  /\ service' = FALSE

\* The end of app_service_discovery, and of simple_sdp_loop that called it.
EndDiscovery ==
  /\ run' = Idle
  /\ sdp' = FALSE
  /\ service' = FALSE

\* simple_sdp_loop calls the registered service.
StartDiscovery ==
  /\ service
  /\ run = Idle
  /\ IF cur.up
     THEN /\ Ask("type", 0, 0)
          /\ db' = <<>>
          /\ UNCHANGED <<sdp, service>>
     ELSE /\ EndDiscovery
          /\ UNCHANGED <<air, busy, armed, dat, db>>
  /\ UNCHANGED <<radio, cur, smp, saved>>

\* What an entry is looked up by: its UUID, or the reference of the report.
Key(e) == IF e.chr \in Reports THEN e.ref ELSE e.chr

\* blm_att_findHandleOfUuid16, blm_att_findHandleOfUuid128: h is the handle of
\* the first entry that matches c, or 0.
IsHandle(found, c, h) ==
  LET Matches == {i \in DOMAIN found : Key(found[i]) = c}
  IN  \/ Matches = {} /\ h = NoHandle
      \/ \E i \in Matches : /\ \A j \in Matches : i <= j
                            /\ h = [dev |-> found[i].dev, chr |-> found[i].chr]

\* The discovery is over: save the handles, and the address they are of.
SaveHandles(found) ==
  /\ \E h \in [Char -> Handle] :
       /\ \A c \in Char : IsHandle(found, c, h[c])
       /\ saved' = [mac |-> cur.mac, handles |-> h]
  /\ EndDiscovery
  /\ UNCHANGED <<air, busy, armed, dat>>

\* Ask for the report reference of the first report behind entry i.
NextReport(found, i) ==
  LET Rest == {j \in DOMAIN found : j > i /\ found[j].chr \in Reports}
  IN  IF Rest = {} THEN SaveHandles(found)
      ELSE \E j \in Rest : /\ \A k \in Rest : j <= k
                           /\ Ask("info", found[j].chr, j)
                           /\ UNCHANGED <<sdp, service, saved>>

\* host_att_service_wait_event sees the answer and host_att_discoveryService
\* goes on with it.
NextRequest ==
  /\ run # Idle
  /\ busy = "none"
  /\ \/ /\ run.at = "type" /\ dat.op = "type"
        /\ db' = Append(db, [dev |-> dat.dev, chr |-> dat.at, ref |-> 0])
        /\ Ask("type", dat.at, 0)
        /\ UNCHANGED <<sdp, service, saved>>
     \/ /\ run.at = "type" /\ dat.op # "type"
        /\ NextReport(db, 0)
        /\ UNCHANGED db
     \/ /\ run.at = "info" /\ dat.op = "info"
        /\ Ask("read", dat.at, run.entry)
        /\ UNCHANGED <<sdp, service, saved, db>>
     \/ /\ run.at = "info" /\ dat.op # "info"
        /\ NextReport(db, run.entry)
        /\ UNCHANGED db
     \/ /\ run.at = "read"
        /\ \E found \in {IF dat.op = "read" THEN [db EXCEPT ![run.entry].ref = dat.at] ELSE db} :
             /\ db' = found
             /\ NextReport(found, run.entry)
  /\ UNCHANGED <<radio, cur, smp>>

\* A mistake: a request that timed out is asked once more.
GiveUpRetry ==
  /\ run # Idle
  /\ busy # "none"
  /\ Slow \/ air = <<>>
  /\ IF cur.up /\ cur.mac = saved.mac
     THEN EndDiscovery /\ UNCHANGED <<air, busy, armed, dat>>
     ELSE Ask("type", Len(db), 0) /\ UNCHANGED <<sdp, service>>
  /\ UNCHANGED <<radio, cur, smp, db, saved>>

\* A second has gone by: the discovery is given up.  host_att_req_busy and
\* p_att_response stay as they are.
GiveUp ==
  /\ run # Idle
  /\ busy # "none"
  /\ Slow \/ air = <<>>
  /\ EndDiscovery
  /\ UNCHANGED <<radio, air, cur, smp, busy, armed, dat, db, saved>>

(***************************************************************************)
(* The events of the radio, handled in the main loop or within the wait.   *)
(***************************************************************************)
\* app_l2cap_handler and host_att_client_handler: the peer answers.  An error
\* is taken whatever was asked.
Accepted(a) == sdp /\ armed /\ a.op \in {busy, "error"}

PeerAnswers ==
  /\ link = "conn"
  /\ air # <<>>
  /\ \E a \in {Answer(Head(air), peer)} :
       IF Accepted(a) THEN dat' = a /\ busy' = "none"
                      ELSE UNCHANGED <<dat, busy>>
  /\ air' = Tail(air)
  /\ UNCHANGED <<radio, cur, smp, sdp, service, armed, run, db, saved>>

\* A new device has to be discovered, the one discovered last has not.
RegisterIfNew(mac) ==
  /\ service' = (service \/ mac # saved.mac)
  /\ sdp' = (mac # saved.mac)

\* blm_le_adv_report_event_handle: device d is bonded or asks for pairing.
Advertises(d) ==
  /\ link = "scan"
  /\ ~smp /\ ~sdp
  /\ link' = "init"
  /\ peer' = d
  /\ UNCHANGED <<air, cur, smp, sdp, service, busy, armed, dat, run, db, saved>>

\* blm_le_connection_establish_event_handle.  It takes some turns of the main
\* loop to connect: a discovery has seen its answer by then.
Establish ==
  /\ link = "init"
  /\ ~(run # Idle /\ busy = "none")
  /\ link' = "conn"
  /\ cur' = [up |-> TRUE, mac |-> peer]
  /\ smp' = TRUE
  /\ RegisterIfNew(peer)
  /\ UNCHANGED <<peer, air, busy, armed, dat, run, db, saved>>

\* app_host_smp_finish.
SmpFinish ==
  /\ link = "conn"
  /\ smp
  /\ smp' = FALSE
  /\ RegisterIfNew(cur.mac)
  /\ UNCHANGED <<radio, air, cur, busy, armed, dat, run, db, saved>>

\* app_host_event_callback: pairing failed.
SmpFail ==
  /\ link = "conn"
  /\ smp
  /\ smp' = FALSE
  /\ UNCHANGED <<radio, air, cur, sdp, service, busy, armed, dat, run, db, saved>>

\* A mistake: the pending pairing outlives the link.
DisconnectPairing ==
  /\ link \in {"init", "conn"}
  /\ DropsAnyTime \/ run = Idle
  /\ link' = "scan"
  /\ peer' = NoDevice
  /\ air' = <<>>
  /\ cur' = [cur EXCEPT !.up = FALSE]
  /\ UNCHANGED smp
  /\ sdp' = FALSE
  /\ UNCHANGED <<service, busy, armed, dat, run, db, saved>>

\* blm_disconnect_event_handle: the link drops, or was never established.
Disconnect ==
  /\ link \in {"init", "conn"}
  /\ DropsAnyTime \/ run = Idle
  /\ link' = "scan"
  /\ peer' = NoDevice
  /\ air' = <<>>
  /\ cur' = [cur EXCEPT !.up = FALSE]
  /\ smp' = FALSE
  /\ sdp' = FALSE
  /\ UNCHANGED <<service, busy, armed, dat, run, db, saved>>

(***************************************************************************)
(* The specification.                                                      *)
(***************************************************************************)
Init ==
  /\ link = "scan" /\ peer = NoDevice /\ air = <<>>
  /\ cur = [up |-> FALSE, mac |-> NoDevice]
  /\ smp = FALSE /\ sdp = FALSE /\ service = FALSE
  /\ busy = "none" /\ armed = FALSE /\ dat = Asked
  /\ run = Idle /\ db = <<>>
  /\ saved = [mac |-> NoDevice, handles |-> [c \in Char |-> NoHandle]]

Discovery == StartDiscovery \/ NextRequest \/ GiveUp
Pairing == SmpFinish \/ SmpFail

Next ==
  \/ Discovery
  \/ PeerAnswers
  \/ \E d \in Devices : Advertises(d)
  \/ Establish
  \/ Pairing
  \/ Disconnect

Spec == Init /\ [][Next]_vars

\* The main loop runs and its waits end, a peer answers what it is asked, and
\* the stack ends every pairing.
LiveSpec ==
  Spec /\ WF_vars(Discovery) /\ WF_vars(PeerAnswers) /\ WF_vars(Pairing)

(***************************************************************************)
(* Properties.                                                             *)
(***************************************************************************)
TypeOK ==
  /\ link \in {"scan", "init", "conn"}
  /\ peer \in Devices \cup {NoDevice}
  /\ air \in Seq(Request)
  /\ cur \in [up : BOOLEAN, mac : Devices \cup {NoDevice}]
  /\ smp \in BOOLEAN /\ sdp \in BOOLEAN /\ service \in BOOLEAN
  /\ busy \in Ops \cup {"none"}
  /\ armed \in BOOLEAN
  /\ dat \in [op : Ops \cup {"request", "error"}, dev : Devices \cup {NoDevice}, at : 0 .. Chars]
  /\ run \in [at : Ops \cup {"idle"}, entry : Nat]
  /\ db \in Seq([dev : Devices, chr : Char, ref : 0 .. Chars])
  /\ saved \in [mac : Devices \cup {NoDevice}, handles : [Char -> Handle]]

\* While central_sdp_pending keeps the central from every other device
\* (blm_host.c:189), a discovery runs or is registered to run: none of the
\* events that set and clear the three variables leaves the flag alone.
PendingRuns == sdp => service \/ run # Idle

\* The handles the reports of a device are told apart by are all of the device
\* whose address was saved with them (simple_sdp.c:73-102), although the link
\* may have changed hands under the discovery.
SavedOne == \A c \in Char : saved.handles[c] # NoHandle => saved.handles[c].dev = saved.mac

\* A device that counts as discovered, and is never asked again
\* (blm_host.c:308), has all its handles known, each in its place.
\* The code does not keep this: see the README.
SavedWhole ==
  saved.mac # NoDevice =>
    \A c \in Char : saved.handles[c] = [dev |-> saved.mac, chr |-> c]

\* host_att_client_handler copies an answer only while a discovery waits: the
\* buffer it copies to is on the stack of the discovery (simple_sdp.c:158).
\* The code does not keep this: see the README.
NoStrayCopy == [][dat' # dat => run # Idle \/ run' # Idle]_vars

\* Neither a pairing nor a discovery keeps the central from other devices for
\* good (blm_host.c:184-193).
Unblocked == smp \/ sdp ~> ~(smp \/ sdp)

\* A new device that stays connected is discovered (blm_host.c:308).
\* The code does not keep this: see the README.
Discovered ==
  \A d \in Devices :
    cur.up /\ cur.mac = d ~> saved.mac = d \/ ~(cur.up /\ cur.mac = d)
=============================================================================
