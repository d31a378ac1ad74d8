------------------------------ MODULE UsbControl ------------------------------
(***************************************************************************)
(* Control transfers of application/usbstd/usb.c: usb_handle_irq, polled   *)
(* by the main loop, serves the SETUP, DATA and STATUS interrupts of       *)
(* endpoint 0.  Answers longer than a packet are sent piece by piece from  *)
(* g_response and g_response_len.  The host and the endpoint's hardware    *)
(* are external.                                                           *)
(***************************************************************************)
EXTENDS Integers, SequencesExt

CONSTANTS
  DescLen,     \* a function from the descriptors to their lengths
  EP0_SIZE,    \* 8, bytes of a packet of endpoint 0
  Lengths,     \* wLength values of the host
  Values,      \* values the host writes to a register
  Reg,         \* registers the host writes and reads (g_rate,
               \* usb_mouse_report_proto, usb_g_config_value, usb_alt_intf
               \* and host_keyboard_status) or some of them
  CDC          \* TRUE: a build with USB_CDC_ENABLE

UsbControlAssumption ==
  /\ \A d \in DOMAIN DescLen : DescLen[d] \in Nat
  /\ EP0_SIZE \in Nat \ {0} /\ Lengths \subseteq Nat \ {0}
  /\ {"proto", "leds"} \subseteq Reg /\ CDC \in BOOLEAN

VARIABLES dev, ep0, irq, host
vars == <<dev, ep0, irq, host>>

Desc == DOMAIN DescLen
Readable == Reg \ {"leds"}
InData == {"leds"}     \* written by the data stage

\* Requests.  "odd": a class descriptor usb_handle_std_intf_req passes over;
\* "other": one it stalls.
GetDesc == [kind : {"descriptor"}, d : Desc, len : Lengths]
GetReg == [kind : {"get"}, d : Readable, len : {1}]
SetReg == [kind : {"set"}, d : Reg \ InData, val : Values, len : {0}]
SetReport == [kind : {"report"}, d : InData, val : Values, len : {1}]
Odd == [kind : {"odd"}, d : {"hid"}, len : Lengths]
Other == [kind : {"other"}, d : {"in"}, len : {1}] \cup [kind : {"other"}, d : {"out"}, len : {0, 1}]
Request == GetDesc \cup GetReg \cup SetReg \cup SetReport \cup Odd \cup Other
IsIn(req) == req.kind \in {"descriptor", "get", "odd"} \/ req.d = "in"
None == [kind |-> "none", d |-> "none", len |-> 0]

\* A byte is the i-th of a descriptor or the value of a register.
Piece(d, from, n) == [i \in 1..n |-> <<d, from + i - 1>>]
Whole(req) ==
  Piece(req.d, 1, IF req.len < DescLen[req.d] THEN req.len ELSE DescLen[req.d])

Ctl == {"NAK", "ACK", "STALL"}
Irq == {"SETUP", "DATA", "STA"}
Byte == (Desc \X Nat) \cup (Reg \X (Values \cup {0, 1}))

TypeOK ==
  /\ dev \in [req : Request \cup {None}, g_response : (Desc \cup {"none"}) \X Nat,
              g_response_len : Nat, g_stall : BOOLEAN,
              reg : [Reg -> Values \cup {0, 1}]]
  /\ dev.g_response_len <= Max({DescLen[d] : d \in Desc})
  /\ ep0.setup \in Request \cup {None} /\ ep0.val \in Values \cup {0}
  /\ ep0.buf \in Seq(Byte) /\ Len(ep0.buf) <= EP0_SIZE
  /\ ep0.dat \in Ctl /\ ep0.sta \in Ctl
  /\ irq \subseteq Irq
  /\ host.state \in {"idle", "data", "status", "wait", "reset"}
  /\ host.req \in Request \cup {None} /\ host.got \in Seq(Byte)
  /\ host.result \in {"none", "ok", "stall"}
  /\ host.view \in [Readable -> SUBSET (Values \cup {0, 1})]

Init ==
  /\ dev = [req |-> None, g_response |-> <<"none", 1>>, g_response_len |-> 0,
            g_stall |-> FALSE, reg |-> [r \in Reg |-> 0]]
  /\ ep0 = [setup |-> None, val |-> 0, buf |-> <<>>, dat |-> "NAK", sta |-> "NAK"]
  /\ irq = {}
  /\ host = [state |-> "idle", req |-> None, got |-> <<>>, result |-> "none",
             view |-> [r \in Readable |-> {0}]]

-----------------------------------------------------------------------------
(* The handlers: each maps [dev, ep0] to the next.                          *)

\* The next packet of g_response.
usb_send_response(s) ==
  LET n == IF s.dev.g_response_len < EP0_SIZE THEN s.dev.g_response_len ELSE EP0_SIZE
      at == s.dev.g_response
  IN  [s EXCEPT !.dev.g_response_len = @ - n,
                !.dev.g_response = <<at[1], at[2] + n>>,
                !.ep0.buf = Piece(at[1], at[2], n)]

\* usb_prepare_desc_data and usb_handle_std_intf_req, for what they know; for
\* other class descriptors g_response stays what an earlier request left.
Truncated(len, n) == IF len < n THEN len ELSE n
Prepared(s, req) ==
  IF req.kind = "odd"
  THEN [s EXCEPT !.dev.g_response_len = Truncated(req.len, @)]
  ELSE [s EXCEPT !.dev.g_response = <<req.d, 1>>,
                 !.dev.g_response_len = Truncated(req.len, DescLen[req.d])]

Written(s, r, v) == [s EXCEPT !.dev.reg[r] = v]

\* usb_handle_request, called with USB_IRQ_SETUP_REQ or USB_IRQ_DATA_REQ.
usb_handle_request(s, data_request) ==
  LET req == s.dev.req
  IN  CASE req.kind \in {"descriptor", "odd"} ->
             usb_send_response(IF data_request THEN s ELSE Prepared(s, req))
        [] req.kind = "get" ->
             [s EXCEPT !.ep0.buf = <<<<req.d, s.dev.reg[req.d]>>>>]
        [] req.kind = "set" -> Written(s, req.d, req.val)
        [] req.kind = "report" ->
             IF data_request THEN Written(s, req.d, s.ep0.val) ELSE s
        [] OTHER -> [s EXCEPT !.dev.g_stall = TRUE]

\* The control bits of the data stage.
DataCtl(s) == [s EXCEPT !.ep0.dat = IF s.dev.g_stall THEN "STALL" ELSE "ACK"]

usb_handle_ctl_ep_setup(s) ==
  DataCtl(usb_handle_request(
    [s EXCEPT !.dev.req = s.ep0.setup, !.dev.g_stall = FALSE, !.ep0.buf = <<>>], FALSE))

\* A mistake: the data handler acknowledges only while it has bytes left.
DataStops(s) ==
  IF s.dev.g_response_len = 0 /\ s.ep0.dat = "NAK" /\ IsIn(s.dev.req) THEN s
  ELSE DataCtl(usb_handle_request([s EXCEPT !.dev.g_stall = FALSE, !.ep0.buf = <<>>], TRUE))
usb_handle_ctl_ep_data(s) ==
  DataCtl(usb_handle_request([s EXCEPT !.dev.g_stall = FALSE, !.ep0.buf = <<>>], TRUE))

usb_handle_ctl_ep_status(s) ==
  [s EXCEPT !.ep0.sta = IF s.dev.g_stall THEN "STALL" ELSE "ACK"]

\* A bus reset: only the mouse's protocol is set back.
ResetRegs(s) == [s EXCEPT !.dev.reg["proto"] = 1]
\* A CDC packet from the host: it shares g_stall.
CdcOut(s) == [s EXCEPT !.dev.g_stall = FALSE]

Serve(s, bit, handler(_)) == IF bit \in irq THEN handler(s) ELSE s
Served ==
  Serve(Serve(Serve([dev |-> dev, ep0 |-> ep0],
    "SETUP", usb_handle_ctl_ep_setup), "DATA", usb_handle_ctl_ep_data),
    "STA", usb_handle_ctl_ep_status)

usb_handle_irq ==
  /\ irq # {} \/ host.state = "reset" \/ CDC
  /\ \E cdc \in (IF CDC THEN BOOLEAN ELSE {FALSE}) :
       LET s1 == IF host.state = "reset" THEN ResetRegs(Served) ELSE Served
           s2 == IF cdc THEN CdcOut(s1) ELSE s1
       IN  dev' = s2.dev /\ ep0' = s2.ep0
  /\ irq' = {}
  /\ host' = IF host.state = "reset" THEN [host EXCEPT !.state = "idle"] ELSE host

-----------------------------------------------------------------------------
(* The host.  It starts a transfer when the device has served the earlier   *)
(* interrupts: the main loop turns much faster than a host gives up.        *)

HostSetup(req) ==
  /\ host.state = "idle" /\ irq = {}
  /\ host' = [host EXCEPT !.state = IF req.len = 0 THEN "status" ELSE "data",
                          !.req = req, !.got = <<>>, !.result = "none"]
  /\ ep0' = [ep0 EXCEPT !.setup = req, !.dat = "NAK", !.sta = "NAK"]
  /\ irq' = {"SETUP"}
  /\ UNCHANGED dev

Ready(ctl) == "SETUP" \notin irq /\ "DATA" \notin irq /\ ep0.dat = ctl

\* An IN packet; a short one or the last byte asked for ends the data stage.
HostIn ==
  /\ host.state = "data" /\ IsIn(host.req) /\ Ready("ACK")
  /\ LET got == host.got \o ep0.buf
         over == Len(ep0.buf) < EP0_SIZE \/ Len(got) >= host.req.len
     IN  host' = [host EXCEPT !.got = got, !.state = IF over THEN "status" ELSE "data"]
  /\ ep0' = [ep0 EXCEPT !.dat = "NAK"]
  /\ irq' = irq \cup {"DATA"}
  /\ UNCHANGED dev

HostOut ==
  /\ host.state = "data" /\ ~IsIn(host.req) /\ Ready("ACK")
  /\ ep0' = [ep0 EXCEPT !.dat = "NAK", !.val = host.req.val]
  /\ host' = [host EXCEPT !.state = "status"]
  /\ irq' = irq \cup {"DATA"}
  /\ UNCHANGED dev

HostStalled ==
  /\ host.state = "data" /\ Ready("STALL")
  /\ host' = [host EXCEPT !.state = "idle", !.result = "stall"]
  /\ UNCHANGED <<dev, ep0, irq>>

\* The status stage may come before the last DATA interrupt is served.
HostStatus ==
  /\ host.state = "status" /\ "SETUP" \notin irq
  /\ host' = [host EXCEPT !.state = "wait"]
  /\ irq' = irq \cup {"STA"}
  /\ UNCHANGED <<dev, ep0>>

\* The values a register may have, as the host sees it.
Acked(req) ==
  IF req.kind = "set" THEN [host.view EXCEPT ![req.d] = {req.val}]
  ELSE host.view
HostDone ==
  /\ host.state = "wait" /\ "STA" \notin irq /\ ep0.sta # "NAK"
  /\ LET ok == ep0.sta = "ACK"
     IN  host' = [host EXCEPT !.state = "idle", !.result = IF ok THEN "ok" ELSE "stall",
                              !.view = IF ok THEN Acked(host.req) ELSE @]
  /\ UNCHANGED <<dev, ep0, irq>>

\* The host gives up; a write it has begun may have happened.
Begun(req) ==
  IF req.kind = "set" THEN [host.view EXCEPT ![req.d] = @ \cup {req.val}]
  ELSE host.view
HostAborts ==
  /\ host.state \in {"data", "status", "wait"} /\ irq = {}
  /\ host' = [host EXCEPT !.state = "idle", !.result = "none", !.view = Begun(host.req)]
  /\ UNCHANGED <<dev, ep0, irq>>

BusReset ==
  /\ host.state # "reset" /\ irq = {}
  /\ host' = [host EXCEPT !.state = "reset", !.result = "none",
       !.view = [Begun(host.req) EXCEPT !["proto"] = {1}]]
  /\ UNCHANGED <<dev, ep0, irq>>

\* The host goes on with its transfer.
HostProceeds == HostIn \/ HostOut \/ HostStalled \/ HostStatus \/ HostDone

Next ==
  \/ usb_handle_irq
  \/ \E req \in Request : HostSetup(req)
  \/ HostProceeds
  \/ HostAborts \/ BusReset

Spec == Init /\ [][Next]_vars

\* The main loop runs for ever; a host goes on with what it began.
Fairness == WF_vars(usb_handle_irq) /\ WF_vars(HostProceeds)
FairSpec == Spec /\ Fairness

-----------------------------------------------------------------------------
(* Properties.                                                              *)

Completed(kind) == host.result = "ok" /\ host.req.kind = kind

\* A completed descriptor request delivered exactly the first bytes of that
\* descriptor, in order, up to its end or the length asked for, whatever the
\* transfers before it left in g_response.
DescriptorWhole == Completed("descriptor") => host.got = Whole(host.req)

\* A completed read of a register returns what the host wrote last, or one of
\* the values of writes it gave up.
ReadBack ==
  Completed("get") =>
    /\ Len(host.got) = 1 /\ host.got[1][1] = host.req.d
    /\ host.got[1][2] \in host.view[host.req.d]

\* A completed write of a register is in it, one whose value comes in a data
\* stage too: the status stage never overtakes the DATA interrupt.
WriteDone ==
  Completed("set") \/ Completed("report") =>
    dev.reg[host.req.d] = host.req.val

\* A request the device refuses at its SETUP never ends with success, also if
\* it has no data stage and the refusal is only reported by the status stage.
RefusedNeverOk == ~Completed("other")

\* Every transfer ends: a packet as long as the endpoint is followed by a
\* shorter one, and the stages never wait for each other.
TransferEnds == host.state # "idle" ~> host.state = "idle"
=============================================================================
