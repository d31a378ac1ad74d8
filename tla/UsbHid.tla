-------------------------------- MODULE UsbHid --------------------------------
(***************************************************************************)
(* The USB keyboard and mouse of application/app/usbkb.c and usbmouse.c:   *)
(* reports go to an endpoint register when it is free and to usb_fifo when *)
(* it is busy; the host polls the endpoints at its own pace.  Frames come  *)
(* from a remote device over the air (vendor/ble_master_kma_dongle).       *)
(***************************************************************************)
EXTENDS Integers

CONSTANTS
  NKey, SKey, MKey,   \* normal, system and media keys
  NoKey,
  Ctrl,               \* the modifiers a keyboard frame may carry, 0 for none
  USB_FIFO_NUM,       \* 4
  MOUSE_NUM,          \* USBMOUSE_BUFF_DATA_NUM, 8
  U8,                 \* 256, the range of a ring pointer
  MaxMouse,           \* bound: mouse frames of a behaviour
  Inputs,             \* what happens: "kb", "media", "mouse", "proto", "reset"
  KeepUp              \* TRUE: frames come when all earlier ones are delivered

UsbHidAssumption ==
  /\ USB_FIFO_NUM \in Nat \ {0} /\ MOUSE_NUM \in Nat \ {0}
  /\ U8 \in Nat \ {0} /\ U8 % (2 * USB_FIFO_NUM) = 0
  /\ NoKey \notin NKey \cup SKey \cup MKey
  /\ 0 \in Ctrl /\ MaxMouse \in Nat /\ KeepUp \in BOOLEAN

VARIABLES
  usb,     \* the device: usb_fifo, its pointers, endpoints, key state
  mouse,   \* the frames in mouse_dat_buff, all alike
  host,    \* what the host has received, and the data toggles it expects
  want,    \* the state of the remote's keys by its last frames
  count    \* mouse frames taken and mouse reports received

vars == <<usb, mouse, host, want, count>>

EP == {"KB", "MOUSE"}
Masks == {"NORMAL", "SYS", "MEDIA"}

\* A frame of the remote: modifiers and one key.
Frame == Ctrl \X ({NoKey} \cup NKey \cup SKey \cup MKey)
NoFrame == <<0, NoKey>>
Held(f) == f # NoFrame

\* Reports; a mouse report stands for any motion.
Keys(ctrl, key) == [ep |-> "KB", id |-> "KEYS", val |-> <<ctrl, key>>]
Sys(key) == [ep |-> "MOUSE", id |-> "SYS", val |-> key]
Media(key) == [ep |-> "MOUSE", id |-> "MEDIA", val |-> key]
Motion == [ep |-> "MOUSE", id |-> "MOUSE", val |-> NoKey]
Report ==
  {Motion} \cup {Keys(c, k) : c \in Ctrl, k \in NKey \cup {NoKey}}
           \cup {Sys(k) : k \in SKey \cup {NoKey}}
           \cup {Media(k) : k \in MKey \cup {NoKey}}
\* A key report on the mouse's endpoint in the boot protocol: no report id.
Wire == Report \cup {[ep |-> "MOUSE", id |-> "MOUSE", val |-> k] : k \in SKey \cup MKey}

NoReport == [ep |-> "none", id |-> "none", val |-> NoKey]
Idle == [tog |-> 0, rep |-> NoReport]
Packet == {Idle} \cup [tog : 0..1, rep : Wire]

TypeOK ==
  /\ usb \in [fifo : [0..(USB_FIFO_NUM - 1) -> Report],
              w : 0..(U8 - 1), r : 0..(U8 - 1), reg : [EP -> Packet],
              tog : [EP -> 0..1], proto : 0..1, not_released : SUBSET Masks,
              last_data : Frame]
  /\ mouse \in 0..(MOUSE_NUM - 1)
  /\ host \in [keys : Ctrl \X (NKey \cup {NoKey}), sys : SKey \cup {NoKey},
               media : MKey \cup {NoKey}, expects : [EP -> 0..1],
               reset : BOOLEAN, slip : [EP -> BOOLEAN]]
  /\ want \in [kb : Frame, media : MKey \cup {NoKey}]
  /\ count \in [added : 0..MaxMouse, got : 0..(MaxMouse + 1)]

\* Attached and not enumerated: the host resets the bus before it polls.
Init ==
  /\ usb = [fifo |-> [i \in 0..(USB_FIFO_NUM - 1) |-> Motion], w |-> 0, r |-> 0,
            reg |-> [e \in EP |-> Idle], tog |-> [e \in EP |-> 0], proto |-> 0,
            not_released |-> {}, last_data |-> NoFrame]
  /\ mouse = 0
  /\ host = [keys |-> NoFrame, sys |-> NoKey, media |-> NoKey,
             expects |-> [e \in EP |-> 0], reset |-> TRUE,
             slip |-> [e \in EP |-> FALSE]]
  /\ want = [kb |-> NoFrame, media |-> NoKey]
  /\ count = [added |-> 0, got |-> 0]

-----------------------------------------------------------------------------
(* Reports: every operator maps a device state u to the next.               *)

Busy(u, e) == u.reg[e] # Idle
FifoUse(u) == (u.w - u.r) % (2 * USB_FIFO_NUM)

\* Into usb_fifo, over the oldest report if it is full.
Push(u, rep) ==
  LET p == [u EXCEPT !.fifo[u.w % USB_FIFO_NUM] = rep, !.w = (@ + 1) % U8]
  IN  [p EXCEPT !.r = IF FifoUse(p) > USB_FIFO_NUM THEN (@ + 1) % U8 ELSE @]

OnWire(u, rep) ==
  IF rep.ep = "MOUSE" /\ u.proto = 0 THEN [rep EXCEPT !.id = "MOUSE"] ELSE rep

Fill(u, rep) ==
  [u EXCEPT !.reg[rep.ep] = [tog |-> u.tog[rep.ep], rep |-> OnWire(u, rep)],
            !.tog[rep.ep] = 1 - @]

\* usbkb_hid_report_normal and usbmouse_hid_report; they return Sent.
Sent(u, rep) == ~Busy(u, rep.ep)
HidReport(u, rep) == IF Sent(u, rep) THEN Fill(u, rep) ELSE Push(u, rep)

Press(u, mask, rep) ==
  [HidReport(u, rep) EXCEPT
     !.not_released = IF Sent(u, rep) THEN @ \cup {mask} ELSE @]

Release(u, mask, rep) ==
  IF mask \notin u.not_released THEN u
  ELSE [HidReport(u, rep) EXCEPT
          !.not_released = IF Sent(u, rep) THEN @ \ {mask} ELSE @]

NormalKey(u, f) ==
  LET key == IF f[2] \in NKey THEN f[2] ELSE NoKey
  IN  IF key # NoKey \/ f[1] # 0 THEN Press(u, "NORMAL", Keys(f[1], key))
      ELSE Release(u, "NORMAL", Keys(0, NoKey))
SysKey(u, key) ==
  IF key \in SKey THEN Press(u, "SYS", Sys(key)) ELSE Release(u, "SYS", Sys(NoKey))
MediaKey(u, key) ==
  IF key \in MKey THEN Press(u, "MEDIA", Media(key))
  ELSE Release(u, "MEDIA", Media(NoKey))

\* usbkb_hid_report: a held key that repeats is not reported again.
Repeated(u, f) == Held(f) /\ f = u.last_data /\ u.not_released # {}
KeyboardReport(u, f) ==
  LET saved == IF Held(f) THEN [u EXCEPT !.last_data = f] ELSE u
  IN  IF Repeated(u, f) THEN u
      ELSE MediaKey(SysKey(NormalKey(saved, f), f[2]), f[2])

-----------------------------------------------------------------------------
(* The frames of the remote, handled in blt_sdk_main_loop.                  *)

Delivered == usb.reg = [e \in EP |-> Idle] /\ usb.w = usb.r /\ mouse = 0
MayCome(kind) == kind \in Inputs /\ (KeepUp => Delivered /\ ~host.reset)

att_keyboard(f) ==
  /\ MayCome("kb")
  /\ usb' = KeyboardReport(usb, f)
  /\ want' = [want EXCEPT !.kb = f]
  /\ UNCHANGED <<mouse, host, count>>

att_keyboard_media(key) ==
  /\ MayCome("media")
  /\ usb' = MediaKey(usb, key)
  /\ want' = [want EXCEPT !.media = key]
  /\ UNCHANGED <<mouse, host, count>>

\* mouse is usbmouse_usbmouse_rptr: a ring that becomes full reads as empty.
att_mouse ==
  /\ MayCome("mouse") /\ count.added < MaxMouse
  /\ mouse' = (mouse + 1) % MOUSE_NUM
  /\ count' = [count EXCEPT !.added = @ + 1]
  /\ UNCHANGED <<usb, host, want>>

-----------------------------------------------------------------------------
(* usb_handle_irq, polled by the main loop.                                 *)

\* HID_REQ_SetProtocol: what waits in the mouse's endpoint is discarded.
SetProtocol(u, p) == [u EXCEPT !.proto = p, !.reg["MOUSE"] = Idle]

\* A mistake: the toggles go on after a bus reset.
ResetKeepsToggles(u) == [u EXCEPT !.proto = 1, !.reg = [e \in EP |-> Idle]]
UsbReset(u) ==
  [u EXCEPT !.proto = 1, !.reg = [e \in EP |-> Idle], !.tog = [e \in EP |-> 0]]

\* usbmouse_report_frame: a report that is only queued leaves its frame.
MouseFrame(u) == IF mouse = 0 THEN u ELSE HidReport(u, Motion)
MouseLeft(u) ==
  IF mouse # 0 /\ Sent(u, Motion) THEN mouse - 1 ELSE mouse

\* usb_hid_report_fifo_proc.
FifoProc(u) ==
  LET rep == u.fifo[u.r % USB_FIFO_NUM]
  IN  IF u.w = u.r \/ Busy(u, rep.ep) THEN u
      ELSE [Fill(u, rep) EXCEPT !.r = (@ + 1) % U8]

Submits(u) == usb' = FifoProc(MouseFrame(u)) /\ mouse' = MouseLeft(u)

usb_handle_irq ==
  /\ ~host.reset /\ Submits(usb)
  /\ UNCHANGED <<host, want, count>>

HandleSetProtocol(p) ==
  /\ "proto" \in Inputs /\ ~host.reset
  /\ Submits(SetProtocol(usb, p))
  /\ host' = [host EXCEPT !.slip["MOUSE"] = @ \/ Busy(usb, "MOUSE")]
  /\ UNCHANGED <<want, count>>

HandleReset ==
  /\ host.reset /\ Submits(UsbReset(usb))
  /\ host' = [host EXCEPT !.reset = FALSE]
  /\ UNCHANGED <<want, count>>

\* The bus is suspended: the handler returns before any report.
\* (Nothing changes, so it is a stuttering step.)

-----------------------------------------------------------------------------
(* The host.                                                                *)

BusReset ==
  /\ "reset" \in Inputs /\ ~host.reset
  /\ host' = [keys |-> NoFrame, sys |-> NoKey, media |-> NoKey,
              expects |-> [e \in EP |-> 0], reset |-> TRUE,
              slip |-> [e \in EP |-> FALSE]]
  /\ UNCHANGED <<usb, mouse, want, count>>

InStep(e) == usb.reg[e].tog = host.expects[e]

\* The state of the host after a report.
Accepted(rep) ==
  CASE rep.id = "KEYS"  -> [host EXCEPT !.keys = rep.val]
    [] rep.id = "SYS"   -> [host EXCEPT !.sys = rep.val]
    [] rep.id = "MEDIA" -> [host EXCEPT !.media = rep.val]
    [] OTHER            -> host

\* An IN token: the packet is acknowledged, and ignored if its toggle is old.
HostPolls(e) ==
  LET p == usb.reg[e]
  IN  /\ ~host.reset /\ Busy(usb, e)
      /\ usb' = [usb EXCEPT !.reg[e] = Idle]
      /\ IF InStep(e)
         THEN /\ host' = [Accepted(p.rep) EXCEPT !.expects[e] = 1 - @,
                                                 !.slip[e] = FALSE]
              /\ count' = IF p.rep # Motion \/ count.got > MaxMouse THEN count
                          ELSE [count EXCEPT !.got = @ + 1]
         ELSE host' = [host EXCEPT !.slip[e] = FALSE] /\ count' = count
      /\ UNCHANGED <<mouse, want>>

Next ==
  \/ \E f \in Frame : att_keyboard(f)
  \/ \E key \in MKey \cup {NoKey} : att_keyboard_media(key)
  \/ att_mouse
  \/ usb_handle_irq
  \/ \E p \in 0..1 : HandleSetProtocol(p)
  \/ HandleReset
  \/ BusReset
  \/ \E e \in EP : HostPolls(e)

Spec == Init /\ [][Next]_vars

\* The main loop runs for ever and the host keeps polling.
Fairness ==
  /\ WF_vars(usb_handle_irq) /\ WF_vars(HandleReset)
  /\ \A e \in EP : WF_vars(HostPolls(e))
FairSpec == Spec /\ Fairness

-----------------------------------------------------------------------------
(* Properties.                                                              *)

\* usb_fifo never holds more than its slots: the pointers, which only ever
\* count up and wrap as bytes, stay close enough that the overflow test works.
FifoBounded == FifoUse(usb) <= USB_FIFO_NUM

\* The host ignores a packet as a repetition only after SetProtocol discarded
\* one that was waiting, and then at most one: the data toggles of both ends
\* find together again, across bus resets too.
DropsExplained ==
  [][\A e \in EP : HostPolls(e) /\ ~InStep(e) => host.slip[e]]_vars

\* When every report is delivered, the host shows no key as pressed that the
\* remote no longer holds: no key is stuck, whatever the order of keyboard
\* and media frames, and a bus reset in between.
NoStuckKey ==
  Delivered /\ ~host.reset =>
    /\ host.keys[1] \in {0, want.kb[1]} /\ host.keys[2] \in {NoKey, want.kb[2]}
    /\ host.sys \in {NoKey, want.kb[2]}
    /\ host.media \in {NoKey, want.kb[2], want.media}

\* Once no more frames come, everything that waits reaches the host: a full
\* endpoint, the fifo and the mouse's ring do not wait for each other.
Drain == usb_handle_irq \/ HandleReset \/ \E e \in EP : HostPolls(e)
AllDelivered == <>[][Drain]_vars => <>[](Delivered /\ ~host.reset)

\* usbkb.c: a key that is kept pressed generates one input report.
\* The code does not keep this: see the README.
OneInputReport ==
  [][\A rep \in Report :
       /\ usb.reg["KB"] = [tog |-> host.expects["KB"], rep |-> rep]
       /\ HostPolls("KB") /\ Held(rep.val)
       => rep.val # host.keys]_vars

\* usbmouse.c: a report that fails is not sent, so that its frame is sent
\* again; the host never gets more mouse reports than there were frames.
\* The code does not keep this: see the README.
NoRepeatedMotion == count.got <= count.added
=============================================================================
