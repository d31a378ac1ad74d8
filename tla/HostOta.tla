------------------------------ MODULE HostOta ------------------------------
(* The dongle that updates the device connected to it                        *)
(* (vendor/ble_master_kma_dongle/blm_ota.c), with the connection parameters  *)
(* it asks for (blm_host.c).                                                 *)
(*                                                                           *)
(* A button chooses one of two images.  proc_ota, a part of the main loop,   *)
(* asks for a fast connection, finds the handle of the device's OTA          *)
(* characteristic, and pushes a start, the blocks of the image and an end as *)
(* write commands.  The device is external: it keeps the commands in the     *)
(* order the link brings them.                                               *)
EXTENDS Naturals, Sequences

CONSTANTS
  Devices, NoDevice,
  Roms,         \* the sizes in bytes the two images may have
  FW_SIZE_MAX,  \* larger images are refused
  Block,        \* bytes in a write command, 16 in the code
  TxFifo,       \* commands the host lets wait in the controller
  Stale         \* may the answer to a read come that a discovery gave up?

HostOtaAssumption ==
  /\ NoDevice \notin Devices /\ {"none", "fast"} \cap Devices = {}
  /\ Roms \subseteq [{1, 2} -> Nat \ {0}] /\ FW_SIZE_MAX \in Nat
  /\ Block \in Nat \ {0} /\ TxFifo \in Nat \ {0} /\ Stale \in BOOLEAN

VARIABLES
  rom,      \* n_firmware of each image
  link,     \* the device connected, or NoDevice
  noticed,  \* has proc_ota run since the link ended?
  busy,     \* central_smp_pending or central_sdp_pending
  req,      \* whose request host_update_conn_param_req stands for
  update,   \* the update of the connection under way: "none", "fast" or a device's
  ota,      \* the variables of blm_ota.c
  expired,  \* are the 20 s since ota_begin_tick over?
  lit,      \* the image whose LED shines steadily
  reading,  \* is a read of the handle under way?
  air,      \* the commands in the controller
  got       \* the commands the device received since the last start

hostVars == <<rom, link, noticed, busy, req>>
vars == <<hostVars, update, ota, expired, lit, reading, air, got>>

Image == {1, 2}
Up == link # NoDevice
Idle == [start |-> 0, pending |-> 0, cmd |-> 0, img |-> 1, adr |-> 0,
         handle |-> NoDevice, success |-> FALSE]
Start == [op |-> "start", img |-> 0, at |-> 0]
Data(img, at) == [op |-> "data", img |-> img, at |-> at]
End(at) == [op |-> "end", img |-> 0, at |-> at]

\* The last block of image i, and all the commands that bring it.
LastBlock(i) == (rom[i] - 1) \div Block
Whole(i) ==
  <<Start>> \o [b \in 1 .. LastBlock(i) + 1 |-> Data(i, b - 1)] \o <<End(LastBlock(i))>>

Init ==
  /\ rom \in Roms
  /\ link = NoDevice /\ noticed = TRUE /\ busy = FALSE /\ req = NoDevice
  /\ update = "none" /\ ota = Idle /\ expired = FALSE /\ lit = {}
  /\ reading = FALSE /\ air = <<>> /\ got = <<>>

(***************************************************************************)
(* proc_ota.                                                               *)
(***************************************************************************)
\* The LED of the image last chosen shows the result.
ota_set_result(success) ==
  /\ ota' = [ota EXCEPT !.start = 0, !.pending = 0, !.cmd = 0, !.success = success]
  /\ lit' = lit \ {IF ota.cmd = 1 THEN 1 ELSE 2}
  /\ UNCHANGED <<expired, reading, air>>

\* A mistake: only the time ends a session.
FailsLate == expired

\* The session is over when its time is, or its link.
Fails == expired \/ ~Up

\* A button was released: the session begins.
Begin ==
  LET img == IF ota.cmd = 1 THEN 1 ELSE 2
  IN  /\ ota.start = 0 /\ ota.cmd # 0
      /\ IF rom[img] > FW_SIZE_MAX
         THEN /\ ota' = [ota EXCEPT !.pending = 0, !.cmd = 0, !.img = img, !.success = FALSE]
              /\ lit' = lit \ {img}
              /\ UNCHANGED expired
         ELSE /\ ota' = [ota EXCEPT !.start = 1, !.pending = 1, !.img = img]
              /\ lit' = lit \cup {img}
              /\ expired' = FALSE
      /\ UNCHANGED <<reading, air>>

\* Ask for the handle, whatever is known from an earlier session.
FindHandle ==
  /\ ota.start = 2
  /\ ota' = [ota EXCEPT !.start = 3]
  /\ reading' = TRUE
  /\ UNCHANGED <<expired, lit, air>>

\* blc_gatt_pushWriteCommand.  A command to a handle that is not the device's
\* own writes something else there.
Push(c) ==
  /\ Len(air) < TxFifo
  /\ air' = Append(air, IF ota.handle = link THEN c ELSE [c EXCEPT !.op = "stray"])

SendStart ==
  /\ ota.start = 4
  /\ Push(Start)
  /\ ota' = [ota EXCEPT !.start = 5, !.adr = 0]
  /\ UNCHANGED <<expired, lit, reading>>

\* 50 ms after the start, and at once after the last block.
NextStep ==
  /\ ota.start \in {5, 7}
  /\ ota' = [ota EXCEPT !.start = @ + 1]
  /\ UNCHANGED <<expired, lit, reading, air>>

SendData ==
  /\ ota.start = 6
  /\ IF ota.adr < rom[ota.img]
     THEN /\ Push(Data(ota.img, ota.adr \div Block))
          /\ ota' = [ota EXCEPT !.adr = @ + Block]
     ELSE /\ Len(air) < TxFifo
          /\ ota' = [ota EXCEPT !.start = 7]
          /\ UNCHANGED air
  /\ UNCHANGED <<expired, lit, reading>>

SendEnd ==
  /\ ota.start = 8
  /\ Push(End((ota.adr - Block) \div Block))
  /\ ota' = [ota EXCEPT !.start = 9]
  /\ UNCHANGED <<expired, lit, reading>>

\* Everything is acknowledged.
Finish == ota.start = 9 /\ air = <<>> /\ ota_set_result(TRUE)

\* The wait for an update, an answer, room or acknowledgements, or a command the
\* stack did not take.
Waits == ota.start # 0 /\ UNCHANGED <<ota, expired, lit, reading, air>>

\* Ask for a fast connection when the host is not busy.  The result of the call
\* is not looked at.
AsksFast == ota.pending = 1 /\ req = NoDevice /\ ~busy /\ Up

proc_ota ==
  /\ noticed' = TRUE
  /\ IF AsksFast
     THEN /\ update' \in {"fast", update}
          /\ IF Fails THEN ota_set_result(FALSE)
             ELSE /\ ota' = [ota EXCEPT !.pending = 2]
                  /\ UNCHANGED <<expired, lit, reading, air>>
     ELSE /\ UNCHANGED update
          /\ IF ota.start # 0 /\ Fails THEN ota_set_result(FALSE)
             ELSE \/ Begin \/ FindHandle \/ SendStart \/ NextStep \/ SendData
                  \/ SendEnd \/ Finish \/ Waits
                  \/ /\ ota.start = 0 /\ ota.cmd = 0
                     /\ UNCHANGED <<ota, expired, lit, reading, air>>
  /\ UNCHANGED <<rom, link, busy, req, got>>

(***************************************************************************)
(* The other handlers of the host.                                         *)
(***************************************************************************)
\* host_button_trigger_ota_start: button c was released.
Button(c) ==
  /\ Up
  /\ ota' = [ota EXCEPT !.cmd = c]
  /\ UNCHANGED <<hostVars, update, expired, lit, reading, air, got>>

\* app_l2cap_handler: the device asks for other parameters.
AsksParameters ==
  /\ Up
  /\ req' = link
  /\ UNCHANGED <<rom, link, noticed, busy, update, ota, expired, lit, reading, air, got>>

\* host_update_conn_proc, 50 ms later and not while the host is busy.
host_update_conn_proc ==
  /\ ~busy /\ req # NoDevice
  /\ req' = NoDevice
  /\ update' \in IF Up THEN {update, req} ELSE {update}
  /\ UNCHANGED <<rom, link, noticed, busy, ota, expired, lit, reading, air, got>>

\* blm_le_conn_update_event_proc and host_ota_update_conn_complete.
UpdateCompletes ==
  /\ update # "none"
  /\ update' = "none"
  /\ ota' = IF update = "fast" /\ ota.pending = 2
            THEN [ota EXCEPT !.pending = 0, !.start = IF @ = 1 THEN 2 ELSE @]
            ELSE ota
  /\ UNCHANGED <<hostVars, expired, lit, reading, air, got>>

\* The device answers the read: host_find_slave_ota_attHandle, or an error,
\* which nobody takes.  What answers an earlier read of simple_sdp.c, which has
\* given up by then, is taken for it.
AnswersRead ==
  /\ reading
  /\ \/ /\ ota.start = 3 /\ reading' = FALSE
        /\ ota' = [ota EXCEPT !.start = 4, !.handle = link]
     \/ reading' = FALSE /\ UNCHANGED ota
     \/ /\ Stale /\ ota.start = 3 /\ UNCHANGED reading
        /\ ota' = [ota EXCEPT !.start = 4, !.handle = NoDevice]
  /\ UNCHANGED <<hostVars, update, expired, lit, air, got>>

\* The link brings a command to the device.
Delivered ==
  /\ air # <<>>
  /\ air' = Tail(air)
  /\ got' = IF Head(air) = Start THEN <<Start>> ELSE Append(got, Head(air))
  /\ UNCHANGED <<hostVars, update, ota, expired, lit, reading>>

\* Pairing and discovery are over.
Settles ==
  /\ busy /\ busy' = FALSE
  /\ UNCHANGED <<rom, link, noticed, req, update, ota, expired, lit, reading, air, got>>

\* A device connects.  That takes turns of the main loop, proc_ota among them.
Establish(d) ==
  /\ ~Up /\ noticed
  /\ link' = d
  /\ busy' = TRUE
  /\ got' = <<>>
  /\ UNCHANGED <<rom, noticed, req, update, ota, expired, lit, reading, air>>

\* blm_disconnect_event_handle; the controller forgets what it was to do.
Disconnect ==
  /\ Up
  /\ link' = NoDevice /\ noticed' = FALSE /\ busy' = FALSE /\ req' = NoDevice
  /\ update' = "none" /\ reading' = FALSE /\ air' = <<>>
  /\ UNCHANGED <<rom, ota, expired, lit, got>>

Expires ==
  /\ ota.start # 0 /\ ~expired /\ expired' = TRUE
  /\ UNCHANGED <<hostVars, update, ota, lit, reading, air, got>>

Next ==
  \/ proc_ota
  \/ \E c \in Image : Button(c)
  \/ AsksParameters
  \/ host_update_conn_proc
  \/ UpdateCompletes
  \/ AnswersRead
  \/ Delivered
  \/ Settles
  \/ \E d \in Devices : Establish(d)
  \/ Disconnect
  \/ Expires

\* The main loop polls proc_ota for ever and the clock runs.
Fairness == WF_vars(proc_ota) /\ WF_vars(Expires)
Spec == Init /\ [][Next]_vars /\ Fairness

(***************************************************************************)
(* Properties.                                                             *)
(***************************************************************************)
Command == [op : {"start", "data", "end", "stray"}, img : 0 .. 2, at : Nat]

TypeOK ==
  /\ rom \in Roms
  /\ link \in Devices \cup {NoDevice} /\ noticed \in BOOLEAN /\ busy \in BOOLEAN
  /\ req \in Devices \cup {NoDevice}
  /\ update \in Devices \cup {"none", "fast"}
  /\ ota \in [start : 0 .. 9, pending : 0 .. 2, cmd : 0 .. 2, img : Image, adr : Nat,
              handle : Devices \cup {NoDevice}, success : BOOLEAN]
  /\ expired \in BOOLEAN /\ lit \subseteq Image /\ reading \in BOOLEAN
  /\ air \in Seq(Command) /\ Len(air) <= TxFifo /\ got \in Seq(Command)

\* A success is shown (blm_ota.c:431-435) only when the device connected has received
\* the start, every block of the image chosen, in order, and an end with the index
\* of the last block, whatever links, time outs and sessions came before.
SuccessIsWhole ==
  [][ota.start = 9 /\ ota'.start = 0 /\ ota'.success => got = Whole(ota.img)]_vars

\* Parameters a device asked for are given to that device and not to the next one
\* (blm_host.c:389, 562-571).
ParametersOfLink == (update \in Devices => update = link) /\ (req \in Devices => req = link)

\* Commands are written to the handle of the device that is connected: it is asked
\* for anew in each session (blm_ota.c:341-351).
\* The code does not keep this when Stale: see the README.
OwnHandle == \A i \in DOMAIN air : air[i].op # "stray"

\* Every session ends, although updates, answers and acknowledgements may never
\* come (blm_ota.c:301-305).
SessionEnds == ota.start # 0 ~> ota.start = 0

\* With no session no LED is left on.
\* The code does not keep this: see the README.
LedsOut == ota.start = 0 => lit = {}
=============================================================================
