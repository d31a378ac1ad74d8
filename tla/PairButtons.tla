---------------------------- MODULE PairButtons ----------------------------
(* The two buttons of the dongle (vendor/ble_master_kma_dongle/button.c) and *)
(* what they and the devices ask for: a pairing, the end of one              *)
(* (host_pair_unpair_proc of app.c, att_keyboard of blm_att.c, the           *)
(* advertisements of blm_host.c), and the update of a device.                *)
EXTENDS Naturals, Sequences

CONSTANTS
  Devices, NoDevice,
  TwoButtons,  \* may a button go down before the other is known to be released?
  Careless,    \* may a device repeat its unpair command, or leave with it?
  Updates      \* BLE_MASTER_OTA_ENABLE

PairButtonsAssumption ==
  /\ NoDevice \notin Devices
  /\ TwoButtons \in BOOLEAN /\ Careless \in BOOLEAN /\ Updates \in BOOLEAN

VARIABLES
  down,      \* the buttons that are down
  samples,   \* btn_history: the last two samples, the newer first
  stable,    \* btn_filter_last
  pairing,   \* central_pairing_enable
  unpairing, \* central_unpair_enable
  flags,     \* button0_press_flag, button1_press_flag
  run,       \* how many of the last bits of button_history are ones, 4 at most
  recent,    \* are the 2 s since last_singleKey_press_tick not over?
  mode,      \* master_ota_test_mode
  cmd,       \* master_ota_cmd
  polled,    \* has this turn of the main loop polled the buttons?
  target,    \* the device a connection is created to
  link,      \* the device connected
  closing,   \* master_disconnect_flag
  bonds,     \* the bonds of the stack
  wants      \* history: the devices that asked for the end of their pairing

btnVars == <<down, samples, stable, pairing, flags, run, recent, mode, cmd>>
vars == <<btnVars, polled, unpairing, target, link, closing, bonds, wants>>

Button == {"pair", "unpair"}
Up == link # NoDevice

Init ==
  /\ down = {} /\ samples = <<{}, {}>> /\ stable = {}
  /\ pairing = FALSE /\ unpairing = FALSE /\ flags = {}
  /\ run = 0 /\ recent = FALSE /\ mode = 0 /\ cmd = 0 /\ polled = FALSE
  /\ target = NoDevice /\ link = NoDevice /\ closing = FALSE
  /\ bonds = {} /\ wants = {}

(***************************************************************************)
(* proc_button, every 5 ms.                                                *)
(***************************************************************************)
\* btn_debounce_filter: three samples agree on something new.
Changed == samples[1] = down /\ samples[2] = down /\ stable # down

\* Four PAIR presses in a row, each within 2 s of the press before, enter the
\* test mode.
CountPress(key) ==
  IF Updates
  THEN LET n == IF mode = 0 /\ recent /\ key = "pair" THEN run + 1 ELSE 0
       IN  /\ run' = IF n < 4 THEN n ELSE 4
           /\ mode' = IF n >= 4 THEN 1 ELSE mode
           /\ recent' = TRUE
  ELSE UNCHANGED <<run, recent, mode>>

\* One button is down, be it the second or the one that is left.
OneKey(key) ==
  /\ CountPress(key)
  /\ pairing' = (pairing \/ (key = "pair" /\ mode' = 0))
  /\ unpairing' = (unpairing \/ (key = "unpair" /\ mode' = 0))
  /\ flags' = flags \cup {key}
  /\ UNCHANGED cmd

\* host_button_trigger_ota_start.
Trigger ==
  IF ~Up THEN cmd ELSE IF "pair" \in flags THEN 1 ELSE IF "unpair" \in flags THEN 2 ELSE cmd

Released ==
  /\ pairing' = FALSE
  /\ unpairing' = FALSE
  /\ cmd' = IF mode = 2 THEN Trigger ELSE cmd
  /\ flags' = {}
  /\ UNCHANGED <<run, recent, mode>>

proc_button ==
  /\ ~polled /\ polled' = TRUE
  /\ samples' = <<down, samples[1]>>
  /\ IF ~Changed
     THEN UNCHANGED <<stable, pairing, unpairing, flags, run, recent, mode, cmd>>
     ELSE /\ stable' = down
          /\ \/ \E key \in Button : down = {key} /\ OneKey(key)
             \/ down = {} /\ Released
             \/ /\ down = Button
                /\ UNCHANGED <<pairing, unpairing, flags, run, recent, mode, cmd>>
  /\ UNCHANGED <<down, target, link, closing, bonds, wants>>

(***************************************************************************)
(* The rest of the turn, and the events of the stack, which come before.   *)
(***************************************************************************)
\* The pairing of the device connected is ended, and its link.
EndsPairing ==
  /\ unpairing /\ ~closing /\ Up
  /\ closing' = TRUE
  /\ unpairing' = FALSE
  /\ bonds' = bonds \ {link}

\* The end of each turn.  Where blm_ll_disconnect fails, the request stays.
host_pair_unpair_proc ==
  /\ polled' = FALSE
  /\ \/ EndsPairing
     \/ /\ closing' = (closing /\ Up)
        /\ UNCHANGED <<unpairing, bonds>>
  /\ UNCHANGED <<btnVars, target, link, wants>>

\* att_keyboard: the device sends the key that ends its pairing.
UnpairKey ==
  /\ Up /\ ~polled
  /\ Careless \/ (~unpairing /\ ~closing)
  /\ unpairing' = TRUE
  /\ wants' = wants \cup {link}
  /\ UNCHANGED <<btnVars, polled, target, link, closing, bonds>>

\* blm_le_adv_report_event_handle: device d advertises, and may ask for the
\* beginning or the end of a pairing.  One that is bonded is connected to in
\* either case.
Advertises(d, asks) ==
  /\ ~Up /\ target = NoDevice /\ ~polled
  /\ target' = IF d \in bonds \/ pairing \/ asks = "pair" THEN d ELSE NoDevice
  /\ bonds' = IF asks = "unpair" THEN bonds \ {d} ELSE bonds
  /\ wants' = IF asks = "unpair" THEN wants \cup {d} ELSE wants
  /\ UNCHANGED <<btnVars, polled, unpairing, link, closing>>

\* The device is connected to and pairs.  That takes turns of the main loop.
Establish ==
  /\ target # NoDevice /\ ~closing
  /\ link' = target
  /\ target' = NoDevice
  /\ bonds' = bonds \cup {target}
  /\ wants' = wants \ {target}
  /\ UNCHANGED <<btnVars, polled, unpairing, closing>>

Disconnect ==
  /\ Up
  /\ Careless \/ ~unpairing \/ closing \/ "unpair" \in flags
  /\ link' = NoDevice
  /\ UNCHANGED <<btnVars, polled, unpairing, target, closing, bonds, wants>>

\* The user, and a contact that bounces.
Moves ==
  /\ \E b \in Button :
       \/ b \in down /\ down' = down \ {b}
       \/ /\ b \notin down
          /\ TwoButtons \/ (down = {} /\ stable \subseteq {b})
          /\ down' = down \cup {b}
  /\ UNCHANGED <<samples, stable, pairing, unpairing, flags, run, recent, mode, cmd,
                 polled, target, link, closing, bonds, wants>>

\* Two seconds are over; the LEDs have shown the test mode; the update is over.
Later ==
  /\ \/ recent /\ recent' = FALSE /\ UNCHANGED <<mode, cmd>>
     \/ mode = 1 /\ mode' = 2 /\ UNCHANGED <<recent, cmd>>
     \/ cmd # 0 /\ cmd' = 0 /\ UNCHANGED <<recent, mode>>
  /\ UNCHANGED <<down, samples, stable, pairing, unpairing, flags, run, polled,
                 target, link, closing, bonds, wants>>

Next ==
  \/ proc_button
  \/ host_pair_unpair_proc
  \/ UnpairKey
  \/ \E d \in Devices, asks \in {"nothing", "pair", "unpair"} : Advertises(d, asks)
  \/ Establish
  \/ Disconnect
  \/ Moves
  \/ Later

\* The main loop polls the buttons and what they asked for.
Fairness == WF_vars(proc_button) /\ WF_vars(host_pair_unpair_proc)
Spec == Init /\ [][Next]_vars /\ Fairness

(***************************************************************************)
(* Properties.                                                             *)
(***************************************************************************)
TypeOK ==
  /\ down \subseteq Button /\ samples \in (SUBSET Button) \X (SUBSET Button)
  /\ stable \subseteq Button /\ pairing \in BOOLEAN /\ unpairing \in BOOLEAN
  /\ flags \subseteq Button
  /\ run \in 0 .. 4 /\ recent \in BOOLEAN /\ mode \in 0 .. 2 /\ cmd \in 0 .. 2
  /\ polled \in BOOLEAN
  /\ target \in Devices \cup {NoDevice} /\ link \in Devices \cup {NoDevice}
  /\ closing \in BOOLEAN /\ bonds \subseteq Devices /\ wants \subseteq Devices

\* A bond is deleted only of a device that asked for it, or at the UNPAIR
\* button, pressed since both were last released (app.c:290-304, blm_host.c:244-260):
\* a request of one link never reaches the next device.
UnpairsAsked ==
  [][\A d \in bonds \ bonds' : d \in wants' \/ "unpair" \in flags]_vars

\* With the buttons released the dongle does not pair, and does not end a pairing
\* no device asked to end (button.c:214-221).
ReleasedIsOff == stable = {} => ~pairing /\ (unpairing => link \in wants)

\* "On release the enable flag of that key is cleared" (button.c:140).
\* The code does not keep this: see the README.
KeysEnable == (pairing => "pair" \in stable) /\ (unpairing => "unpair" \in stable \/ link \in wants)

\* The test mode takes presses of the PAIR button alone (button.c:139): PAIR held
\* while UNPAIR is tapped is no press.
PressesAlone == mode' # mode /\ mode = 0 => stable = {}

\* The same, as a property.  The code does not keep this: see the README.
TestModeAlone == [][PressesAlone]_vars

\* What a device asked for is done (blm_att.c:126-130).
\* The code does not keep this: see the README.
AskedIsDone == \A d \in Devices : link = d /\ d \in wants ~> d \notin bonds \/ link # d
=============================================================================
