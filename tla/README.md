# Verification of the TC BLE single-connection SDK

This directory models parts of `tc_ble_single_sdk` in TLA+, checks the models
with TLC and proves theorems about them with TLAPS. The SDK is C code for
microcontrollers: applications around two radio stacks (BLE and 2.4G) that are
binary libraries. What can be modelled is therefore the code around the stacks:
firmware update, timers, bonds, discovery, flash, keys, USB, audio and the
queues between interrupts and the main loop. All paths below are under
`src/tc_ble_single_sdk/`.

Every program of the SDK has one main loop that polls its parts for ever and a
few interrupt handlers. There are no threads. What is hard comes from five
sources: an interrupt between two steps of the loop, power loss between two
flash writes, frames that are lost, repeated or late, a peer (host, MCU, user)
that goes at its own pace, and counters that wrap.

## 1. Inventory

| Component | State it keeps | Operations | Interacts with | What makes it correct |
|---|---|---|---|---|
| **2.4G OTA** `vendor/2p4g_feature/ota` | `MasterCtrl`, `SlaveCtrl`, `MsgQueue`, `TxFrame`, `RxFrame`, `Len`, `state_tick`, two flash banks | `OTA_MasterInit/Start`, `OTA_SlaveInit/Start`, `MAC_SendData/RecvData`, receive and timeout interrupts | radio, flash, boot ROM, the peer | the device can always boot; only whole images are started; sessions end |
| **Software timers** `vendor/common/blt_soft_timer.c` | table of at most 4 entries, the app wake-up time | add, delete, process | callbacks, the power manager | entries are in order, none is missed or starved |
| **UART firmware update** `vendor/2p4g_feature/uart_fw_update` | as OTA, with a 10-slot timer list and a ring of 3 receive buffers | the same state machines, a response timer | UART DMA interrupts, timer list | as OTA; no stale timeout; no slot leak |
| **Custom pairing** `vendor/common/custom_pair.c` | bond table in RAM, append-only flash sector | add, delete, search, compact at start | BLE central | RAM and flash agree after any power loss; no bond is lost while one is added |
| **Simple SDP** `vendor/common/simple_sdp.c` | attribute handles in RAM and flash, the answer awaited | register, discover, save | BLE central, ATT | handles belong to one device |
| **BLE central** `vendor/ble_master_kma_dongle` | pending flags, current connection, addresses | handlers of stack events | stack, pairing, SDP, USB, audio | no flag stays set for ever; a discovery belongs to its link |
| **BLE central OTA** `blm_ota.c` | transfer state, timers | start, push blocks, result | GATT writes | it ends, with the result of this transfer |
| **SPP module** `vendor/ble_module`, `common/utility.c` | two `my_fifo` rings, sleep mask, pins | UART receive, send, commands, sleep | UART DMA, MCU, GATT | nothing lost, repeated or read half-written; it sleeps only when idle |
| **Remote control** `vendor/ble_remote` | sleep flags, key state, ticks, cached key | scan, reports, microphone, sleep and wake-up | keys, LED, IR, stack | every press is released; it sleeps when idle and stays reachable |
| **Infrared** `rc_ir.c`, `rc_ir_learn.c` | sending state, learned wave | send, release, interrupt, learn, detect | PWM DMA and GPIO interrupts | what goes out is what a key asked for and stops with it; a learned code is the one received; learning ends |
| **Keyboard scan** `application/keyboard` | two matrices, ring of 4, repeat timer | scan, debounce, ghost removal, repeat | remote control | a key is reported once two scans agree; its release too |
| **USB keyboard and mouse** `application/app` | ring of reports, endpoints, last frame | frames from the air, reports, reset | USB endpoints, BLE central | every press is released; no report is dropped |
| **USB control, CDC, audio class** `application/usbstd`, `usbcdc.c`, `usbaud.c` | the answer being sent, endpoint 0, interrupt flags | SETUP, DATA, STATUS; data endpoints | USB host | a transfer ends with its whole answer |
| **Audio** `application/audio` | microphone ring, packets, predictors, ring of decoded frames | DMA, encode, send; receive, decode, play | link, USB interrupt | both ends agree; nothing is played before it is decoded |
| **Flash protection** `vendor/common/flash_prot.c`, chip drivers | status register, `flash_lockBlock_cmd` | start, lock, unlock, OTA events | firmware update | firmware is locked, data and updates are not |
| **Internal flash writing** `drivers/*/flash.c` | the bytes, one call | `flash_page_program`, erase | all that write flash | exactly the buffer is programmed |
| **Software UART** `driver_ext/software_uart.c` | bit counter, packet, ring of buffers | edge and timer interrupts, take | GPIO, timer 0 | bytes arrive as sent although interrupts are late |
| **LED events** `vendor/common/blt_led.c` | the event, its phase and repeats left | set up, poll | remote control, sleep | events last as long as they say and end |
| **Battery check, sync-word check** `vendor/common` | samples; none | filter; word test | ADC | bounds |
| **Printing, sample applications, demos, drivers, boot code, stacks** | - | - | hardware, binary libraries | not modelled, see section 10 |

How they meet: the BLE central runs `simple_sdp` inside its main loop and
`simple_sdp` runs the main loop inside its waits, so the two are one module. The
dongle hands key and mouse frames to the USB reports and voice frames to the
audio rings. The remote control scans keys and codes the voice that the dongle
decodes. Both updates write flash in pieces, behind the flash protection.

## 2. Plan

Done, in this order: 2.4G OTA with its refinement and proofs; software timers,
with proofs; the UART update, which implements the same abstract update, with
proofs; bonds, with proofs, and the BLE
central with discovery, with proofs; the SPP module on `my_fifo`, with proofs; the remote
control and key scan, with proofs; USB reports, control transfers and CDC, with proofs of the echo; audio on
both sides, with proofs of the dongle's; flash protection and flash writing, with proofs; the software UART, with
proofs; infrared
sending and learning, with proofs; LED events, with proofs; the update a dongle pushes to its device, and
the dongle's buttons, both with proofs.

Left, in this order: `battery_check.c` and `sync_word_check.c` as operators
against a reference, the translation of reports in the dongle, the single SPP
commands; theorems about USB reports, and `NoneMissed` with callbacks that
stop their timer.

## 3. How the project is laid out

Each component has a module with its state, one action per handler or step, and
its properties. Four kinds of run use them.

- `ota_*`: `OtaUpdate` composes `OtaAir`, `OtaMaster`, `OtaSlave`; `MCOtaUpdate`
  gives the instances.
- `soft_timer_*`: `SoftTimer`, instances in `MCSoftTimer`.
- `dongle`, `remote`, `serial`: one run for each program, in `MCDongle`,
  `MCRemote` and `MCSerial`. Such a module EXTENDS one component and takes the
  others by INSTANCE, some of them twice with other constants.

*Parts.* The components of one of the three programs share no variable in these
models: where they meet in the code, the models take what the other side does as
any choice (the keys a scan finds, the frames that come from the air, the room
the link has). So a behaviour of the program is an interleaving of behaviours
of its components, and a property of one component holds in the program if and
only if it holds while that component alone moves. The variable `part`, chosen
at the start, says which one does; TLC checks the sum of the components and not
their product. A property that holds for one choice of constants only says so
(`part = "..." =>`). Liveness is stated for the part, under the fairness of its
own actions: a property that says something happens has the form
`part = "..." => (Fairness => ...)`, so the specification of the program itself
assumes none.

A property of such a run joins the properties of one component, which the
module of the component defines and comments one by one. Each of its conjuncts
speaks of that component; the run fails when any of them does.

Properties the code does *not* keep are stated in the modules as well, with the
comment "The code does not keep this". Section 8 lists them and says which
constants show each.

## 4. The 2.4G OTA modules

A master holds a firmware image and pushes it over the air to a slave in
numbered blocks of 48 bytes, one outstanding at a time. The slave writes them to
the flash bank it does not run from, checks two CRCs, sets the boot flag of the
new bank and clears the flag of the old one.

| Module | Code | State | Actions |
|---|---|---|---|
| `OtaAir` | `ota.h`, queue and frame builders of `ota.c`, `mac.c`, interrupt handler of `app.c` | `queue` is `MsgQueue` of each device; `radio` is "rx" from `MAC_SendData` or `MAC_RecvData` to the interrupt that ends it | `Transmit`, `Listen`, `RxTimeOut` |
| `OtaMaster` | `ota.c` 92-395 | `m` is `MasterCtrl`, `TxFrame`, `Len` and the bytes of `RxFrame` that are read later | one per accepted answer in each state of `OTA_MasterStart`, `MasterRetry` for every other message, `MasterDeadline`, reset and power loss |
| `OtaSlave` | `ota.c` 397-845, bank choice in `app.c` | `s` likewise; `flash` has a boot flag and block cells for each bank | one per accepted request in each state of `OTA_SlaveStart`, `SlaveRetry`, `SlaveDeadline`; the END state is `SlaveVerify`, `SlaveSetNextBootFlag`, `SlaveClearCurrentBootFlag` |
| `OtaUpdate` | `sdk_2p4g_main_loop`, `irq_2p4g_sdk_handler` | all of it | `MasterStep`, `SlaveStep`, `TimeOut` |
| `AtomicUpdate` | what the update promises | the image the device starts, and a staged one | `Stage`, `Commit`, `Drop` |

One pass of a state machine is one action: it pops a message, checks its
deadline, and does everything the branch does. Three things deserve a word.

*Lengths are modelled.* `Len` is one global that a received frame overwrites and
a retransmission uses. A frame carries the length it is sent with, and a
receiver keeps the old bytes of `RxFrame` beyond it (`RxArg`).

*Flash is modelled as it behaves.* A write to a cell that is not erased and does
not hold the same bytes leaves `Garbage`; an erase can stop at any cell, a block
write at any byte. A boot flag is written in one piece: its four bytes are
"erased", "set" or "cleared". Power loss can come at any step of either device.

*CRCs are ideal.* Different bytes have different CRCs.

### Checks

| Run | Instance | Question |
|---|---|---|
| `ota_safety` | images of 2 and 3 blocks, banks of 3 cells, all erased at the start, 1 retry | `TypeOK`; `NeverBricked`: at every moment the boot ROM finds one whole image; `OneEventPerOperation`: the interrupt never meets a queue in use; `RequestsWhole`: no request is repeated shorter than built; `InStep`: the slave has exactly the blocks the master sent; `CleanTransfer`: what a transfer writes is erased, and the CRC check never fails it; `ImplementsAtomicUpdate` |
| `ota_large` | the same with only 2 of 3 cells erased | the CRC check alone keeps the refinement, and with it a device that starts, when the write area is dirty |
| `ota_live` | as `ota_safety`, with fairness | `MasterEnds`, `SlaveEnds` |
| `ota_erase` | as `ota_large` | finds `WriteAreaErased` violated |
| `ota_version` | as `ota_safety` | finds `OnlyNewer` violated |

Bounds: two images of different length suffice to tell old, new, mixed and
partly overwritten banks apart. Three blocks give a first, a middle and a last
one, and the last is shorter. One retry (10 in the code) lets every kind of
message fall both below and on the limit; the code only compares the count with
the limit. Bank cells and erased cells stand for 2645 and 1280 blocks. The
number of sessions, resets and power losses is not bounded.

Fairness: the main loops call `OTA_MasterStart` and `OTA_SlaveStart` for ever
(`app.c` 269-318), a listening radio has a receive timeout set by `mac.c`, and
the slave's clock passes its 5 s deadline. Nothing is assumed of the master's
deadline: `MasterEnds` holds by its retry count alone, whereas every repeated
request resets the slave's, so `SlaveEnds` needs the deadline.

### What the runs found

`ota_version`: a repeated version answer is sent with the length of the request
(`ota.c` 517, 527). The version bytes are cut off, the master reads version 0
and its test for a newer version passes, so a device can be downgraded after one
lost frame.

`ota_erase`: `OTA_FlashErase` erases 15 sectors (60 KB) while firmware of 124 KB
is allowed (`main.c` 57). After one larger image the next session writes over
old bytes. `ota_large` shows that this costs the update and not the device.

## 5. The software timers

`SoftTimer` has `timer` for `blt_timer`, `wakeup` for the last call of
`bls_pm_setAppWakeupLowPower`, and `proc` for the locals of
`blt_soft_timer_process`, whose loop is one action per entry: `ProcessSkip` for
one that is not expired, `ProcessFire` for a callback with its result and
whatever it calls. The bubble sort is the code's, swaps of equal times
included. `TimePasses` is the clock; `idle` bounds how long the main loop stays
away, awake (`MaxGap`) or asleep (`MaxSleep`, or until the wake-up time).
A null callback is not modelled: no caller passes one.

The constants are scaled: a clock of 32 ticks with a comparison span of 8, a
window of 5 with a margin of 1, a wake-up limit of 6 (in `soft_timer_sleep`, with
its longer interval, a clock of 36 and a span of 9). They keep the order of the
code's values (2^32 ticks, 67 s, 4 s, 128 us, 5 s) and the span exceeds window
plus longest interval, as it does there. The clock starts anywhere, so every
state is met at the wrap. Tables of three entries, two callbacks, each possibly
in the table twice.

| Run | Instance | Question |
|---|---|---|
| `soft_timer` | main loop and callbacks add and delete; all results | `Ordered` across the wrap, `WakesForFirst`, `NoneMissed` |
| `soft_timer_sleep` | callbacks only rearm; sleeps longer than the window | `NoneMissed`: the wake-up time suffices; `InTurn` |
| `soft_timer_live` | callbacks stop and are added again, with fairness | `Served` |
| `soft_timer_turn` | all results | finds `InTurn` violated |

`soft_timer_turn`: deleting entry *i* within the loop moves the next entry to
*i*, and the loop continues at *i + 1* (`blt_soft_timer.c` 206-217). The entry
skipped is served by the next call, after one that was due later. `soft_timer`
shows that no chain of skips drives an entry out of the window as long as a turn
of the main loop is well below a quarter of it; with a gap of 2 ticks for a
window of 5 (a smaller margin than any application has) one is missed.
`soft_timer_sleep` excludes callbacks that stop and deletions, because both may
leave an expired first entry with the wake-up time disabled (lines 155 and 241).
Its intervals stay below the wake-up limit for a like reason: a first entry
further away disables the wake-up time (line 241), and nothing sets it as the
entry comes near, for a call that finds nothing expired returns before (line
201). With `Interval` {1, 7}, `Quarter` 12 and `Wrap` 48 TLC finds an entry
missed: a device whose radio sleeps longer than the window, 4 s, loses a timer of
more than 5 s until the clock has wrapped.

Fairness: the main loop calls `blt_soft_timer_process` for ever and the clock
runs.

## 6. The dongle, the remote control, the serial programs

### The dongle (`MCDongle`)

| Module | Code | State | Actions |
|---|---|---|---|
| `CentralHost` | `blm_host.c`, `simple_sdp.c` | the link and the device on it; `smp`, `sdp`, `service` are `central_smp_pending`, `central_sdp_pending`, `main_service`; `busy`, `armed`, `dat` are `host_att_req_busy`, `p_att_response` and its buffer; `run` is where the discovery waits; `db`, `saved` what it found and kept | `Discovery` (start, next request, give up after one second), `PeerAnswers`, and the events `Advertises`, `Establish`, `Pairing`, `Disconnect`, which may come within the waits of a discovery |
| `CustomPair` | `custom_pair.c` | `flash`, a cell for each eight-byte entry; `tbl`, `cfg_idx` as in RAM; `mode` is "stuck" in the endless loop of line 280 | `Start` (read the log, compact it), `Add`, `DeleteByAdr`, `DeleteAll`, `PowerOff`; each is a list of flash operations, and power may fail between two and within one |
| `HostOta` | `blm_ota.c`, the parameter update of `blm_host.c` | `ota` has the variables of `blm_ota.c`; `update` the connection update under way, `req` the one asked for; `air` the write commands in the controller, `got` those the device has | `proc_ota`, one disjunct for each step of its session; the release of a button, the device's request for parameters, the end of an update, the answer to the read, the link |
| `PairButtons` | `button.c`, `host_pair_unpair_proc`, the unpair command in `blm_att.c` and in advertisements | the buttons, the debounce history, the flags of `button.c`; `unpairing` is `central_unpair_enable`, `closing` is `master_disconnect_flag`; `bonds`; `wants`: which device asked to be unpaired | `proc_button` (one poll), `host_pair_unpair_proc`, the events of the stack, the user's fingers |
| `UsbHid` | `usbkb.c`, `usbmouse.c`, `usb_handle_irq` | `usb`: ring of reports, endpoint registers, data toggles, last frame; `host`: what it received and the toggles it expects | frames from the air, `usb_handle_irq`, SetProtocol, bus reset, `HostPolls` |
| `UsbControl` | `usb.c` 75-140, 400-894 | `dev`: request, rest of the answer, stall flag, registers; `ep0`; the host's transfer | SETUP, DATA and STATUS interrupts in `usb_handle_irq`; the host's steps, which may give up at any point |

| Property of `dongle` | What it says |
|---|---|
| `PendingRuns`, `SavedOne` | a pending discovery runs or will run; the handles saved are of the one device saved with them |
| `CentralUnblocked` | no pending flag keeps the central from other devices for good |
| `BondsKept` | RAM and flash agree (but for the address of a bond written over a spoilt entry), other bonds survive any power failure of an add or delete and between operations, none that was deleted returns, the device starts, and goes on to start; of devices that ask once and stay for the answer (`~Careless`) a bond ends only by the UNPAIR button or for the device that asked for it, and with the buttons released nothing of theirs is left |
| `UpdatesSlave` | success is shown only when the device connected has the whole image in order; commands go to that device's own handle; parameters asked for are given to the device that asked; a session ends |
| `ReportsRight` | the ring of reports is bounded, the host drops a packet only after a SetProtocol, no key stays pressed when frames come at the pace of the host, and everything is delivered in the end |
| `AnswersRight` | a completed transfer returned the whole answer or its data is in the register, and a refused one does not complete; every transfer ends |

Bounds. The dongle's update: two devices, an image of two blocks (the last one
not whole) and one that is too large, two commands in the controller. Buttons:
both at once, without the update; and one at a time with it, where four presses
enter the test mode. Two devices with three characteristics, one of them a report (with a
reference to read): a discovery has every kind of request, and the second device
connects under the discovery of the first. Three bonds for a table of two and a
sector of six entries: the table is full, the log is compacted, and power fails
three times, in the start after a failure too. An erase is here all or nothing
(see section 8 for the other case). Rings of two reports with pointers modulo 4
and 8 for four modulo 256: the overflow test (line 160) meets a full ring and
the wrap. Packets of two bytes and descriptors of one, two and five:
shorter than, as long as, and longer than a packet.

Fairness: the main loop goes on with a discovery, whose wait ends after a
second; the peer's stack answers or the link is lost; a pairing ends with one of
its events (the stack has a timeout); a device that is off is switched on; the
main loop polls USB and the host polls its endpoints and goes on with a transfer
it has not given up; the main loop polls `proc_ota` and its clock runs. Of a
device that asks for the end of its pairing the passing run assumes that it does
not repeat the command at once and that its link does not drop within that turn
of the main loop (`Careless`, section 8). Nothing is assumed of the time at which a frame comes, a
link drops or power fails.

### The remote control and its voice (`MCRemote`)

| Module | Code | State | Actions |
|---|---|---|---|
| `FlashChips`, `FlashProt` | the sixteen chip drivers, `flash_prot.c`, `app_flash_protection_operation` | `sr`, the status register, which outlives power; `prot`, the lock chosen at the start; `op`, `tries`: the loop in progress | `PowerOn`, `Begin` and `End` of an update, `UnlockTurn`, `LockTurn` (one attempt, which may fail), power loss, a torn register write |
| `BleRemote` | `app.c`, `app_ui.c`, `app_audio.c` | the keys down and seen, the variables of `app_ui.c` and `app.c` under their names, reports in the stack, what the host takes to be down | `Scan` (key_change_proc and deep-sleep recovery), `blt_pm_proc`, `Wake`, link events, `Minute` (the timeouts), the user |
| `KeyScan` | `keyboard.c`, `kb_scan_key` of `keyboard.h` | the two matrices, the ring of four, repeat timer, last event | `kb_scan_key` as one action; fingers and wires are external |
| `IrSend` | `rc_ir.c`, `rc_ir_learn.c` 231-404, the infrared keys of `app_ui.c` | keys, mode and type as in `app_ui.c`; `ctrl` is `ir_send_ctrl`; `dma` the buffer address of the PWM; `air` what it sends and what it was started for | `key_change_proc`, split before `ir_nec_send` starts the PWM; `rc_ir_irq_prc`; the PWM, the user, deep sleep |
| `IrLearn` | `rc_ir_learn.c` 89-363 | `ir_learn_ctrl` under short names; `signal`, what the sender sent | `Edge` (the interrupt), `ir_learn_start` in three steps and `ir_learn_detect` in two, with edges between them |
| `LedEvents` | `blt_led.c` | `led` is `device_led`; `age` and `shone` what the user saw of the event | `device_led_setup`, `led_proc`, the clock |
| `MicEncoder` | `tl_audio.c` 640-740 | the DMA buffer, packet ring, pointers; samples are numbered | `Sampled`, `Encode`, `Send`, `On`, `Off` |
| `Adpcm` | `adpcm.c` | predictors of both ends, on real 16-bit values | `Speak`, `Hold`, `Decode`, `Lose` |
| `DongleAudio` | `tl_audio.c` 860-1000, main loop of the dongle | both rings of four with their counters, and where the main loop is | `abuf_mic_add`, `abuf_mic_dec` split where the USB interrupt may come, `Usb` |

| Property of `remote` | What it says |
|---|---|
| `FirmwareGuarded`, `UpdateLands` | outside updates both firmware slots are locked save the top 64 KB; inside one nothing is |
| `RemoteRight` | `key_not_released` follows the keys, the microphone is on only with a key down and a link, the remote can be reached unless it sleeps; with one key at a time, each reported before it is released, none stays down at the host |
| `KeysRight` | a key is what two scans agreed on, no ghost appears, the release is reported before the scan stops, the newest matrix is never lost, only a single held key repeats |
| `VoiceKept` | packets have no gap, come out in order, only the oldest are given up and only when the ring is full; they do go out |
| `CodecAgrees` | the decoder has the encoder's prediction over lost packets, and no code leads away from the sample |
| `SoundRight` | while no frame comes into a full ring (`Steady`), the USB interrupt plays what has been decoded, once and in order |
| `InfraredRight` | with one key at a time a NEC frame goes out only while its key is down, repeats stop with it, each press is sent; the remote is not kept awake by silence; a learned code has the carrier and the sections that came in, whatever earlier attempts left |
| `LedRight` | an event shines as often as it says, takes its time and not more than the last delay of the main loop, and gives way to higher priority only |
| `ComesToRest` | an untouched remote ends in deep sleep; an LED event and a learning end; a lock or unlock ends |

Bounds. All sixteen chips, three layouts of firmware, status bits beside the
protection ones; the loops have their real limit of three. Two keys down and one
report in the stack (full at once), or a patient user with every type of key;
one dropped link. Matrices of 2x2 (a ghost needs four corners), 3x2 with the
modifier, and 1x1 with all callers' arguments, where the ring of four fills and
its three-bit pointers wrap. Two packets of two samples with counters modulo 4,
two sessions of 14 samples. The codec is checked on the extremes of its range,
small values and up to six changes, then a held sample. Frames of three half
chunks, so that a packet of two runs over the end of a frame and of the ring, with counters modulo 8. Two infrared codes beside the mode key and the key
of the learned code: once with keys that overlap and nothing learned, once with
a learned code and one key at a time (section 8 says why). Bursts of up to four
edges with two lengths of gap, a buffer of six sections: codes that are too
short, just long enough, and too long; two starts. LED events of all kinds that
the remote has, with times of one and two ticks and a main loop up to five late.

Fairness: the main loop scans, decides on sleep, encodes and sends; DMA brings
samples; a lock or unlock loop goes on; a link that has been told to end does;
the LED program ends (`Shines` of `LedEvents` says why it may be assumed); the
main loop polls LED and learning; a minute passes; a sleeping remote with a key
down wakes.

### The serial programs (`MCSerial`)

| Module | Code | State | Actions |
|---|---|---|---|
| `FlashWrite` | `drivers/*/flash.c` | the bytes as sets of 1 bits; `addr`, `len`, `ns`, `buf` of the loop; `old` the flash before the call | `flash_page_program` (first piece chosen), `Piece` (one page), erase, power loss within a piece |
| `FwUpdate` | `fw_update.c`, `fw_update_phy.c`, `timer_event.c` | `m`, `s`, `q`, as in the OTA; `buf`, `rp` the ring of receive buffers that messages point into; `timer` the slots and the pointer `FW_UPDATE_rspWaitTimer` | a turn of each side pops one message and sends; `RspTimeout`, deadlines, starts, power loss; `PushedByIrq` and `PushedByTimer` give the queue after a push that an interrupt or the main loop met; the END state is split at its flash writes |
| `MyFifo`, `SppUart` | `utility.c`, `spp.c`, `app.c`, `main.c` of `ble_module` | both rings with pointers modulo `Wrap`, the pins, the sleep mask | UART receive in two steps (start and end of DMA), the handler in two (`RxBegin`, `RxEnd`), `tx_to_uart_cb`, `app_power_management`, sleep and both wake-up pins |
| `SoftUart` | `software_uart.c`, `feature_soft_uart/app.c` | levels on the line, the state bits of the receiver, the age of each interrupt, ring of buffers | `Tick`, `Irq` (late by up to `Latency`), `Take`, switching off and on |
| `UsbCdc` | `usbcdc.c`, `usb_cdc_irq_data_process` | both endpoints, the flags read once a turn | one action for each step of the turn, since the host moves in between |

| Property of `serial` | What it says |
|---|---|
| `Programmed` | a call that returns has programmed its bytes and no other |
| `UpdateRight` | the slave stays bootable, blocks are written once and in order, one timer runs at most, whatever an interrupt between the instructions of a push or a pop makes of the queue; without such an interrupt queued messages point to the frame that was checked, and answers too many fail no update |
| `ImplementsAtomicUpdate` | the UART update implements `AtomicUpdate`, as the OTA does |
| `SppRight` | commands and events stay whole and in order across the wrap, and the module sleeps only with nothing on its way and the MCU awake while events wait |
| `BytesAsSent` | bytes arrive as sent, once, in order, in the buffer |
| `EchoRight` | a host that waits for each echo gets back what it sent; of a full packet it did not take within 64 us only the empty one behind it |

Bounds. Pages of two bytes, three pages, two to a sector, buffers of up to five
bytes: every position against the page boundary, over two of them, and the copy
on the stack (one byte) smaller and larger than the buffer. Bytes have one bit:
programming works bit by bit. Updates of two blocks (a first and a last), one
fault and two starts without retries; a retry without faults; two faults, two
starts and three retries with answers that come before the timer; and a slow
slave with three retries whose queue fills; interrupts between the instructions of
a push or a pop (`Locked` FALSE) with a fault and two retries; timer slots are two, so that a leak
would show. Fifo rings of two with pointers modulo 4, five commands: the
pointers wrap twice. Bytes of two bits sampled at four units to the bit, with
interrupts late by a quarter of a bit.

The environments are those of the code's own use: an MCU that waits for the
answer to a command, a reader of the software UART that keeps up, a USB host that
waits for its echo. Section 8 says what happens with others.
No fairness is assumed: these properties are safety.

Deadlock is not checked in these three runs: bounds on the number of packets,
samples or starts let a part stop.

## 7. Proofs

`OtaUpdateProofs` proves for all images, bank sizes, erase sizes and retry
limits that satisfy the assumptions:

| Theorem | Statement |
|---|---|
| `TypeCorrect` | `Spec => []TypeOK` |
| `AlwaysBootable` | `Spec => []NeverBricked` |
| `OneEvent` | `Spec => []OneEventPerOperation` |
| `Atomic` | `Spec => ImplementsAtomicUpdate` |

*The inductive invariant.* `NeverBricked` speaks of the started bank only and is
not inductive: that a slave in CLEAR_FLAG may clear the other bank's flag is safe
only because the new bank is whole and its flag is set. `BootInv` says it state
by state: in a session up to SET_FLAG the device runs from the bank the boot ROM
starts, and the flag of the spare bank is erased; in SET_FLAG the spare bank is
whole; in CLEAR_FLAG both banks are whole and both flags are set. `IInv` joins it with
`TypeOK` and `MasterHasImage`. `InitIInv` and `NextIInv` show it inductive, the
latter with one lemma for each side (`MasterStepType`, `SlaveStepType`,
`SlaveStepBoot`) and one step per action in them.

*One event.* `AirInv` adds to `OneEventPerOperation` that a device that is off,
idle or back in its application is silent: no operation pending, no message
queued. These are the states that start an operation without consuming a
message. Every other pass consumes the one message before it starts the next
operation; the lemmas `OperationStep`, `QuietStep` and `ResetStep` cover the
ways a pass ends.

*Refinement.* `active` is the whole image in the started bank, `staged` the one
in the session's bank while its flag is about to be set. `AtomicStep` shows that
every step under `IInv` stages, commits, drops or stutters; the two flag writes
commit in a single step because the boot ROM prefers the bank at address 0.

*In step.* `OtaUpdateProofs` also proves `RequestWhole` (`Spec => []RequestsWhole`) and
`BothInStep` (`Spec => []InStep`). Neither is inductive: what the slave takes in
one pass is a frame sent several passes ago, perhaps in another session. `SInv`
has a part for each place the transfer is in: `RequestInv` says which frame the
master keeps for repeating in each state and that `Len` is its length,
`FrameInv` that at most one frame is on its way and that it is this request or
the answer to it, `AnswerInv` the same of the slave's last answer, and
`StepInv` which states of the two sides go together and that the slave then has
the first `BlockNum` blocks of the master's image. A session lost on one side
drops out of it because a master that asks for the version again has nothing on
its way from before once that answer has come. One lemma for each side's pass,
with one step per action.

*Clean transfers.* And it proves `TransfersClean`:
`EraseCovers => (Spec => CleanTransfer)`. `EraseCovers` says that the sectors an
erase covers hold every image; without it the theorem is false, which is what
`ota_erase` shows of the code's 60 KB. The slave cannot know which image it is
sent, so the invariant `CleanInv` has an existential: in a transfer there is one
image (`Session`) whose blocks, size and CRCs are what the slave has collected
and what its bank holds, every other cell still erased, and whoever may still
send to the slave holds that image (`Sender`). `WireInv` carries it over a
master that restarts with another image, `ReachInv` and `StartInv` say that
nothing outside the erased sectors was ever written.

*Assumptions.* `ImageAssumption`: versions are bytes, an image is longer than
one block. `RetryAssumption`. `SlaveAssumption`: images fit a bank, and at least
one block is erased. TLC evaluates them on every OTA run.

*The central.* `CentralHostProofs` proves for all devices, characteristics and
reports, whether or not answers are late and links drop under a discovery:
`TypeCorrect`, `PendingDiscoveryRuns` (`Spec => []PendingRuns`) and
`HandlesOfOneDevice` (`Spec => []SavedOne`). `SavedOne` is not inductive: an
answer may belong to a link that is gone. `IInv` adds `LinkKnown` (the central's
idea of the link against the controller's) and `Fresh` (what waits in `air`,
`dat` and `db` is of the device the discovery asks). One lemma for each way a
discovery goes on (`AskStep`, `EndStep`, `SaveStep`, `ReportStep`) and one for
each event.

*Bonds.* `CommonProofs` proves for any devices, any table and any sector that is more
than twice as long: `PairTypeCorrect`, `PairLogIsTable` (`LogIsTable`), `PairOthersSurvive`
(`OthersSurvive`), `PairNoneReturns` (`NoneReturns`) and `PairNeverStuck` (`NeverStuck`), however often power
fails. `Add` puts the caller's address in the table, as the code does, so `SameBond` leaves room for the one case in
which the flash says otherwise, an entry that power had spoilt and that is written over. `OthersSurvive` is about the
bonds kept since the last operation: the compaction at a start is not one of those, as it erases first (section 8). None is
inductive: what a start finds is read from the sector by a loop, and what power leaves is what a
torn operation makes of the sector after those before it. `Log(f, e, t)` says that sector `f` holds
entries up to `e`, is free behind it, save perhaps a spoilt entry at `e`, and lists the bonds `t`:
there are intermediate lists (`Collects`) that end with `t`. `PairInv` says that the sector holds such a
log which ends where the counter says and lists the table, and while the device is off
that it lists all that must survive (`Survive`). One lemma for each operation on the flash says what
it does to a log: `MarkLog` takes a bond out of the middle, so the lists after it lose it too;
`WriteLog` and `TornWrite` add one, or one with a wrong address, or none; `EraseLog` empties it. `AfterIs`,
`GoesThrough` and `GoesTo` lift them to lists of operations, by the induction of the timers'
sort below. The hypothesis is that an erase is not torn; section 8 shows `NeverStuck` fail without it.

*Buttons.* `CentralHostProofs` proves of `PairButtons` `BtnTypeCorrect`, `BtnReleasedIsOff`,
`BtnUnpairsAsked`, `BtnKeysEnable` and `BtnPressesAlone`. `AskInv` says that a request to end a
pairing is the UNPAIR button's, or that of the device connected and not yet sent away: only so can
the request not meet the next device, because a link ends with the request and a device is connected
to only when none is. `OneInv` follows the one button that is down into the debounce. The hypotheses
are that a device asks once and stays until it is answered (`~Careless`) and, for the last two, that
nobody holds both buttons (`~TwoButtons`): section 8 shows what happens otherwise.

*Updates by the dongle.* `CentralHostProofs` proves of `HostOta`, for any images, any size of a
block, any queue in the controller and any sessions and links: `OtaTypeCorrect`,
`OtaParametersOfLink`, `OtaOwnHandle` and `OtaSuccessIsWhole`. A success is shown when the controller
is empty, which says nothing of the device by itself. `SessionInv` says that a session
goes on only over the link whose handle it has; `SentInv` that the bytes sent are `n` blocks, and that
their commands (`Commands`) are the last ones in the controller, behind what an earlier session
left there, or have reached the device as far as the controller no longer holds them (`Carried`).
`MoreCarried` and `CarriedOver` say that sending and delivering keep that; the device starts anew
at a start, so the rests of earlier sessions are forgotten. `BlocksSent` counts: the end names the
last block. `HostOtaAssumption` says besides the ranges that no device is called like a state of `update`.
The hypothesis is that no answer comes which an earlier discovery gave up (`~Stale`); section 8
shows `OwnHandle` fail without it.

*Flash protection.* `RemoteProofs` proves for any chips whose table of codes
says what it locks (`ChipAssumption`, which TLC evaluates for all sixteen) and
any slot the layout allows (`LayoutAssumption`): `TypeCorrect`, `BitsKept` (no
other status bit changes, in a torn write neither), `UpdatesLand`,
`FirmwareIsGuarded` and `SystemDataIsWritable`. `IInv` says that a running
device holds the lock its start has chosen and which calls a session allows;
`LockedByBits` that only the protection bits decide what is locked.

*Flash writing.* `SerialProofs` proves for pages, sectors, bytes and buffers
of any size: `TypeCorrect`, `WholeBufferProgrammed` (`Spec => []Programmed`) and
`NothingElseChanges`. The argument is the loop invariant `Running`: what is
programmed so far is the part of the buffer before `buf`, and no piece passes
the end of its page, so `Cell` is the plain sum. `Torn` covers power that fails
within a piece.

*UART update.* `FwUpdateProofs` proves for any numbers of blocks, retries, faults
and timer slots (`FwUpdateAssumption`): `TypeCorrect`, `SlaveBootable`
(`NeverBricked`), `BlocksInOrder` (`InOrder`), `OneTimerRuns` (`OneTimer`) and
`Atomic` (`ImplementsAtomicUpdate`, the abstract specification of section 4).
`IInv` joins the types with `CountInv`, that the master counts its blocks from the
start of a transfer; `BootInv`, where the boot flags are in each state of the
slave; `WrittenInv`, that the bank being filled holds exactly the blocks counted,
each of the new image; and `LengthInv`. None of it says what the queue holds, so the theorems
stand for the unlocked queue of the code too (`Locked` may be FALSE: `MeetType`). `BuffersIntact` and `CopiesHarmless` are not part of it.

*The SPP module.* `UartProofs` proves for rings of any size, pointers of any width and
any number of commands and events: `SppTypeCorrect`, `SppCommandsKept`
(`CmdsInOrder`), `SppEventsKept` (`EventsInOrder`), `SppNeverSleepsBusy`
(`SleepsIdle`) and `SppMcuStaysAwake` (`McuAwake`). None of them is inductive. `CommandInv`
says where each command is that was received and not handled: in its slot, whole, and
in no slot that can be filled before the handler has read it again; `EventInv` says
the same of the events; `PowerInv` which pin is up while a command is on its way or
an event waits. The pointers wrap, so both rest on arithmetic of remainders:
`RingFacts` gets how full a ring is, and which slot comes next, from pointers
modulo `Wrap`, and `ModApart` that fewer entries than slots never share one. `SppUartRoom`
is the hypothesis: the MCU sends no more commands ahead than the ring has slots
(the ring has no other protection: `CmdBegins` fills a slot without looking), and
the rings are smaller than a pointer's range (8 and 256 in the code).

*The software UART.* `UartProofs` proves for bytes of any number of bits, any bit time and
latency, any number of buffers of any size and any bytes sent: `TypeCorrect`,
`BytesKept` (`BytesAsSent`) and `WritesWhenPrompt` (`WritesInBuffer`). The
invariant has two parts. `LineInv` is about time: while a byte is received, the
line and the next sample of timer 0 are at the same bit, the sample as late within it as the
start bit's interrupt was handled, so a sample always reads the bit it stands for; what
`temp_byte` has so far are the bits of the byte on the line. `DataInv` is about
order: what was taken, the ring's packets and the buffer in use, joined, are the bytes
whose stop bit was sampled (`Complete`). `Ring` says which buffers hold
packets, and the lemmas on `FlattenSeq`, again by induction over sets, what joining them
gives when one is appended or the first is taken. The hypothesis is `InTime`: twice the
latency of an interrupt is less than a bit, and the main loop takes a packet
before the ring is full. Without the second `WritesInBuffer` fails (section 8).

*The dongle's sound.* `RemotePartProofs` proves for frames of any length, counters of
any width and any number of silent packets after a reset: `TypeCorrect`,
`PlaysWhatWasDecoded` (`PlaysDecoded`), `DecodedInOrder` (`FramesInOrder`) and
`NeverTooMany` (`DecodedFits`). `CodedInv` says that each frame which came and is not decoded lies in
its slot, `DecodedInv` the same of the frames decoded and not played, and of the one
`abuf_mic_dec` has decoded and not counted yet; the interrupt of `abuf_dec_usb` may fall between any
two steps. The counters run modulo `W`; `CounterFacts` turns `Ahead` into
plain differences. The hypothesis is `Steady`: no frame comes while the ring of coded frames is full (section 8 has the other case).

*The remote control.* `RemotePartProofs` proves for any keys, any room for reports and
any number of dropped links: `RcTypeCorrect`, `RcCanBeReached` (`NeverMute`),
`RcAwakeWithKeys` (`KeyStateRight`), `RcMicrophone` (`MicWhileHeld`) and
`RcNoKeyStuck` (`NoStuckKey`). `ReachInv` says that a remote that is awake has
advertising on, or a link whose end it has asked for, or is about to sleep. `MicInv` adds that a voice key
counting its second is down. `CalmInv` follows a report to the host: at most one is
on its way, while it is the keys do not change, and the key the host takes to be down once it arrives
(`AtHost`) is of the type `key_type` names, so the release that comes next clears
it. The hypotheses: no key is kept over deep sleep
(`DEEPBACK_FAST_KEYSCAN_ENABLE` is 0 as shipped; section 8 shows what it breaks);
`KeyStateRight` needs at most two keys down, as a third takes the branch of the release;
`NoStuckKey` one key at a time and a user who waits until it is reported (`Patient`). `RcTypeCorrect` and
`RcCanBeReached` need none of them.

*LED events.* `RemotePartProofs` proves for any events, any count that stands for
without an end and any lateness of the main loop: `LedShinesAsAsked` (`ShoneAsAsked`),
`LedDoesNotDrift` (`NoDrift`), `LedProtectsEvents` (`Protected`) and `LedTypeCorrect`. `LampInv`
says how an event that runs is carried out: in one dark phase, in one lit phase, or
in rounds; and that the time behind it is what its finished phases take
(`Passed`) and what has gone by since `startTick`, the flashes behind it those of the repeats done.
The hypotheses are that an event takes some time and that a time joined from all its repeats fits the
16 bits it is kept in (`TimesFit`).

*Key scan.* The same module proves for up to four rows of any number of columns,
any room in an event and any repeat interval: `PadDebounced`, `PadNewestKept`,
`PadReleases` (`ReleasedWhenIdle`), `PadShowsKeysDown` (`NoGhostKey`), `PadRepeatsHeld`
(`RepeatsHeldKey`) and `PadTypeCorrect`. `PadInv` says that the rows read what the wires make of the keys,
that the debounced matrix is what two scans agreed on, and that the newest
matrix is the last event or in the ring; `Pushed` and `Popped` say what the
pointers, which count modulo eight, do to it. For ghost keys, `WiresRead` shows that
on at most four rows two joins read the keys of all rows connected to a
row (`Reach`: of five rows on a way two are the same, so no way is longer than
three steps), and `GhostsRemoved` that a row with a key the wires made has a second row with
the same two columns, which the filter takes. `RestInv` counts the
scans after the last key: the first leaves no key to filter, the second none in
the matrix. `RepeatInv` says that the timer's flag is about the key in
the matrix. The hypotheses: `PadReleases` and `PadRepeatsHeld` need a caller who
reads every event (`Reads`), as the main loops do; `PadRepeatsHeld` room for two keys in an
event (`KB_RETURN_KEY_MAX` is 6), for with room for one two keys look like one.

*USB echo.* `SerialProofs` proves `EchoesWhole`: for any number of packets, a host that waits
for each echo gets back what it sent. `CdcInv` follows a packet through endpoint,
flag, buffer and back (`Flight`): what the host got, joined with what is in flight,
is what its packets are to be answered with, full ones followed by an empty one
(`Echoes`), or, once the empty one was written before the full one was taken (`late`), that with the full packet
left out. The hypothesis is that the host waits; nothing is assumed of when it polls.

*Infrared.* `RemotePartProofs` proves of learning, for any lengths, thresholds, number of sections,
and edges that fall between any two steps of the main loop: `LearnTypeCorrect` and
`LearnsWhatCame` (`LearnedRight`). `EarInv` follows the signal: after an edge the burst or gap being
received is as long as `since` says, the sections before it are in `wave_series_buf` (`EarHears`), and the
cycle found is the carrier's as soon as a burst had two edges (`EarFinds`). `IrLearnAssumption`
says what the proof needs of the constants: the threshold of a carrier is below that of the end, and more than
one interval is checked, as an edge that comes while the record is cleared can use up one (with `CHECK = 1`
TLC finds the invariant broken; the code checks 10). Of sending, for any keys: `BeamTypeCorrect`,
`BeamSendsHeld` (`SendsHeld`), `BeamStopsWithKeys` (`StopsWithKeys`), `BeamNotSilent`
(`NoSilentSending`) and `BeamPressSends` (`PressSends`). `BeamInv` says that what sends has its
interrupt enabled and is on air or has just ended, that a repeat has a code to repeat (`BeamBusy`), that
the buffer of the learned code never holds a NEC frame (`BeamOwn`), and that with one key at a time
whatever an infrared key left, its frame on the air, the code about to be sent and the one sent last, is that key's and
lasts until it is up (`BeamAlone`). `SendsHeld`, `StopsWithKeys` and `PressSends` have the hypothesis
that no second key is pressed over the first, the other two that this holds or no code was
learned: section 8 shows what happens otherwise. That a code key gets its own frame out once a code was learned
is not among them, as the code does not keep it (section 8).

*The programs.* Eight properties of the runs `remote` and `serial` are conjunctions of
properties of a component taken by INSTANCE. `DongleSoundRight`, `RemoteKeysRight`, `LedEventsRight`,
`KeyScanRight`, `InfraredIsRight`, `SppModuleRight`, `EchoesRight` and `SoftUartRight` prove them of `MCSpec`, with all the other parts
moving. The modules `RemoteProofs` and `SerialProofs` take the component's proof module by
INSTANCE at the run's constants, show that a step of the program is a step of the
component or leaves its variables alone, and cite its theorems.

*Software timers.* `CommonProofs` proves for a table, a clock and intervals of
any size:

| Theorem | Statement | Under |
|---|---|---|
| `TypeCorrect` | `Spec => []TypeOK` | |
| `WakesForTheFirst` | `Spec => []WakesForFirst` | |
| `OrderKept` | `Spec /\ []NoneMissed => []Ordered` | `ShortIntervals` |
| `ServedInTurn` | `Spec /\ []NoneMissed => InTurn` | `ShortIntervals`, `OnlyRearm`, `LongEnough` |
| `NothingMissed` | `Spec => []NoneMissed` | `ShortIntervals`, `InTime`, `OnlyRearm` |
| `InTurnThroughout` | `Spec => InTurn /\ []Ordered` | all four |

The sort comes first. `Sort` and `BubbleUp` are recursive functions over an
interval of numbers, and what such a function computes is shown by induction over
sets: `LeastNumber` takes the least element of a set of counterexamples from the
well-foundedness of `<`, `Induction` and `Recursion` follow from it. `SwapFacts`,
`PassFacts` and `SortOrders` then say that a pass brings the last entry of its
part to the end and that the passes leave the table sorted, for any set of
entries on which the comparison is an order (`IsOrder`).

On all times it is none: of two times half a clock apart neither is big, and five
can be big to each other in a circle. `Ahead` counts from the latest time that still counts as expired, and
among times less than a `Quarter` ahead from there (`Live`) `TIME_COMPARE_BIG` is
the order of `Ahead` (`CompareFacts`, `LiveOrder`). The invariant `LInv` says that
the whole table is live, that the running loop's `now` is at most `MaxGap` old,
and that the table is sorted unless the loop has rearmed an entry. Only time can
break it, by carrying an entry out of the window; hence the hypothesis that none
is missed, which `soft_timer` checks with callbacks that stop, add and delete.

`NothingMissed` removes the hypothesis where callbacks only rearm. `LoopInv` says
that the entries the loop has passed are not expired and those to come are in
order, so at its end no entry is further back than the loop took (`MaxGap`);
`Held` follows the entries from there with `idle`. Asleep, either the sleep is
short, or the wake-up time is set (`WaitInv`), it is the first entry's
(`WakesForFirst`), and time does not pass it.

The hypotheses on constants are those of the code's values, in 1/16 us:
`ShortIntervals` says that the window (4 s) and every interval fit in the span
(67 s), and that a turn of the main loop is shorter than the window; `InTime`
that two turns are, and that a sleep is as well or no interval reaches the
wake-up limit; `LongEnough` that none is below the margin of 128 us. The constants
of `soft_timer_sleep` satisfy all of them, those of the other runs
`ShortIntervals`. That no chain of stopping callbacks drives an entry out
(`NoneMissed` in `soft_timer`) needs a count of the skips and stays with TLC.

*Left to TLC.* Liveness under fairness (`Served`, `NeverStarved`, the updates' progress)
is out of TLAPS's reach. Only model-checked are also what the
two ends of the voice link agree on (`VoiceKept`, `CodecAgrees`, whose codecs are recursive over
samples); USB reports and control transfers (`ReportsRight`, `AnswersRight`) and that every session of
an update ends (in `UpdatesSlave`); and of `FwUpdate`
`BuffersIntact`, `CopiesHarmless` and `NoneTooMany`: with retries without bound the
queue of four messages outgrows the three buffers, so that they hold only for
the bounded retries of the runs. A theorem is about a component's module, for all its constants; those of the
paragraph before are about a program, at the constants of its run.

## 8. Where the code and its comments disagree

Three runs expect a violation (`ota_version`, `ota_erase`, `soft_timer_turn`,
see sections 4 and 5). The others below are found by a run of the named
component alone, or of its program, with the constants changed as given; the
properties are in the modules.

| Code | Comment or document | What happens | Shown by |
|---|---|---|---|
| `simple_sdp.c` 114 | `blm_host.c` 308: a new device 'should do service discovery again' | a registration made while an earlier discovery waits is cleared with it; the new device is not discovered | `CentralHost` `Discovered`, `Chars` 2, `Slow` FALSE |
| `simple_sdp.c` 155 | line 72: 'service discovery OK' | an error answer to an earlier request ends the list of the next discovery, which saves the device with handles missing | `SavedWhole`, `Slow` TRUE |
| `simple_sdp.c` 158 | `blm_host.c` 614: 'ATT service discovery is ongoing' | an answer that comes before the discovery runs is copied to where the buffer of the last one was | `NoStrayCopy`, `Slow` TRUE |
| `custom_pair.c` 249 | line 280: 'more than max, we think it's code bug' | an erase torn by power failure leaves old bonds behind the new ones; the device stops at every later start | `CustomPair` `NeverStuck`, `MaxBonds` 1, `TornErase` TRUE |
| `custom_pair.c` 249-261 | lines 231-232: 'clean this sector and rewrite the valid addr' | the start erases the sector before it writes the bonds anew: power that fails in between takes bonds nobody deleted | `OthersSurvive` with `kept` not emptied by `Start` |
| `custom_pair.c` 133-142 | line 142: 'add OK' | a bond written over an entry that power had spoilt has a wrong address in flash: it is lost at the next start | `CustomPair` `LogIsTable` with `=` for `SameBond` |
| `custom_pair.c` 129 | line 241: 'big enough, no need clean' | a device that is not restarted fills the sector; adding deletes the oldest bond and then fails | `AddFits`, `MaxBonds` 1, `Power` 1 |
| `app_ui.c` 438 | line 435: 'kb_event.cnt == 0, key release' | two keys of different type: only the last type is released at the host | `BleRemote` `NoStuckKey`, `MaxHeld` 2, `TxFifo` 2, `Patient` TRUE |
| `app_ui.c` 435 | the same | the branch is also taken with three keys down | `KeyStateRight`, `MaxHeld` 3 |
| `app_ui.c` 291 | line 286: 'manual key release' | of a consumer key kept over deep sleep a keyboard release is sent | `NoStuckKey`, `FastScan` TRUE |
| `app_ui.c` 272 | 'no need manual release' | a voice key that was up before the link was there keeps the microphone on | `MicWhileHeld`, `FastScan` TRUE |
| `app.c` 372 | line 367: 'key Press again, can not enter deep now' | asked only while the link is up: the remote sleeps with a key down | `AwakeWhenPressed`, `MaxHeld` 1 |
| `tl_audio.c` 912 | line 910: 'in case of overflow' | the skipped frame counts as decoded and its slot is played; and as `num_dec` is older, the next may be decoded over the frame being played | `DongleAudio` `PlaysDecoded`, `Steady` FALSE |
| `blt_soft_timer.c` 213-226 | line 207: 'timer trigger', of entry `i` | a callback that adds or deletes a timer moves the entries: its result goes to whatever is at index `i` then | by reading, and as `SoftTimer` has it |
| `blt_led.c` 81, 85 | line 79: 'process one of on/off Time is zero situation' | the joined time is kept in 16 bits: past 65535 ms the event ends early; none of the repository's events does | `LedEvents` `ShoneAsAsked` without `TimesFit` |
| `rc_ir_learn.c` 246 | `rc_ir.c` 128-133: the frame of the key | a learned code moves the PWM to its own buffer, and no one moves it back: the next code keys send the learned code, until deep sleep | `IrSend` `air.sent = air.asked`, `Learned` TRUE |
| `app_ui.c` 449 | line 453: 'release' | an infrared key, the mode key and a key of the other mode in a roll: the release goes by the type of the last key and the repeats go on | `StopsWithKeys`, `Rollover` TRUE |
| `rc_ir_learn.c` 354 | 'add last carrier' | the cycle is added to the section before, a gap: the last burst is one cycle short | `IrLearn` `LastBurstWhole` |
| `rc_ir_learn.c` 178 | line 175: 'choose shortest as carrier' | the longest interval is kept | by reading |
| `rc_ir_learn.c` 146, 160 | line 185: the test for a full buffer | the entry is written before the test, one past the end | by reading: `Enter` leaves the write out |
| `flash.c` 238 | line 225: longer buffers stall the program | each piece is tested, after the pieces before it are written | `FlashWrite` `LongStalls` |
| `software_uart.c` 85 | lines 201-202: buffer and its size | with a full ring no new buffer is given and bytes go past the end | `SoftUart` `WritesInBuffer`, `Prompt` FALSE, `MaxBytes` 6 |
| `main.c` 74 (`ble_module`) | `spp.c` 248: takes one packet, handles it, pops it | the interrupt advances without testing for a free slot: the third command overwrites the one in work | `SppUart` `CmdsInOrder`, `Ahead` 2 |
| `usbcdc.c` 69 | 'delay for the actual data transfer to complete' | a host that polls later loses the full packet | `UsbCdc`: a state with `late`, as `EchoRight` says |
| `usbcdc.c` 47 | line 37: 'serves to send data to USB host' | a busy endpoint drops the packet without telling | `EchoRight`, `Waits` FALSE |
| `usbkb.c` 217 | lines 318-320: 'only generate one input report' | a press that was queued is reported again with the next frame | `UsbHid` `OneInputReport`, `KeepUp` FALSE |
| `usbmouse.c` 89 | line 105: 'return 1 success 0 fail' | a busy endpoint queues the report and the frame is kept too: it is sent twice | `NoRepeatedMotion`, `Inputs` {"mouse"} |
| `usb.c` `g_stall` with CDC | a refused request is stalled | the CDC requests share the flag: a refused transfer without data may end with success | `UsbControl` `RefusedNeverOk`, `CDC` TRUE |
| `button.c` 159-205 | line 140: a release clears the enable flag of that key | with the second button down, the release of the first clears nothing: both requests stay until all are released | `PairButtons` `KeysEnable`, `TwoButtons` TRUE |
| `button.c` 139, 159-205 | line 139: the test mode takes presses of PAIR alone | PAIR held while UNPAIR is tapped counts as a press | `TestModeAlone`, `TwoButtons` and `Updates` TRUE |
| `button.c` 214-221 | `blm_att.c` 126-130: the device's unpair command sets the flag | the release of a button clears the request of a device | `AskedIsDone` |
| `app.c` 290 | the same | a command whose link ends before the end of the turn, or that is repeated while the link closes, unpairs the device that connects next | `UnpairsAsked`, `Careless` TRUE |
| `blm_ota.c` 94-111 | line 88: the LED shows the result of the update | a button during a session changes the image whose LED shows the result: the other one stays on | `HostOta` `LedsOut` |
| `blm_ota.c` 177 | `blm_host.c` 642: a read of this type answered 'to find ota atthandle, should get the result' | only the request last sent is compared: what answers an earlier read, of a report's handle by a discovery that has given up, is taken for the OTA handle, and the image is written there | `HostOta` `OwnHandle`, `Stale` TRUE |
| `blm_ota.c` 402 | '50ms after last valid data' | `ota_lastData_tick` is never assigned: the end follows the last data at once | by reading: `NextStep` |
| `fw_update.c` 61, 74-75, 85 | lines 46-47: Cnt is the 'current num of msg' | the main loop pushes and pops with interrupts on: an interrupt between load and store of `Cnt` loses its message, or has a message from before handled again; an update that nothing else disturbs can fail for it, and a message then points to another frame than was checked. The slave stays bootable and its blocks in order all the same (`fw_raced`) | `FwUpdate` `CopiesHarmless` and `BuffersIntact`, `Locked` FALSE |

The passing runs set the constants so that the rest of each component is
checked beside the disagreement, and the README names the assumption: an erase
that is all or nothing, one key at a time for `NoStuckKey`, frames that come
while there is room, and the environments of section 6.

## 9. Hazards

`PROJECT.json` lists, at their lines, the places where this code can go wrong in
a way a test would hardly reach, and the properties that watch them. Two have no
property: a full sector of bonds and a frame of sound that finds no room, which
the code does not survive as it should (section 8).

## 10. What is not modelled

- The BLE and 2.4G stacks: only headers are in the repository.
- Register headers, drivers, boot assembly: most of the lines of the repository
  are names of registers and of stack functions, tables and configuration for
  three chips. They have no behaviour of their own that a state machine could
  keep, which bounds the share of the lines that a faithful map can name. The
  boot ROM's choice of a bank and the behaviour of flash cells, USB endpoints,
  GPIO and DMA are modelled as external facts.
- In the OTA: two radio interrupts at once, or one cleared with another
  (`app.c` 89); the time between starting a transmission and filling its buffer
  (`mac.c` 106); the CRC arithmetic, and firmware whose CRCs collide.
- In the UART update: the slot of a message that was popped from a full queue is
  filled again before the message is read; a build that reads `Cnt` twice within
  one push.
- In the dongle: the translation of HID reports to USB; what the updated device
  makes of the commands (the result it reports is not looked at).
- In the remote: OTA callbacks, battery check, the stuck-key option, which is
  off.
- In the SPP module: the meaning of the single commands, most of which call the
  stack.
- The SBC and mSBC codecs, filters and gain control; volume and mute of the USB
  audio class.
- Reading flash, CRC and signature at the start: straight-line code.
- Printing, e-paper drawing, samples and feature tests other than the two named:
  configuration and computation with no protocol of their own.
