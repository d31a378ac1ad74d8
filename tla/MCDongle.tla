------------------------------ MODULE MCDongle ------------------------------
(* The dongle's program (vendor/ble_master_kma_dongle): the BLE host with its *)
(* service discovery, the table of bonds and its buttons, the update of a    *)
(* device, the reports of keyboard and mouse, and control transfers.  The    *)
(* parts share no variable, so a property of one of them holds in the        *)
(* program if it holds while that part alone moves; part says which one does. *)
EXTENDS CentralHost, Integers

CONSTANT Parts  \* the components that run

VARIABLE part  \* the component that moves in this behaviour
VARIABLES
  pair_flash, pair_tbl, pair_cfg_idx, pair_mode, pair_kept, pair_full,
  pair_failures, hid_usb, hid_mouse, hid_host, hid_want, hid_count, ctl_dev,
  ctl_ep0, ctl_irq, ctl_host, ota_rom, ota_link, ota_noticed, ota_busy,
  ota_req, ota_update, ota_ota, ota_expired, ota_lit, ota_reading, ota_air,
  ota_got, btn_down, btn_samples, btn_stable, btn_pairing, btn_unpairing,
  btn_flags, btn_run, btn_recent, btn_mode, btn_cmd, btn_polled, btn_target,
  btn_link, btn_closing, btn_bonds, btn_wants

CONSTANTS KeyA, KeyB, Volume, NoKey  \* keys of the keyboard and of the remote

\* An image of two blocks, the last one not whole, and one that is too large.
OtaRoms == {<<3, 9>>}

\* Descriptors shorter than a packet, as long as one, and longer than two.
DescLength == [one |-> 1, packet |-> 2, long |-> 5]

Pair == INSTANCE CustomPair WITH
  Device <- {"a", "b", "c"}, MaxBonds <- 2, Entries <- 6, TornErase <- FALSE,
  Power <- 3, flash <- pair_flash, tbl <- pair_tbl, cfg_idx <- pair_cfg_idx,
  mode <- pair_mode, kept <- pair_kept, full <- pair_full,
  failures <- pair_failures

Hid == INSTANCE UsbHid WITH
  NKey <- {KeyA}, SKey <- {}, MKey <- {}, NoKey <- NoKey, Ctrl <- {0},
  USB_FIFO_NUM <- 2, MOUSE_NUM <- 4, U8 <- 4, MaxMouse <- 1,
  Inputs <- {"kb", "mouse", "proto", "reset"}, KeepUp <- FALSE,
  usb <- hid_usb, mouse <- hid_mouse, host <- hid_host, want <- hid_want,
  count <- hid_count

Kept == INSTANCE UsbHid WITH
  NKey <- {KeyA, KeyB}, SKey <- {}, MKey <- {Volume}, NoKey <- NoKey,
  Ctrl <- {0, 1}, USB_FIFO_NUM <- 2, MOUSE_NUM <- 1, U8 <- 8, MaxMouse <- 0,
  Inputs <- {"kb", "media", "reset"}, KeepUp <- TRUE, usb <- hid_usb,
  mouse <- hid_mouse, host <- hid_host, want <- hid_want, count <- hid_count

Ctl == INSTANCE UsbControl WITH
  DescLen <- DescLength, EP0_SIZE <- 2, Lengths <- {2, 3, 6},
  Values <- {0, 1}, Reg <- {"proto", "leds"}, CDC <- FALSE, dev <- ctl_dev,
  ep0 <- ctl_ep0, irq <- ctl_irq, host <- ctl_host

HOta == INSTANCE HostOta WITH
  Roms <- OtaRoms, FW_SIZE_MAX <- 8, Block <- 2, TxFifo <- 2, Stale <- FALSE,
  rom <- ota_rom, link <- ota_link, noticed <- ota_noticed, busy <- ota_busy,
  req <- ota_req, update <- ota_update, ota <- ota_ota,
  expired <- ota_expired, lit <- ota_lit, reading <- ota_reading,
  air <- ota_air, got <- ota_got

Btn == INSTANCE PairButtons WITH
  TwoButtons <- TRUE, Careless <- FALSE, Updates <- FALSE, down <- btn_down,
  samples <- btn_samples, stable <- btn_stable, pairing <- btn_pairing,
  unpairing <- btn_unpairing, flags <- btn_flags, run <- btn_run,
  recent <- btn_recent, mode <- btn_mode, cmd <- btn_cmd,
  polled <- btn_polled, target <- btn_target, link <- btn_link,
  closing <- btn_closing, bonds <- btn_bonds, wants <- btn_wants

Test == INSTANCE PairButtons WITH
  TwoButtons <- FALSE, Careless <- FALSE, Updates <- TRUE, down <- btn_down,
  samples <- btn_samples, stable <- btn_stable, pairing <- btn_pairing,
  unpairing <- btn_unpairing, flags <- btn_flags, run <- btn_run,
  recent <- btn_recent, mode <- btn_mode, cmd <- btn_cmd,
  polled <- btn_polled, target <- btn_target, link <- btn_link,
  closing <- btn_closing, bonds <- btn_bonds, wants <- btn_wants

pair_vars == <<pair_flash, pair_tbl, pair_cfg_idx, pair_mode, pair_kept,
              pair_full, pair_failures>>
hid_vars == <<hid_usb, hid_mouse, hid_host, hid_want, hid_count>>
ctl_vars == <<ctl_dev, ctl_ep0, ctl_irq, ctl_host>>
ota_vars == <<ota_rom, ota_link, ota_noticed, ota_busy, ota_req, ota_update,
             ota_ota, ota_expired, ota_lit, ota_reading, ota_air, ota_got>>
btn_vars == <<btn_down, btn_samples, btn_stable, btn_pairing, btn_unpairing,
             btn_flags, btn_run, btn_recent, btn_mode, btn_cmd, btn_polled,
             btn_target, btn_link, btn_closing, btn_bonds, btn_wants>>

all_vars == <<part, vars, pair_vars, hid_vars, ctl_vars, ota_vars, btn_vars>>

ASSUME ComponentAssumptions ==
  /\ Pair!CustomPairAssumption
  /\ Hid!UsbHidAssumption
  /\ Kept!UsbHidAssumption
  /\ Ctl!UsbControlAssumption
  /\ HOta!HostOtaAssumption
  /\ Btn!PairButtonsAssumption
  /\ Test!PairButtonsAssumption

CentralMoves ==
  part = "central" /\ Next /\ UNCHANGED <<part, pair_vars, hid_vars, ctl_vars, ota_vars, btn_vars>>
PairMoves ==
  part = "pair" /\ Pair!Next /\ UNCHANGED <<part, vars, hid_vars, ctl_vars, ota_vars, btn_vars>>
HidMoves ==
  part = "hid" /\ Hid!Next /\ UNCHANGED <<part, vars, pair_vars, ctl_vars, ota_vars, btn_vars>>
KeptMoves ==
  part = "hid_kept" /\ Kept!Next /\ UNCHANGED <<part, vars, pair_vars, ctl_vars, ota_vars, btn_vars>>
CtlMoves ==
  part = "control" /\ Ctl!Next /\ UNCHANGED <<part, vars, pair_vars, hid_vars, ota_vars, btn_vars>>
HOtaMoves ==
  part = "host_ota" /\ HOta!Next /\ UNCHANGED <<part, vars, pair_vars, hid_vars, ctl_vars, btn_vars>>
BtnMoves ==
  part = "buttons" /\ Btn!Next /\ UNCHANGED <<part, vars, pair_vars, hid_vars, ctl_vars, ota_vars>>
TestMoves ==
  part = "buttons_test" /\ Test!Next /\ UNCHANGED <<part, vars, pair_vars, hid_vars, ctl_vars, ota_vars>>

MCInit ==
  /\ part \in Parts /\ Init
  /\ Pair!Init /\ Hid!Init /\ Ctl!Init /\ HOta!Init /\ Btn!Init

MCNext ==
  \/ CentralMoves
  \/ PairMoves
  \/ HidMoves
  \/ KeptMoves
  \/ CtlMoves
  \/ HOtaMoves
  \/ BtnMoves
  \/ TestMoves

\* The fairness each component assumes, while it moves.  A property that says that
\* something happens assumes its component's alone.
CentralFairness ==
  /\ WF_vars(part = "central" /\ Discovery)
  /\ WF_vars(part = "central" /\ PeerAnswers)
  /\ WF_vars(part = "central" /\ Pairing)
PairFairness == WF_pair_vars(part = "pair" /\ Pair!Start)
HidFairness ==
  /\ WF_hid_vars(part = "hid" /\ Hid!usb_handle_irq)
  /\ WF_hid_vars(part = "hid" /\ Hid!HandleReset)
  /\ \A e \in Hid!EP : WF_hid_vars(part = "hid" /\ Hid!HostPolls(e))
CtlFairness ==
  /\ WF_ctl_vars(part = "control" /\ Ctl!usb_handle_irq)
  /\ WF_ctl_vars(part = "control" /\ Ctl!HostProceeds)
HOtaFairness ==
  /\ WF_ota_vars(part = "host_ota" /\ HOta!proc_ota)
  /\ WF_ota_vars(part = "host_ota" /\ HOta!Expires)

MCSpec == MCInit /\ [][MCNext]_all_vars

-----------------------------------------------------------------------------
(* Properties.                                                              *)

\* Neither a pairing nor a discovery keeps the central from other devices for
\* good (blm_host.c:184-193).
CentralUnblocked == part = "central" => (CentralFairness => Unblocked)

\* Whatever power does to an add or a delete, the log in flash says what the table
\* says (but for an address written over an entry that power had spoilt), no other
\* bond is lost, none that was deleted comes back and the device starts
\* (custom_pair.c); the start itself may lose bonds where it writes the sector anew
\* (249-261).  And a bond is ended only at the button or by the device it is with,
\* of devices that ask once and stay until they are answered (app.c:290-304).
BondsKept ==
  /\ [](/\ Pair!TypeOK /\ Pair!LogIsTable /\ Pair!OthersSurvive /\ Pair!NeverStuck
        /\ Btn!TypeOK /\ Btn!ReleasedIsOff
        /\ part = "buttons_test" => Test!KeysEnable)
  /\ Pair!NoneReturns /\ Btn!UnpairsAsked
  /\ [][part = "buttons_test" => Test!PressesAlone]_btn_vars
  /\ part = "pair" => (PairFairness => Pair!Starts)

\* The fifo of reports stays within its slots and the host ignores no packet but
\* the one a SetProtocol explains; and when reports are taken before the next
\* frame comes, no key is left pressed (usbkb.c, usbmouse.c, usb.c:400-413).
ReportsRight ==
  /\ [](/\ part = "hid" => Hid!TypeOK /\ Hid!FifoBounded
        /\ part = "hid_kept" => Kept!TypeOK /\ Kept!NoStuckKey)
  /\ Hid!DropsExplained
  /\ part = "hid" => (HidFairness => Hid!AllDelivered)

\* A completed transfer returned the whole of what was asked for or wrote what it
\* brought, a refused request did not complete, and every transfer ends, one whose
\* answer fills its packets included (usb.c:75-120, 400-480).
AnswersRight ==
  /\ [](/\ Ctl!TypeOK /\ Ctl!DescriptorWhole /\ Ctl!ReadBack
        /\ Ctl!WriteDone /\ Ctl!RefusedNeverOk)
  /\ part = "control" => (CtlFairness => Ctl!TransferEnds)

\* The dongle shows that an update succeeded only when the device connected has
\* the whole image, in order, writes only that device's characteristic, gives no
\* device the parameters of another, and ends every session, where no answer comes
\* to a read that a discovery has given up (blm_ota.c, blm_host.c).
UpdatesSlave ==
  /\ [](HOta!TypeOK /\ HOta!ParametersOfLink /\ HOta!OwnHandle)
  /\ HOta!SuccessIsWhole
  /\ part = "host_ota" => (HOtaFairness => HOta!SessionEnds)
=============================================================================
