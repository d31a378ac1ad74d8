------------------------------ MODULE MCSerial ------------------------------
(* What the programs with a serial line are made of: internal flash (all of   *)
(* them), the firmware update over UART (vendor/2p4g_feature/uart_fw_update), *)
(* the SPP module (vendor/ble_module), the software UART and the USB serial   *)
(* port (vendor/ble_feature_test).  They share no variable, so each is        *)
(* checked while it alone moves; part says which one does.                   *)
EXTENDS FlashWrite

CONSTANT Parts  \* the components that run

VARIABLE part  \* the component that moves in this behaviour
VARIABLES
  fw_m, fw_s, fw_q, fw_buf, fw_rp, fw_timer, fw_flash, fw_budget, spp_rx,
  spp_rxSlot, spp_tx, spp_txSlot, spp_uart, spp_loop, spp_pm, spp_pin,
  spp_sent, spp_handled, spp_queued, spp_out, soft_wire, soft_left, soft_rx,
  soft_gpio, soft_timer, soft_slots, soft_w, soft_r, soft_sent, soft_taken,
  cdc_in, cdc_out, cdc_ready, cdc_irq, cdc_pc, cdc_flags, cdc_data, cdc_sent,
  cdc_got, cdc_late

CONSTANTS MaxLen, Bit

MCBits == {Bit}
Zero == {}
One == {Bit}

\* Buffers of all lengths: of zeros, and of zeros and ones in turn.
MCData ==
  {[i \in 1 .. n |-> Zero] : n \in 0 .. MaxLen}
    \cup {[i \in 1 .. n |-> IF i % 2 = 1 THEN One ELSE Zero] : n \in 2 .. MaxLen}

Fw == INSTANCE FwUpdate WITH
  NumBlocks <- 2, Retries <- 0, MaxFaults <- 1, Starts <- 2, Slots <- 2,
  Prompt <- FALSE, Locked <- TRUE, m <- fw_m, s <- fw_s, q <- fw_q,
  buf <- fw_buf, rp <- fw_rp, timer <- fw_timer, flash <- fw_flash,
  budget <- fw_budget

Again == INSTANCE FwUpdate WITH
  NumBlocks <- 2, Retries <- 1, MaxFaults <- 0, Starts <- 1, Slots <- 2,
  Prompt <- FALSE, Locked <- TRUE, m <- fw_m, s <- fw_s, q <- fw_q,
  buf <- fw_buf, rp <- fw_rp, timer <- fw_timer, flash <- fw_flash,
  budget <- fw_budget

Lossy == INSTANCE FwUpdate WITH
  NumBlocks <- 2, Retries <- 3, MaxFaults <- 2, Starts <- 2, Slots <- 2,
  Prompt <- TRUE, Locked <- TRUE, m <- fw_m, s <- fw_s, q <- fw_q,
  buf <- fw_buf, rp <- fw_rp, timer <- fw_timer, flash <- fw_flash,
  budget <- fw_budget

Slow == INSTANCE FwUpdate WITH
  NumBlocks <- 2, Retries <- 3, MaxFaults <- 0, Starts <- 1, Slots <- 2,
  Prompt <- TRUE, Locked <- TRUE, m <- fw_m, s <- fw_s, q <- fw_q,
  buf <- fw_buf, rp <- fw_rp, timer <- fw_timer, flash <- fw_flash,
  budget <- fw_budget

Raced == INSTANCE FwUpdate WITH
  NumBlocks <- 2, Retries <- 2, MaxFaults <- 1, Starts <- 1, Slots <- 2,
  Prompt <- TRUE, Locked <- FALSE, m <- fw_m, s <- fw_s, q <- fw_q,
  buf <- fw_buf, rp <- fw_rp, timer <- fw_timer, flash <- fw_flash,
  budget <- fw_budget

Spp == INSTANCE SppUart WITH
  Wrap <- 4, RxNum <- 2, TxNum <- 2, Ahead <- 1, MaxCmds <- 5, MaxEvents <- 1,
  rx <- spp_rx, rxSlot <- spp_rxSlot, tx <- spp_tx, txSlot <- spp_txSlot,
  uart <- spp_uart, loop <- spp_loop, pm <- spp_pm, pin <- spp_pin,
  sent <- spp_sent, handled <- spp_handled, queued <- spp_queued,
  out <- spp_out

Soft == INSTANCE SoftUart WITH
  Bits <- 2, Q <- 4, Latency <- 1, DataSize <- 2, Num <- 2, MaxBytes <- 3,
  Prompt <- TRUE, Pauses <- TRUE, wire <- soft_wire, left <- soft_left,
  rx <- soft_rx, gpio <- soft_gpio, timer <- soft_timer, slots <- soft_slots,
  w <- soft_w, r <- soft_r, sent <- soft_sent, taken <- soft_taken

Cdc == INSTANCE UsbCdc WITH
  MaxPackets <- 4, Waits <- TRUE, in <- cdc_in, out <- cdc_out,
  ready <- cdc_ready, irq <- cdc_irq, pc <- cdc_pc, flags <- cdc_flags,
  data <- cdc_data, sent <- cdc_sent, got <- cdc_got, late <- cdc_late

fw_vars == <<fw_m, fw_s, fw_q, fw_buf, fw_rp, fw_timer, fw_flash, fw_budget>>
spp_vars == <<spp_rx, spp_rxSlot, spp_tx, spp_txSlot, spp_uart, spp_loop,
             spp_pm, spp_pin, spp_sent, spp_handled, spp_queued, spp_out>>
soft_vars == <<soft_wire, soft_left, soft_rx, soft_gpio, soft_timer,
              soft_slots, soft_w, soft_r, soft_sent, soft_taken>>
cdc_vars == <<cdc_in, cdc_out, cdc_ready, cdc_irq, cdc_pc, cdc_flags,
             cdc_data, cdc_sent, cdc_got, cdc_late>>

all_vars == <<part, vars, fw_vars, spp_vars, soft_vars, cdc_vars>>

ASSUME ComponentAssumptions ==
  /\ Fw!FwUpdateAssumption
  /\ Again!FwUpdateAssumption
  /\ Lossy!FwUpdateAssumption
  /\ Slow!FwUpdateAssumption
  /\ Raced!FwUpdateAssumption
  /\ Spp!SppUartAssumption
  /\ Soft!SoftUartAssumption
  /\ Cdc!UsbCdcAssumption

WriteMoves ==
  part = "write" /\ Next /\ UNCHANGED <<part, fw_vars, spp_vars, soft_vars, cdc_vars>>
FwMoves ==
  part = "fw_update" /\ Fw!Next /\ UNCHANGED <<part, vars, spp_vars, soft_vars, cdc_vars>>
AgainMoves ==
  part = "fw_retry" /\ Again!Next /\ UNCHANGED <<part, vars, spp_vars, soft_vars, cdc_vars>>
LossyMoves ==
  part = "fw_lossy" /\ Lossy!Next /\ UNCHANGED <<part, vars, spp_vars, soft_vars, cdc_vars>>
SlowMoves ==
  part = "fw_slow" /\ Slow!Next /\ UNCHANGED <<part, vars, spp_vars, soft_vars, cdc_vars>>
RacedMoves ==
  part = "fw_raced" /\ Raced!Next /\ UNCHANGED <<part, vars, spp_vars, soft_vars, cdc_vars>>
SppMoves ==
  part = "spp" /\ Spp!Next /\ UNCHANGED <<part, vars, fw_vars, soft_vars, cdc_vars>>
SoftMoves ==
  part = "soft_uart" /\ Soft!Next /\ UNCHANGED <<part, vars, fw_vars, spp_vars, cdc_vars>>
CdcMoves ==
  part = "cdc" /\ Cdc!Next /\ UNCHANGED <<part, vars, fw_vars, spp_vars, soft_vars>>

MCInit ==
  /\ part \in Parts /\ Init
  /\ Fw!Init /\ Spp!Init /\ Soft!Init /\ Cdc!Init
  /\ part = "fw_update" \/ fw_flash[0].boot

MCNext ==
  \/ WriteMoves
  \/ FwMoves
  \/ AgainMoves
  \/ LossyMoves
  \/ SlowMoves
  \/ RacedMoves
  \/ SppMoves
  \/ SoftMoves
  \/ CdcMoves

MCSpec == MCInit /\ [][MCNext]_all_vars

-----------------------------------------------------------------------------
(* Properties.                                                              *)

\* The slave's running image changes in one step from the old to the new one,
\* whatever is lost and whenever power goes (fw_update.c:820-880).
ImplementsAtomicUpdate == Fw!ImplementsAtomicUpdate

\* The slave stays bootable, writes each block once and in order, and one timer runs
\* at most, whatever interrupts make of the queue; as long as none comes while the
\* main loop is in it, a queued message points to the frame that was checked, and
\* requests that pile up while the slave erases, with the answers too many they lead
\* to, fail no update (fw_update.c:61-110, 400-900; fw_update_phy.c:100-120).
UpdateRight ==
  /\ [](/\ Fw!NeverBricked /\ Fw!InOrder /\ Fw!OneTimer
        /\ part # "fw_raced" => Fw!BuffersIntact
        /\ CASE part = "fw_retry" -> Again!TypeOK
             [] part = "fw_lossy" -> Lossy!TypeOK
             [] part = "fw_slow"  -> Slow!TypeOK
             [] part = "fw_raced" -> Raced!TypeOK
             [] OTHER             -> Fw!TypeOK)
  /\ [][part = "fw_slow" => Slow!NoneTooMany]_fw_vars

\* Commands and events stay whole and in order across the wrap of the pointers,
\* and the module sleeps only with nothing on its way (spp.c, app.c:290-360).
SppRight ==
  Spp!TypeOK /\ Spp!CmdsInOrder /\ Spp!EventsInOrder /\ Spp!SleepsIdle /\ Spp!McuAwake

\* Every byte is received as it was sent, once and in order, into the receiving
\* buffer, although interrupts are late (software_uart.c:50-200).
BytesAsSent == Soft!TypeOK /\ Soft!BytesAsSent /\ Soft!WritesInBuffer

\* A host that waits for each echo gets back what it sent, full packets followed
\* by empty ones; if it has not taken a full packet within the 64 microseconds of
\* usbcdc.c:69, the empty one takes its place, and that packet alone is lost.
EchoRight == Cdc!TypeOK /\ Cdc!EchoRight
=============================================================================
