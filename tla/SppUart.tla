------------------------------- MODULE SppUart -------------------------------
(***************************************************************************)
(* The UART of the BLE module (vendor/ble_module): an MCU sends commands    *)
(* that the receive interrupt queues, the main loop handles them and queues *)
(* events, which go out one at a time; in between the module may sleep.     *)
(* GPIO_WAKEUP_MODULE keeps it awake, GPIO_WAKEUP_MCU wakes the MCU.        *)
(***************************************************************************)
EXTENDS Integers, Sequences, SequencesExt, MyFifo

CONSTANTS
  RxNum, TxNum,    \* SPP_RXFIFO_NUM, SPP_TXFIFO_NUM
  Ahead,           \* commands the MCU may start before the last one it sent is handled
  MaxCmds,         \* commands sent, to bound the runs
  MaxEvents        \* events of the stack, to bound the runs

SppUartAssumption ==
  /\ RxNum \in Nat \ {0} /\ TxNum \in Nat \ {0} /\ Wrap \in Nat \ {0}
  /\ Wrap % RxNum = 0 /\ Wrap % TxNum = 0
  /\ Ahead \in Nat /\ MaxCmds \in Nat /\ MaxEvents \in Nat

VARIABLES
  rx, rxSlot,      \* spp_rx_fifo; commands are numbered as they are sent
  tx, txSlot,      \* spp_tx_fifo; events likewise
  uart,            \* "in": the command that arrives; "out": the event in T_txdata_buf
                   \* that goes out; isUartTxDone
  loop,            \* the slot rx_from_uart_cb works on, and what it began to read
  pm,              \* suspend mask, tick_wakeup, module_uart_data_flg, sleeping
  pin,             \* the MCU drives GPIO_WAKEUP_MODULE, the module pulls it; GPIO_WAKEUP_MCU
  sent, handled,   \* commands sent by the MCU, and handled
  queued, out      \* events accepted by spp_send_data, and sent

vars == <<rx, rxSlot, tx, txSlot, uart, loop, pm, pin, sent, handled, queued, out>>

Nothing == 0
Torn == -1       \* a command whose slot was written while it was read
FromStack == 0  \* an event that is no command's answer

Init ==
  /\ rx = Fifo(RxNum) /\ rxSlot = [i \in 0..(RxNum - 1) |-> Nothing]
  /\ tx = Fifo(TxNum) /\ txSlot = [i \in 0..(TxNum - 1) |-> Nothing]
  /\ uart = [in |-> Nothing, out |-> <<>>, isUartTxDone |-> TRUE]
  /\ loop = [slot |-> NoSlot, cmd |-> Nothing]
  /\ pm = [suspend |-> FALSE, tick_wakeup |-> FALSE, data_flg |-> FALSE, asleep |-> FALSE]
  /\ pin = [mcu |-> FALSE, pull |-> FALSE, wakeup_mcu |-> FALSE]
  /\ sent = 0 /\ handled = <<>> /\ queued = <<>> /\ out = <<>>

-----------------------------------------------------------------------------
(* The MCU and the UART.                                                   *)

\* The MCU pulls GPIO_WAKEUP_MODULE up before it sends, and lets it go when the
\* whole command is received.
McuRaise ==
  /\ ~ pin.mcu /\ pin' = [pin EXCEPT !.mcu = TRUE]
  /\ UNCHANGED <<rx, rxSlot, tx, txSlot, uart, loop, pm, sent, handled, queued, out>>

McuLower ==
  /\ pin.mcu /\ uart.in = Nothing /\ pin' = [pin EXCEPT !.mcu = FALSE]
  /\ UNCHANGED <<rx, rxSlot, tx, txSlot, uart, loop, pm, sent, handled, queued, out>>

\* DMA writes into the slot of wptr, whether or not it was read.
CmdBegins ==
  /\ pin.mcu /\ ~ pm.asleep /\ uart.in = Nothing
  /\ sent < MaxCmds /\ sent - Len(handled) <= Ahead
  /\ sent' = sent + 1
  /\ uart' = [uart EXCEPT !.in = sent + 1]
  /\ rxSlot' = [rxSlot EXCEPT ![SlotOf(rx, rx.wptr)] = Torn]
  /\ UNCHANGED <<rx, tx, txSlot, loop, pm, pin, handled, queued, out>>

\* The receive interrupt: no check of the fill level.
CmdEnds ==
  /\ uart.in # Nothing
  /\ rxSlot' = [rxSlot EXCEPT ![SlotOf(rx, rx.wptr)] = uart.in]
  /\ rx' = my_fifo_next(rx)
  /\ uart' = [uart EXCEPT !.in = Nothing]
  /\ UNCHANGED <<tx, txSlot, loop, pm, pin, sent, handled, queued, out>>

\* The transmit interrupt.
TxDone ==
  /\ uart.out # <<>>
  /\ out' = out \o uart.out
  /\ uart' = [uart EXCEPT !.out = <<>>, !.isUartTxDone = TRUE]
  /\ UNCHANGED <<rx, rxSlot, tx, txSlot, loop, pm, pin, sent, handled, queued>>

-----------------------------------------------------------------------------
(* The main loop.                                                          *)

\* spp_send_data: an event a full ring refuses is lost.
spp_send_data(e) ==
  IF my_fifo_wptr(tx) = NoSlot THEN UNCHANGED <<tx, txSlot, pm, pin, queued>>
  ELSE /\ txSlot' = [txSlot EXCEPT ![my_fifo_wptr(tx)] = e]
       /\ tx' = my_fifo_next(tx)
       /\ queued' = Append(queued, e)
       /\ pm' = [pm EXCEPT !.data_flg = TRUE]
       /\ pin' = IF pm.data_flg THEN pin ELSE [pin EXCEPT !.wakeup_mcu = TRUE]

StackEvent ==
  /\ ~ pm.asleep /\ Len(SelectSeq(queued, LAMBDA e : e = FromStack)) < MaxEvents
  /\ spp_send_data(FromStack)
  /\ UNCHANGED <<rx, rxSlot, uart, loop, sent, handled, out>>

\* rx_from_uart_cb, from its first look at the command to its answer and the pop.
RxBegin ==
  /\ ~ pm.asleep /\ loop.slot = NoSlot
  /\ my_fifo_get(rx) # NoSlot
  /\ loop' = [slot |-> my_fifo_get(rx), cmd |-> rxSlot[my_fifo_get(rx)]]
  /\ UNCHANGED <<rx, rxSlot, tx, txSlot, uart, pm, pin, sent, handled, queued, out>>

\* A mistake: the command stays in the ring.
PopNothing(f) == f
Popped(f) == my_fifo_pop(f)

RxEnd ==
  /\ loop.slot # NoSlot
  /\ LET cmd == IF rxSlot[loop.slot] = loop.cmd THEN loop.cmd ELSE Torn
     IN handled' = Append(handled, cmd) /\ spp_send_data(cmd)
  /\ rx' = Popped(rx)
  /\ loop' = [slot |-> NoSlot, cmd |-> Nothing]
  /\ UNCHANGED <<rxSlot, uart, sent, out>>

TxReady == my_fifo_get(tx) # NoSlot /\ uart.isUartTxDone

tx_to_uart_cb ==
  /\ ~ pm.asleep /\ loop.slot = NoSlot /\ TxReady
  /\ uart' = [uart EXCEPT !.out = <<txSlot[my_fifo_get(tx)]>>, !.isUartTxDone = FALSE]
  /\ tx' = my_fifo_pop(tx)
  /\ UNCHANGED <<rx, rxSlot, txSlot, loop, pm, pin, sent, handled, queued, out>>

-----------------------------------------------------------------------------
(* Sleep.                                                                  *)

Pad == pin.mcu \/ pin.pull

UART_TX_BUSY == tx.rptr # tx.wptr \/ ~ uart.isUartTxDone
UART_RX_BUSY == rx.rptr # rx.wptr
module_uart_working == UART_TX_BUSY \/ UART_RX_BUSY
app_module_busy == Pad \/ module_uart_working

\* app_power_management; "late" is whether 500 us have passed since tick_wakeup.
app_power_management(late) ==
  /\ ~ pm.asleep /\ loop.slot = NoSlot
  /\ pm' = [pm EXCEPT !.data_flg = @ /\ module_uart_working,
                      !.suspend = @ \/ (~ app_module_busy /\ ~ pm.tick_wakeup),
                      !.tick_wakeup = @ /\ ~ late]
  /\ pin' = [pin EXCEPT !.wakeup_mcu = @ /\ (pm.data_flg => module_uart_working),
                        !.pull = @ /\ ~ (pm.tick_wakeup /\ late)]
  /\ UNCHANGED <<rx, rxSlot, tx, txSlot, uart, loop, sent, handled, queued, out>>

\* app_suspend_exit.
Awake(p) == [p EXCEPT !.suspend = FALSE, !.tick_wakeup = TRUE, !.asleep = FALSE]

\* The stack is about to sleep: app_suspend_enter has the last word.
Sleep ==
  /\ ~ pm.asleep /\ loop.slot = NoSlot /\ pm.suspend
  /\ IF app_module_busy
       THEN pm' = Awake(pm) /\ pin' = [pin EXCEPT !.pull = TRUE]
       ELSE pm' = [pm EXCEPT !.asleep = TRUE] /\ UNCHANGED pin
  /\ UNCHANGED <<rx, rxSlot, tx, txSlot, uart, loop, sent, handled, queued, out>>

\* From suspend by the pin or by the stack's timer: app_suspend_exit; from deep
\* sleep with retention: user_init_deepRetn.
WakeUp ==
  /\ pm.asleep
  /\ \/ pm' = Awake(pm) /\ pin' = [pin EXCEPT !.pull = TRUE]
     \/ pm' = [pm EXCEPT !.asleep = FALSE] /\ pin' = [pin EXCEPT !.pull = FALSE]
  /\ UNCHANGED <<rx, rxSlot, tx, txSlot, uart, loop, sent, handled, queued, out>>

Next ==
  \/ McuRaise \/ McuLower \/ CmdBegins \/ CmdEnds \/ TxDone
  \/ StackEvent \/ RxBegin \/ RxEnd \/ tx_to_uart_cb
  \/ \E late \in BOOLEAN : app_power_management(late)
  \/ Sleep \/ WakeUp

Spec == Init /\ [][Next]_vars

-----------------------------------------------------------------------------
(* Properties.                                                             *)

TypeOK ==
  /\ rx.wptr \in 0..(Wrap - 1) /\ rx.rptr \in 0..(Wrap - 1) /\ Filled(rx) <= RxNum
  /\ tx.wptr \in 0..(Wrap - 1) /\ tx.rptr \in 0..(Wrap - 1) /\ Filled(tx) <= TxNum
  /\ \A i \in DOMAIN rxSlot : rxSlot[i] \in {Torn, Nothing} \cup 1..MaxCmds
  /\ uart.in \in {Nothing} \cup 1..MaxCmds /\ uart.isUartTxDone \in BOOLEAN
  /\ pm \in [suspend : BOOLEAN, tick_wakeup : BOOLEAN, data_flg : BOOLEAN, asleep : BOOLEAN]
  /\ pin \in [mcu : BOOLEAN, pull : BOOLEAN, wakeup_mcu : BOOLEAN]

\* "Takes one received packet out of spp_rx_fifo, ... and pops it when it is handled"
\* (spp.c:248-249): commands are handled whole, once each and in order.
CmdsInOrder == handled = [i \in 1..Len(handled) |-> i]

\* Events go out whole, once each and in the order they were queued.
EventsInOrder == IsPrefix(out \o uart.out, queued)

\* The module sleeps only when no command is on its way, queued or being handled
\* and no event is queued or going out, and then the MCU is not kept awake.
SleepsIdle ==
  pm.asleep => /\ uart.in = Nothing /\ Len(handled) = sent
               /\ out = queued

\* While an event waits or goes out the MCU is told to be awake.
McuAwake == out # queued => pin.wakeup_mcu
=============================================================================
