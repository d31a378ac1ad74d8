------------------------------- MODULE SoftUart -------------------------------
(***************************************************************************)
(* The software UART (drivers/B85/driver_ext/software_uart.c, the same in   *)
(* B87): an edge interrupt finds the start bit, timer 0 then samples the    *)
(* line once a bit time, and three bit times without a byte end a packet.   *)
(* The application of feature_soft_uart takes packets through a ring of     *)
(* buffers.  Time passes in units of 1 / Q bit; an interrupt is handled at  *)
(* most Latency units after it is raised.                                   *)
(***************************************************************************)
EXTENDS Integers, Sequences, SequencesExt, FiniteSets

CONSTANTS
  Bits,         \* data bits of a byte (8)
  Q,            \* units of time of a bit
  Latency,      \* units an interrupt may wait
  DataSize,     \* data_size: bytes of a receive buffer
  Num,          \* buffers of the ring
  MaxBytes,     \* bytes sent, to bound the runs
  Prompt,       \* the main loop takes a packet before the ring is full
  Pauses        \* the receiver is switched off and on while the line is idle

SoftUartAssumption ==
  /\ Bits \in Nat \ {0} /\ Q \in Nat \ {0} /\ Latency \in Nat /\ DataSize \in Nat \ {0}
  /\ Num \in Nat \ {0} /\ MaxBytes \in Nat /\ Prompt \in BOOLEAN /\ Pauses \in BOOLEAN

VARIABLES
  wire, left,    \* levels the sender still puts on the line, and units of the first
  rx,            \* soft_uart_rece, without data
  gpio, timer,   \* GPIO interrupt: enabled, age; timer 0: units left, age
  slots, w, r,   \* uart_rx_fifo: buffers, wptr, rptr
  sent, taken    \* bytes sent, bytes the application took

vars == <<wire, left, rx, gpio, timer, slots, w, r, sent, taken>>

Byte == [1..Bits -> {0, 1}]
UART_RECE_DONE_NUM == 3
NoIrq == -1
Off == -1
Clear == [i \in 1..Bits |-> 0]

Init ==
  /\ wire = <<>> /\ left = 0
  /\ rx = [state |-> {"WAIT"}, bit_num |-> 0, temp_byte |-> Clear, done_count |-> 0,
           data_count |-> 0]
  /\ gpio = [en |-> TRUE, age |-> NoIrq] /\ timer = [left |-> Off, age |-> NoIrq]
  /\ slots = [i \in 0..(Num - 1) |-> [len |-> 0, data |-> <<>>]]
  /\ w = 0 /\ r = 0 /\ sent = <<>> /\ taken = <<>>

Level == IF wire = <<>> THEN 1 ELSE Head(wire)
Index(i) == i % Num

-----------------------------------------------------------------------------
(* The line and the time.                                                  *)

\* soft_uart_putchar of the other side: start bit, lowest bit first, stop bit.
Putchar(b) == <<0>> \o [i \in 1..Bits |-> b[i]] \o <<1>>

FallingEdge(from, to) == from = 1 /\ to = 0 /\ gpio.en

Send(b) ==
  /\ wire = <<>> /\ Len(sent) < MaxBytes /\ "DIS" \notin rx.state
  /\ wire' = Putchar(b) /\ left' = Q
  /\ sent' = Append(sent, b)
  /\ gpio' = IF gpio.en /\ gpio.age = NoIrq THEN [gpio EXCEPT !.age = 0] ELSE gpio
  /\ UNCHANGED <<rx, timer, slots, w, r, taken>>

Aged(age) == IF age = NoIrq THEN NoIrq ELSE age + 1

Tick ==
  /\ gpio.age < Latency /\ timer.age < Latency
  /\ wire' = IF left = 1 THEN Tail(wire) ELSE wire
  /\ left' = IF left > 1 THEN left - 1 ELSE IF Len(wire) > 1 THEN Q ELSE 0
  /\ gpio' = LET age == Aged(gpio.age)
                 to == IF wire' = <<>> THEN 1 ELSE Head(wire')
             IN [gpio EXCEPT !.age = IF FallingEdge(Level, to) /\ age = NoIrq THEN 0 ELSE age]
  /\ timer' = LET age == Aged(timer.age)
              IN IF timer.left = Off THEN [timer EXCEPT !.age = age]
                 ELSE IF timer.left = 1 THEN [left |-> Q, age |-> IF age = NoIrq THEN 0 ELSE age]
                 ELSE [left |-> timer.left - 1, age |-> age]
  /\ UNCHANGED <<rx, slots, w, r, sent, taken>>

-----------------------------------------------------------------------------
(* soft_uart_irq_handler: the GPIO interrupt, then the timer's.             *)

\* A mistake: the edges of the data bits still interrupt, and start bytes.
StartBitOpen(c) ==
  [c EXCEPT !.rx.state = @ \cup {"WORK"}, !.rx.bit_num = 0, !.rx.temp_byte = Clear,
            !.rx.done_count = 0, !.timer = [left |-> Q, age |-> NoIrq]]

StartBit(c) ==
  [c EXCEPT !.rx.state = (@ \ {"DONE_CHECK", "WAIT"}) \cup {"WORK"},
            !.rx.bit_num = 0, !.rx.temp_byte = Clear, !.rx.done_count = 0,
            !.gpio.en = FALSE, !.timer = [left |-> Q, age |-> NoIrq]]

GpioIrq(c) ==
  IF c.gpio.age = NoIrq THEN c
  ELSE LET d == [c EXCEPT !.gpio.age = NoIrq]
       IN IF Level = 0 /\ "WAIT" \in c.rx.state THEN StartBit(d) ELSE d

DataBit(c) ==
  LET last == c.rx.bit_num + 1 = Bits
  IN [c EXCEPT !.rx.temp_byte[c.rx.bit_num + 1] = Level,
               !.rx.bit_num = IF last THEN 0 ELSE @ + 1,
               !.rx.state = IF last THEN (@ \ {"WORK"}) \cup {"STOP_CHECK"} ELSE @]

\* app_soft_rx_uart_cb: the next buffer of the ring, with soft_uart_RxSetFifo; a
\* full ring leaves the buffer in use as it is.
RxHandler(c) ==
  LET d == [c EXCEPT !.slots[Index(c.w)].len = c.rx.data_count]
  IN IF c.w - c.r < Num THEN [d EXCEPT !.w = @ + 1, !.rx.data_count = 0] ELSE d

\* A byte is kept at data[data_count + 4]; the slots of "data" beyond DataSize
\* are memory that is not the buffer's.
Keep(c) ==
  LET k == c.rx.data_count
      d == [c EXCEPT !.slots[Index(c.w)].data = IF k < Len(@) THEN ReplaceAt(@, k + 1, c.rx.temp_byte)
                                                   ELSE Append(@, c.rx.temp_byte),
                     !.rx.temp_byte = Clear, !.rx.data_count = @ + 1]
  IN IF k + 1 >= DataSize THEN RxHandler(d) ELSE d

StopBit(c) ==
  LET d == IF Level = 1 THEN Keep(c) ELSE c
  IN [d EXCEPT !.rx.state = (@ \ {"STOP_CHECK"}) \cup {"DONE_CHECK", "WAIT"},
               !.gpio = [en |-> TRUE, age |-> NoIrq]]

DoneCheck(c) ==
  IF c.rx.done_count + 1 < UART_RECE_DONE_NUM THEN [c EXCEPT !.rx.done_count = @ + 1]
  ELSE LET d == [c EXCEPT !.rx.done_count = @ + 1, !.timer = [left |-> Off, age |-> NoIrq],
                          !.rx.state = @ \ {"DONE_CHECK"}]
       IN IF c.rx.data_count > 0 THEN RxHandler(d) ELSE d

TimerIrq(c) ==
  IF c.timer.age = NoIrq THEN c
  ELSE LET d == [c EXCEPT !.timer.age = NoIrq]
       IN CASE "WORK" \in c.rx.state -> DataBit(d)
            [] "STOP_CHECK" \in c.rx.state -> StopBit(d)
            [] "DONE_CHECK" \in c.rx.state -> DoneCheck(d)
            [] OTHER -> d

Irq ==
  /\ gpio.age # NoIrq \/ timer.age # NoIrq
  /\ "DIS" \notin rx.state
  /\ \E c \in {TimerIrq(GpioIrq([rx |-> rx, gpio |-> gpio, timer |-> timer,
                                 slots |-> slots, w |-> w, r |-> r]))} :
       /\ rx' = c.rx /\ gpio' = c.gpio /\ timer' = c.timer /\ slots' = c.slots /\ w' = c.w
  /\ UNCHANGED <<wire, left, r, sent, taken>>

-----------------------------------------------------------------------------
(* The application.                                                        *)

\* The main loop takes the oldest packet: p[0] bytes from p + 4.
Take ==
  /\ w # r
  /\ taken' = taken \o SubSeq(slots[Index(r)].data, 1, slots[Index(r)].len)
  /\ r' = r + 1
  /\ UNCHANGED <<wire, left, rx, gpio, timer, slots, w, sent>>

soft_uart_dis ==
  /\ Pauses /\ wire = <<>> /\ "DIS" \notin rx.state
  /\ rx' = [rx EXCEPT !.state = {"DIS"}, !.bit_num = 0, !.temp_byte = Clear, !.done_count = 0]
  /\ gpio' = [en |-> FALSE, age |-> NoIrq] /\ timer' = [left |-> Off, age |-> NoIrq]
  /\ UNCHANGED <<wire, left, slots, w, r, sent, taken>>

soft_uart_en ==
  /\ "DIS" \in rx.state
  /\ rx' = [rx EXCEPT !.state = {"WAIT"}, !.bit_num = 0, !.temp_byte = Clear, !.done_count = 0]
  /\ gpio' = [en |-> TRUE, age |-> NoIrq] /\ timer' = [timer EXCEPT !.age = NoIrq]
  /\ UNCHANGED <<wire, left, slots, w, r, sent, taken>>

Next ==
  \/ \E b \in Byte : Send(b)
  \/ Tick /\ (Prompt => w - r < Num)
  \/ Irq \/ Take
  \/ soft_uart_dis \/ soft_uart_en

Spec == Init /\ [][Next]_vars

TypeOK ==
  /\ wire \in Seq({0, 1}) /\ left \in 0..Q
  /\ rx.state \subseteq {"WAIT", "WORK", "STOP_CHECK", "DONE_CHECK", "DIS"}
  /\ rx.bit_num \in 0..(Bits - 1) /\ rx.temp_byte \in Byte
  /\ rx.done_count \in 0..UART_RECE_DONE_NUM /\ rx.data_count \in 0..MaxBytes
  /\ gpio \in [en : BOOLEAN, age : NoIrq..Latency]
  /\ timer \in [left : {Off} \cup 1..Q, age : NoIrq..Latency]
  /\ w \in Nat /\ r \in 0..w /\ w - r <= Num

-----------------------------------------------------------------------------
(* Properties.                                                             *)

\* The bytes of the buffers not yet taken and of the one being filled.
Held ==
  FlattenSeq([i \in 1..(w - r) |-> LET s == slots[Index(r + i - 1)] IN SubSeq(s.data, 1, s.len)])
    \o SubSeq(slots[Index(w)].data, 1, rx.data_count)

\* Every byte is received as it was sent, once and in order, and one whose stop
\* bit is over is there: bytes that follow each other at once, bytes that come
\* while the end of a packet is counted, and interrupts up to half a bit late.
BytesAsSent ==
  /\ IsPrefix(taken \o Held, sent)
  /\ wire = <<>> /\ timer.age = NoIrq /\ rx.state \cap {"WORK", "STOP_CHECK"} = {}
       /\ gpio.age = NoIrq => taken \o Held = sent

\* Bytes are written to the receiving buffer only (software_uart.c:201: "pRxbuf -
\* pointer to the receiving buffer", 202: "size - length in byte" of it).
WritesInBuffer == \A i \in DOMAIN slots : Len(slots[i].data) <= DataSize
=============================================================================
