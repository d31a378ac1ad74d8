------------------------------- MODULE UsbCdc -------------------------------
(***************************************************************************)
(* The USB serial port (application/app/usbcdc.c, usb_cdc_irq_data_process  *)
(* of application/usbstd/usb.c) in the program that echoes what the host     *)
(* sends (vendor/ble_feature_test/feature_usb_cdc).  The main loop reads the *)
(* interrupt flags of both endpoints once in a turn.  A full packet is       *)
(* followed by an empty one after 64 microseconds.  The endpoints and the    *)
(* host are external.                                                       *)
(***************************************************************************)
EXTENDS Integers, Sequences, SequencesExt

CONSTANTS
  MaxPackets,  \* packets of the host, to bound the runs
  Waits        \* the host sends a packet when it has the echo of the last

UsbCdcAssumption == MaxPackets \in Nat /\ Waits \in BOOLEAN

VARIABLES
  in,      \* the IN endpoint: [busy, pkt]; an empty packet when the pointer is 0
  out,     \* the OUT endpoint: the packet received and not read yet, or NoPacket
  ready,   \* the OUT endpoint is acknowledged: the host may send
  irq,     \* interrupt flags of the endpoints
  pc,      \* where the main loop is
  flags,   \* irq of usb_cdc_irq_data_process
  data,    \* usb_cdc_data with its length, NoPacket for the length 0
  sent, got,   \* what the host has sent and received
  late         \* the host had not taken a full packet when the empty one was written

vars == <<in, out, ready, irq, pc, flags, data, sent, got, late>>

Size == {"short", "full"}
Packet == [n : 1 .. MaxPackets, size : Size]
Empty == [n |-> 0, size |-> "empty"]
NoPacket == [n |-> 0, size |-> "none"]

\* What the host should get.
Echo(p) == CASE p.size = "short" -> <<p>> [] p.size = "full" -> <<p, Empty>> [] OTHER -> <<>>
Echoes(s) == FlattenSeq([i \in DOMAIN s |-> Echo(s[i])])

\* usbhw_get_eps_irq.
ReadIrq ==
  /\ pc = "irq"
  /\ flags' = irq
  /\ pc' = "in"
  /\ UNCHANGED <<in, out, ready, irq, data, sent, got, late>>

\* A packet has gone: the pointer is set to 0.
InDone ==
  /\ pc = "in"
  /\ IF "in" \in flags
     THEN irq' = irq \ {"in"} /\ in' = [in EXCEPT !.pkt = Empty]
     ELSE UNCHANGED <<irq, in>>
  /\ pc' = "out"
  /\ UNCHANGED <<out, ready, flags, data, sent, got, late>>

\* usb_cdc_rx_data_from_host.
usb_cdc_rx_data_from_host == data' = IF out.size \in Size THEN out ELSE data

OutDone ==
  /\ pc = "out"
  /\ IF "out" \in flags
     THEN /\ irq' = irq \ {"out"}
          /\ usb_cdc_rx_data_from_host
          /\ out' = NoPacket /\ ready' = TRUE
     ELSE UNCHANGED <<irq, data, out, ready>>
  /\ pc' = "main"
  /\ UNCHANGED <<in, flags, sent, got, late>>

\* A mistake: the length is not cleared when the endpoint is busy or the
\* packet is full.
TxTwice ==
  IF data = NoPacket \/ in.busy
  THEN pc' = "irq" /\ UNCHANGED <<in, data>>
  ELSE /\ in' = [busy |-> TRUE, pkt |-> data]
       /\ pc' = IF data.size = "full" THEN "zlp" ELSE "irq"
       /\ data' = IF data.size = "full" THEN data ELSE NoPacket

\* usb_cdc_tx_data_to_host up to its delay, and the length cleared after it.
usb_cdc_tx_data_to_host ==
  /\ IF data = NoPacket \/ in.busy
     THEN pc' = "irq" /\ UNCHANGED in
     ELSE /\ in' = [busy |-> TRUE, pkt |-> data]
          /\ pc' = IF data.size = "full" THEN "zlp" ELSE "irq"
  /\ data' = NoPacket

Transmit ==
  /\ pc = "main"
  /\ usb_cdc_tx_data_to_host
  /\ UNCHANGED <<out, ready, irq, flags, sent, got, late>>

\* Its end, 64 microseconds later, whether or not the host has taken the full packet.
TransmitEmpty ==
  /\ pc = "zlp"
  /\ in' = [busy |-> TRUE, pkt |-> Empty]
  /\ late' = (late \/ in.busy)
  /\ pc' = "irq"
  /\ UNCHANGED <<out, ready, irq, flags, data, sent, got>>

\* The host polls the IN endpoint.
HostReads ==
  /\ in.busy
  /\ got' = Append(got, in.pkt)
  /\ in' = [in EXCEPT !.busy = FALSE]
  /\ irq' = irq \cup {"in"}
  /\ UNCHANGED <<out, ready, pc, flags, data, sent, late>>

\* The host sends a packet, an empty one among them.
HostSends ==
  /\ ready
  /\ Len(sent) < MaxPackets
  /\ Waits => got = Echoes(sent)
  /\ \E size \in Size \cup {"empty"} :
       /\ out' = [n |-> IF size = "empty" THEN 0 ELSE Len(sent) + 1, size |-> size]
       /\ sent' = Append(sent, out')
  /\ ready' = FALSE
  /\ irq' = irq \cup {"out"}
  /\ UNCHANGED <<in, pc, flags, data, got, late>>

Init ==
  /\ in = [busy |-> FALSE, pkt |-> Empty]
  /\ out = NoPacket /\ ready = TRUE
  /\ irq = {} /\ pc = "irq" /\ flags = {}
  /\ data = NoPacket
  /\ sent = <<>> /\ got = <<>> /\ late = FALSE

MainLoop == ReadIrq \/ InDone \/ OutDone \/ Transmit \/ TransmitEmpty

Next == MainLoop \/ HostReads \/ HostSends

Spec == Init /\ [][Next]_vars

(***************************************************************************)
(* Properties.                                                             *)
(***************************************************************************)
TypeOK ==
  /\ in \in [busy : BOOLEAN, pkt : Packet \cup {Empty}]
  /\ out \in Packet \cup {Empty, NoPacket} /\ ready \in BOOLEAN
  /\ irq \subseteq {"in", "out"} /\ flags \subseteq {"in", "out"}
  /\ pc \in {"irq", "in", "out", "main", "zlp"}
  /\ data \in Packet \cup {NoPacket} /\ late \in BOOLEAN
  /\ sent \in Seq(Packet \cup {Empty}) /\ got \in Seq(Packet \cup {Empty})

\* What a host that waits for each echo gets is what it sent, in order, each full packet with
\* an empty one behind it: nothing is lost, repeated or cut (usbcdc.c:45-72).  If it has not
\* taken a full packet within the 64 microseconds, the empty one takes the place of that packet
\* (usbcdc.c:69), and that packet alone is lost.
EchoRight == IsPrefix(got, IF late THEN Append(Echoes(Front(sent)), Empty) ELSE Echoes(sent))
=============================================================================
