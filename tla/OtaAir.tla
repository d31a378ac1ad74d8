------------------------------- MODULE OtaAir -------------------------------
(***************************************************************************)
(* What the two ends of a 2.4G firmware update share: the frames they      *)
(* exchange, the message queue between the radio interrupt and the main    *)
(* loop, and the half-duplex radio (vendor/2p4g_feature/ota: ota.c, mac.c, *)
(* app.c).                                                                 *)
(*                                                                         *)
(* The radio does one operation at a time.  MAC_SendData transmits a frame *)
(* and then listens; MAC_RecvData listens.  An operation ends with exactly *)
(* one interrupt, a reception (good or with a bad CRC) or a timeout, which *)
(* pushes one message.                                                     *)
(***************************************************************************)
EXTENDS Integers, Sequences

CONSTANTS
  Image,       \* firmware images the master's flash may hold
  Version,     \* [Image -> Nat] version compiled into each image
  BinSize,     \* [Image -> Nat] bytes of an image, its 2-byte CRC included
  NoImage,     \* stands for "not a data frame" in a frame's img field
  OTA_RETRY_MAX   \* 10 in the code

BlockSize == 48               \* OTA_FRAME_PAYLOAD_MAX - 2
MSG_QUEUE_LEN == 4

ASSUME ImageAssumption ==
  /\ NoImage \notin Image
  /\ Version \in [Image -> 0..255]
  /\ BinSize \in [Image -> Nat]
  /\ \A img \in Image : BinSize[img] > BlockSize

ASSUME RetryAssumption == OTA_RETRY_MAX \in Nat

(***************************************************************************)
(* Images are cut into blocks of 48 bytes; only the last may be shorter.   *)
(***************************************************************************)
NumBlocks(img) == (BinSize[img] + BlockSize - 1) \div BlockSize

BlockLen(img, blk) ==
  LET left == BinSize[img] - (blk - 1) * BlockSize
  IN  IF left > BlockSize THEN BlockSize ELSE left

Block(img, blk) == <<img, blk, BlockLen(img, blk)>>

(***************************************************************************)
(* A frame: its type and command id (kind), block number, the number that  *)
(* payload bytes 1.. hold (arg), for data the image its bytes come from,   *)
(* and the length byte, which decides how much of it the peer gets.        *)
(***************************************************************************)
Kind == {"VERSION_REQ", "VERSION_RSP", "START_REQ", "START_RSP",
         "DATA", "ACK", "END_REQ", "END_RSP"}

Frame ==
  {f \in [kind: Kind, blk: Nat, arg: Nat, img: Image \cup {NoImage}, len: Int] :
     f.kind = "DATA" => f.img \in Image}

NoFrame == [kind |-> "VERSION_REQ", blk |-> 0, arg |-> 0, img |-> NoImage,
            len |-> 0]

\* A command with a value of n bytes; one without leaves the old payload
\* bytes of the frame it is built in.
CmdFrame(kind, value, n) ==
  [kind |-> kind, blk |-> 0, arg |-> value, img |-> NoImage, len |-> n + 2]
BareCmdFrame(old, kind) ==
  [kind |-> kind, blk |-> 0, arg |-> old.arg, img |-> NoImage, len |-> 2]
AckFrame(blk) ==
  [kind |-> "ACK", blk |-> blk, arg |-> 0, img |-> NoImage, len |-> 3]
DataFrame(img, blk) ==
  [kind |-> "DATA", blk |-> blk, arg |-> 0, img |-> img,
   len |-> BlockLen(img, blk) + 3]

\* What payload bytes 1.. of RxFrame read as after f was copied over it: f's
\* own value if f.len reaches over it, else what an earlier frame left there.
\* (Block numbers stay below 256 where this is read: their high byte is 0.)
ValueEnd(kind) == IF kind = "END_REQ" THEN 6 ELSE 4
RxArg(old, f) ==
  IF f.kind \in {"DATA", "ACK"} THEN 0
  ELSE IF f.len >= ValueEnd(f.kind) THEN f.arg ELSE old

-----------------------------------------------------------------------------
Node == {"master", "slave"}
Peer(n) == IF n = "master" THEN "slave" ELSE "master"

Msg == [type: {"INVALID_DATA", "TIMEOUT"}] \cup [type: {"DATA"}, frame: Frame]

VARIABLES
  queue,       \* [Node -> Seq(Msg)]  MsgQueue of each device
  radio        \* [Node -> {"idle", "rx"}]  an operation pending or none

air == <<queue, radio>>

AirTypeOK ==
  /\ queue \in [Node -> Seq(Msg)]
  /\ \A n \in Node : Len(queue[n]) <= MSG_QUEUE_LEN
  /\ radio \in [Node -> {"idle", "rx"}]

AirInit ==
  /\ queue = [n \in Node |-> <<>>]
  /\ radio = [n \in Node |-> "idle"]

\* OTA_MsgQueuePush drops the message when the queue is full.
Push(q, msg) == IF Len(q) < MSG_QUEUE_LEN THEN Append(q, msg) ELSE q

\* A device gives up when this is false: RetryTimes == OTA_RETRY_MAX.
BadRetriesLeft(times) == times <= OTA_RETRY_MAX
RetriesLeft(times) == times < OTA_RETRY_MAX

\* Each pass of OTA_MasterStart and OTA_SlaveStart begins with a pop.
Popped(n) ==
  [queue EXCEPT ![n] = IF queue[n] = <<>> THEN <<>> ELSE Tail(queue[n])]

\* A received frame is first in the queue; this one.
HasFrame(n) == queue[n] # <<>> /\ Head(queue[n]).type = "DATA"
Got(n) == Head(queue[n]).frame

Quiet(q) == queue' = q /\ UNCHANGED radio

\* MAC_RecvData
Listen(n, q) == queue' = q /\ radio' = [radio EXCEPT ![n] = "rx"]

\* A radio that went on listening after a reception.
StreamingTransmit(n, q, f) ==
  \/ /\ queue' = q
     /\ radio' = [radio EXCEPT ![n] = "rx"]
  \/ /\ radio[Peer(n)] = "rx"
     /\ queue' = [q EXCEPT ![Peer(n)] =
                    Push(q[Peer(n)], [type |-> "DATA", frame |-> f])]
     /\ radio' = [radio EXCEPT ![n] = "rx"]

\* MAC_SendData and what becomes of the frame: it is missed (the only outcome
\* when the peer does not listen), or received damaged, or received.
Transmit(n, q, f) ==
  \/ /\ queue' = q
     /\ radio' = [radio EXCEPT ![n] = "rx"]
  \/ /\ radio[Peer(n)] = "rx"
     /\ \E msg \in {[type |-> "INVALID_DATA"], [type |-> "DATA", frame |-> f]} :
          queue' = [q EXCEPT ![Peer(n)] = Push(q[Peer(n)], msg)]
     /\ radio' = [radio EXCEPT ![n] = "rx", ![Peer(n)] = "idle"]

\* Nothing came in time: the timeout interrupt, OTA_RxTimeoutIrq.
RxTimeOut(n) ==
  /\ radio[n] = "rx"
  /\ queue' = [queue EXCEPT ![n] = Push(queue[n], [type |-> "TIMEOUT"])]
  /\ radio' = [radio EXCEPT ![n] = "idle"]

\* A reset clears the queue and stops the radio of the device.
ResetAir(n) ==
  /\ queue' = [queue EXCEPT ![n] = <<>>]
  /\ radio' = [radio EXCEPT ![n] = "idle"]
=============================================================================
