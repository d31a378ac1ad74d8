---------------------------- MODULE FwUpdateProofs ----------------------------
(***************************************************************************)
(* Proofs about the firmware update over UART, for any number of blocks,   *)
(* retries, faults, starts of the slave and timer slots.                   *)
(***************************************************************************)
EXTENDS FwUpdate, FiniteSetTheorems, TLAPS

MasterStates == MasterWaits \cup {"OFF", "IDLE", "END", "ERROR"}
SlaveStates == SlaveListens \cup {"OFF", "ERASE", "IDLE", "END", "SET_FLAG", "CLEAR_FLAG", "ERROR"}

\* What is ever sent: a version is 0 or 1.
Sent == {f \in Frames : f.cmd = "VERSION_RSP" => f.num \in {0, 1}}

BankType == [boot : BOOLEAN, data : Seq(Image \X (1 .. NumBlocks))]

MasterType == m \in [State : MasterStates, BlockNum : 0 .. NumBlocks,
                     RetryTimes : 0 .. Retries, tx : Sent]
SlaveType == s \in [State : SlaveStates, BlockNum : 0 .. NumBlocks,
                    RetryTimes : 0 .. Retries, tx : Sent, bank : Bank]
QueueType ==
  /\ q \in [Node -> Seq(Msgs)] /\ \A n \in Node : Len(q[n]) <= QueueLen
  /\ buf \in [Node -> [Buffers -> Sent]]
  /\ rp \in [Node -> Buffers]
TimerType == timer \in [Node -> [valid : SUBSET (1 .. Slots), ptr : 0 .. Slots]]
FlashType == flash \in [Bank -> BankType]

\* The master counts its blocks from the start of the transfer.
CountInv == m.State \in {"IDLE", "FW_VER_WAIT", "START_RSP_WAIT"} => m.BlockNum = 0

\* The states of a slave that has erased its bank and not written its flag.
Filling == SlaveListens \cup {"IDLE", "END", "SET_FLAG", "ERROR"}

\* Where the boot flags are in each state of the slave: the bank it fills is not
\* the one the device boots, until the new flag is set.
BootInv ==
  /\ NeverBricked
  /\ s.State \in Filling \cup {"ERASE"} => s.bank # BootBank
  /\ s.State \in Filling => ~flash[s.bank].boot
  /\ s.State \in {"SET_FLAG", "CLEAR_FLAG"} => flash[s.bank].data = Whole("new")
  /\ s.State = "CLEAR_FLAG" => flash[s.bank].boot

\* What the slave has written: nothing before the transfer, then the blocks counted.
WrittenInv ==
  /\ s.State \in {"IDLE", "FW_VERSION_READY", "START_READY"} => s.BlockNum = 0
  /\ s.State \in Filling => /\ Len(flash[s.bank].data) = s.BlockNum
                            /\ \A i \in 1 .. s.BlockNum : flash[s.bank].data[i] = <<"new", i>>
  /\ s.State = "ERASE" => s.BlockNum = 0

\* No bank holds more than an image.
LengthInv == \A b \in Bank : Len(flash[b].data) <= NumBlocks

IInv ==
  /\ MasterType /\ SlaveType /\ QueueType /\ TimerType /\ FlashType
  /\ OneTimer /\ CountInv /\ BootInv /\ WrittenInv /\ LengthInv

-----------------------------------------------------------------------------
(***************************************************************************)
(* Queues, buffers and timers.                                             *)
(***************************************************************************)
\* The buffers are taken in turn.
LEMMA NextBufferType == \A i \in Buffers : NextBuffer(i) \in Buffers
<1>1. Cardinality(0 .. 2) = 3
  <2>1. 0 \in Int /\ 2 \in Int
    OBVIOUS
  <2>2. Cardinality(0 .. 2) = IF 0 > 2 THEN 0 ELSE 2 - 0 + 1
    BY <2>1, FS_Interval
  <2> QED
    BY <2>2
<1>2. Cardinality(Buffers) = 3
  BY <1>1 DEF Buffers
<1>3. \A i \in 0 .. 2 : (i + 1) % 3 \in 0 .. 2
  OBVIOUS
<1> QED
  BY <1>2, <1>3 DEF NextBuffer, Buffers

\* A push, and a pop, of a message.
LEMMA PushType ==
  ASSUME NEW queue \in Seq(Msgs), Len(queue) <= QueueLen, NEW msg \in Msgs
  PROVE  Push(queue, msg) \in Seq(Msgs) /\ Len(Push(queue, msg)) <= QueueLen
BY DEF Push, QueueLen

\* A push that meets the other one, or a pop.
LEMMA MeetType ==
  ASSUME FwUpdateAssumption, NEW queue \in Seq(Msgs), Len(queue) <= QueueLen, NEW msg \in Msgs,
         NEW new \in PushedByIrq(queue, msg) \cup PushedByTimer(queue)
  PROVE  new \in Seq(Msgs) /\ Len(new) <= QueueLen
<1>1. Leftover \subseteq Msgs
  BY DEF Leftover, FwUpdateAssumption, None, Frames, TimedOut, Damaged, Msgs, Buffers
<1>2. TimedOut \in Msgs
  BY <1>1 DEF Leftover
<1>3. \A x \in Msgs : Push(queue, x) \in Seq(Msgs) /\ Len(Push(queue, x)) <= QueueLen
  BY PushType
<1>4. ASSUME queue # <<>>
      PROVE  /\ Append(Front(queue), TimedOut) \in Seq(Msgs)
             /\ Len(Append(Front(queue), TimedOut)) <= QueueLen
  <2>1. PICK n \in Nat : n = Len(queue) - 1
    BY <1>4
  <2>2. Front(queue) = [i \in 1 .. n |-> queue[i]]
    BY <2>1 DEF Front
  <2>3. Front(queue) \in Seq(Msgs) /\ Len(Front(queue)) = n
    BY <2>1, <2>2
  <2> QED
    BY <1>2, <2>1, <2>3
<1>5. CASE new = Push(queue, msg) \/ new = Push(queue, TimedOut)
  BY <1>2, <1>3, <1>5
<1>6. CASE new = queue
  BY <1>6
<1>7. CASE \E old \in Leftover : new = Push(queue, old)
  BY <1>1, <1>3, <1>7
<1>8. CASE queue # <<>> /\ new = Append(Front(queue), TimedOut)
  BY <1>4, <1>8
<1> QED
  BY <1>5, <1>6, <1>7, <1>8 DEF PushedByIrq, PushedByTimer

LEMMA PoppedType ==
  ASSUME QueueType, NEW n \in Node
  PROVE  /\ Popped(n) \in [Node -> Seq(Msgs)]
         /\ \A k \in Node : Len(Popped(n)[k]) <= QueueLen
<1>1. q[n] \in Seq(Msgs) /\ Len(q[n]) <= QueueLen
  BY DEF QueueType
<1>2. CASE q[n] = <<>>
  <2>1. Popped(n) = [q EXCEPT ![n] = q[n]]
    BY <1>2 DEF Popped
  <2> QED
    BY <2>1 DEF QueueType
<1>3. CASE q[n] # <<>>
  <2>1. Tail(q[n]) \in Seq(Msgs) /\ Len(Tail(q[n])) <= QueueLen
    <3>1. Len(q[n]) \in Nat /\ Tail(q[n]) \in Seq(Msgs) /\ Len(Tail(q[n])) = Len(q[n]) - 1
      BY <1>1, <1>3
    <3> QED
      BY <1>1, <3>1 DEF QueueLen
  <2>2. Popped(n) = [q EXCEPT ![n] = Tail(q[n])]
    BY <1>3 DEF Popped
  <2> QED
    BY <2>1, <2>2 DEF QueueType
<1> QED
  BY <1>2, <1>3

\* Frames and messages of the code.
LEMMA FrameTypes ==
  ASSUME FwUpdateAssumption
  PROVE  /\ None \in Sent /\ TimedOut \in Msgs /\ Damaged \in Msgs
         /\ \A cmd, num : cmd \in {"VERSION_REQ", "START_REQ", "START_RSP", "DATA", "ACK", "END_REQ", "END_RSP"}
                          /\ num \in 0 .. NumBlocks => Frame(cmd, num) \in Sent
         /\ \A num \in {0, 1} : Frame("VERSION_RSP", num) \in Sent
         /\ \A f \in Sent, b \in Buffers : [type |-> "DATA", buf |-> b, sent |-> f] \in Msgs
BY DEF FwUpdateAssumption, None, Sent, Frames, Frame, TimedOut, Damaged, Msgs, Buffers

\* PHY_SendData and the interrupt of the receiver.
LEMMA SendType ==
  ASSUME FwUpdateAssumption, QueueType, NEW n \in Node, NEW f \in Sent,
         PHY_SendData(Popped(n), n, f)
  PROVE  QueueType'
<1> DEFINE k == Peer(n)
           queues == Popped(n)
<1>1. /\ queues \in [Node -> Seq(Msgs)] /\ \A i \in Node : Len(queues[i]) <= QueueLen
      /\ k \in Node
  BY PoppedType DEF Peer, Node
<1> HIDE DEF k, queues
<1>2. CASE q' = queues /\ UNCHANGED <<buf, rp>>
  BY <1>1, <1>2 DEF QueueType
<1>3. ASSUME NEW ok \in BOOLEAN, RxIrq(queues, k, f, ok)
      PROVE  QueueType'
  <2>1. rp[k] \in Buffers /\ NextBuffer(rp[k]) \in Buffers
    BY <1>1, NextBufferType DEF QueueType
  <2>2. PICK msg \in Msgs : \E queue \in PushedByIrq(queues[k], msg) : q' = [queues EXCEPT ![k] = queue]
    <3> DEFINE x == IF ok THEN [type |-> "DATA", buf |-> rp[k], sent |-> f] ELSE Damaged
    <3>1. x \in Msgs
      BY <2>1, FrameTypes
    <3>2. \E queue \in PushedByIrq(queues[k], x) : q' = [queues EXCEPT ![k] = queue]
      BY <1>3 DEF RxIrq
    <3> QED
      BY <3>1, <3>2
  <2>3. PICK queue \in PushedByIrq(queues[k], msg) : q' = [queues EXCEPT ![k] = queue]
    BY <2>2
  <2>7. queue \in Seq(Msgs) /\ Len(queue) <= QueueLen
    BY <1>1, <2>3, MeetType
  <2>4. q' \in [Node -> Seq(Msgs)] /\ \A i \in Node : Len(q'[i]) <= QueueLen
    BY <1>1, <2>3, <2>7
  <2>5. buf' \in [Node -> [Buffers -> Sent]]
    <3>1. buf' = [buf EXCEPT ![k] = [buf[k] EXCEPT ![rp[k]] = f]]
      BY <1>3 DEF RxIrq
    <3>2. [buf[k] EXCEPT ![rp[k]] = f] \in [Buffers -> Sent]
      BY <1>1, <2>1 DEF QueueType
    <3> QED
      BY <1>1, <3>1, <3>2 DEF QueueType
  <2>6. rp' \in [Node -> Buffers]
    BY <1>1, <1>3, <2>1 DEF RxIrq, QueueType
  <2> QED
    BY <2>4, <2>5, <2>6 DEF QueueType
<1> QED
  BY <1>2, <1>3 DEF PHY_SendData, k, queues

\* A turn that sends nothing.
LEMMA QuietType ==
  ASSUME QueueType, NEW n \in Node, UNCHANGED <<buf, rp>>, q' = Popped(n)
  PROVE  QueueType'
BY PoppedType DEF QueueType

\* The frame a message leads to was sent.
LEMMA ReceivedType ==
  ASSUME FwUpdateAssumption, QueueType, NEW n \in Node, q[n] # <<>>
  PROVE  Received(n) \in Sent
<1>1. Head(q[n]) \in Msgs
  BY DEF QueueType
<1>2. Head(q[n]).buf \in Buffers
  BY <1>1 DEF Msgs
<1> QED
  BY <1>2, FrameTypes DEF Received, QueueType

\* With one timer at most, a slot is free, and a restart leaves one timer.
LEMMA TimerStep ==
  ASSUME FwUpdateAssumption, TimerType, OneTimer, NEW n \in Node,
         NEW what \in {"restart", "cancel", "keep"}, SetTimer(n, what)
  PROVE  TimerType' /\ OneTimer'
<1> DEFINE t == timer[n]
<1>1. t \in [valid : SUBSET (1 .. Slots), ptr : 0 .. Slots] /\ t.valid \subseteq {t.ptr}
  BY DEF TimerType, OneTimer
<1>2. Cancelled(t) = [valid |-> {}, ptr |-> NoSlot]
  BY <1>1 DEF Cancelled
<1>3. PICK i \in 1 .. Slots : Started(Cancelled(t)) = [valid |-> {i}, ptr |-> i]
  <2>1. FreeSlots(Cancelled(t)) = 1 .. Slots /\ 1 \in 1 .. Slots /\ 1 .. Slots # {}
    <3>1. FreeSlots(Cancelled(t)) = (1 .. Slots) \ {}
      BY <1>2 DEF FreeSlots
    <3>2. Slots \in Nat \ {0}
      BY DEF FwUpdateAssumption
    <3>3. 1 \in 1 .. Slots
      BY <3>2
    <3>4. \A S : S \ {} = S
      OBVIOUS
    <3> QED
      BY <3>1, <3>3, <3>4
  <2>2. \E x \in 1 .. Slots : \A y \in 1 .. Slots : x <= y
    BY <2>1
  <2> DEFINE i == CHOOSE x \in 1 .. Slots : \A y \in 1 .. Slots : x <= y
  <2>3. i \in 1 .. Slots
    BY <2>2
  <2>4. Started(Cancelled(t)) = [valid |-> {} \cup {i}, ptr |-> i]
    <3> DEFINE c == Cancelled(t)
    <3>1. FreeSlots(c) = 1 .. Slots /\ FreeSlots(c) # {}
      BY <2>1
    <3>2. c.valid = {} /\ Started(Cancelled(t)) = Started(c)
      BY <1>2
    <3> HIDE DEF c
    <3>3. Started(c) = [valid |-> c.valid \cup {i}, ptr |-> i]
      BY <3>1 DEF Started
    <3> QED
      BY <3>2, <3>3
  <2> HIDE DEF i
  <2> QED
    BY <2>3, <2>4
<1>4. PICK new \in [valid : SUBSET (1 .. Slots), ptr : 0 .. Slots] :
        new.valid \subseteq {new.ptr} /\ timer' = [timer EXCEPT ![n] = new]
  <2>1. CASE what = "restart"
    <3>1. timer' = [timer EXCEPT ![n] = Started(Cancelled(t))]
      BY <2>1 DEF SetTimer
    <3>2. [valid |-> {i}, ptr |-> i] \in [valid : SUBSET (1 .. Slots), ptr : 0 .. Slots]
      BY FwUpdateAssumption DEF FwUpdateAssumption
    <3> QED
      BY <1>3, <3>1, <3>2
  <2>2. CASE what = "cancel"
    <3>1. timer' = [timer EXCEPT ![n] = Cancelled(t)]
      BY <2>2 DEF SetTimer
    <3>2. [valid |-> {}, ptr |-> NoSlot] \in [valid : SUBSET (1 .. Slots), ptr : 0 .. Slots]
      BY FwUpdateAssumption DEF FwUpdateAssumption, NoSlot
    <3> QED
      BY <1>2, <3>1, <3>2
  <2>3. CASE what = "keep"
    <3>1. timer' = [timer EXCEPT ![n] = t]
      BY <2>3 DEF SetTimer
    <3> QED
      BY <1>1, <3>1
  <2> QED
    BY <2>1, <2>2, <2>3
<1> HIDE DEF t
<1> QED
  BY <1>4 DEF TimerType, OneTimer
-----------------------------------------------------------------------------
(***************************************************************************)
(* The master.                                                             *)
(***************************************************************************)
MasterRecord == [State : MasterStates, BlockNum : 0 .. NumBlocks,
                 RetryTimes : 0 .. Retries, tx : Sent]

\* An answer the master takes leads it on, within the blocks of the image.
LEMMA AcceptedType ==
  ASSUME FwUpdateAssumption, NEW c \in MasterRecord, c.State \in MasterWaits,
         c.State \in {"FW_VER_WAIT", "START_RSP_WAIT"} => c.BlockNum = 0,
         NEW f \in Sent, Matches(c, f)
  PROVE  /\ Accepted(c, f) \in MasterRecord
         /\ Accepted(c, f).State \in {"IDLE", "FW_VER_WAIT", "START_RSP_WAIT"} =>
              Accepted(c, f).BlockNum = 0
<1>1. NumBlocks \in Nat /\ 1 <= NumBlocks /\ 0 \in 0 .. Retries
  BY DEF FwUpdateAssumption
<1>2. /\ None \in Sent /\ Frame("START_REQ", NumBlocks) \in Sent
      /\ Frame("END_REQ", NumBlocks) \in Sent
      /\ \A num \in 0 .. NumBlocks : Frame("DATA", num) \in Sent
  BY <1>1, FrameTypes
<1>3. ASSUME c.BlockNum < NumBlocks
      PROVE  NextBlock(c) \in MasterRecord /\ NextBlock(c).State = "DATA_ACK_WAIT"
  <2>1. c.BlockNum + 1 \in 0 .. NumBlocks
    BY <1>1, <1>3 DEF MasterRecord
  <2> QED
    BY <1>2, <2>1 DEF NextBlock, MasterRecord, MasterStates, MasterWaits
<1>4. /\ Advanced(c, f) \in MasterRecord
      /\ Advanced(c, f).State \in {"IDLE", "FW_VER_WAIT", "START_RSP_WAIT"} =>
           Advanced(c, f).BlockNum = 0
  <2>1. CASE c.State = "FW_VER_WAIT"
    <3>1. f.num \in {0, 1}
      BY <2>1 DEF Matches, Answer, Sent
    <3> QED
      BY <1>2, <2>1, <3>1 DEF Advanced, MasterRecord, MasterStates, MasterWaits
  <2>2. CASE c.State = "START_RSP_WAIT"
    BY <1>1, <1>3, <2>2 DEF Advanced
  <2>3. CASE c.State = "DATA_ACK_WAIT" /\ c.BlockNum < NumBlocks
    <3>1. c.BlockNum # NumBlocks
      BY <1>1, <2>3 DEF MasterRecord
    <3>2. Advanced(c, f) = NextBlock(c)
      BY <2>3, <3>1 DEF Advanced
    <3> QED
      BY <1>3, <2>3, <3>2
  <2>4. CASE c.State = "DATA_ACK_WAIT" /\ c.BlockNum = NumBlocks
    <3>1. ~(c.BlockNum < NumBlocks)
      BY <1>1, <2>4
    <3>2. Advanced(c, f) = [c EXCEPT !.State = "END_RSP_WAIT", !.tx = Frame("END_REQ", NumBlocks)]
      BY <2>4, <3>1 DEF Advanced
    <3> QED
      BY <1>2, <3>2 DEF MasterRecord, MasterStates, MasterWaits
  <2>5. CASE c.State = "END_RSP_WAIT"
    BY <1>2, <2>5 DEF Advanced, MasterRecord, MasterStates
  <2> QED
    BY <1>1, <2>1, <2>2, <2>3, <2>4, <2>5 DEF MasterWaits, MasterRecord
<1> HIDE DEF MasterRecord
<1>5. Advanced(c, f) \in [State : MasterStates, BlockNum : 0 .. NumBlocks,
                          RetryTimes : 0 .. Retries, tx : Sent]
  BY <1>4 DEF MasterRecord
<1> QED
  BY <1>1, <1>4, <1>5 DEF Accepted, MasterRecord

\* Both sides count their retries up to the limit.
LEMMA RetryFacts ==
  ASSUME FwUpdateAssumption, NEW c, c.RetryTimes \in 0 .. Retries, c.RetryTimes # Retries
  PROVE  c.RetryTimes + 1 \in 0 .. Retries
BY DEF FwUpdateAssumption

LEMMA MasterRetryType ==
  ASSUME FwUpdateAssumption, NEW c \in MasterRecord, c.State \in MasterWaits,
         c.State \in {"FW_VER_WAIT", "START_RSP_WAIT"} => c.BlockNum = 0
  PROVE  /\ Retry(c) \in MasterRecord
         /\ Retry(c).State \in {"IDLE", "FW_VER_WAIT", "START_RSP_WAIT"} =>
              Retry(c).BlockNum = 0
<1>1. CASE c.RetryTimes = Retries
  BY <1>1, FrameTypes DEF Retry, MasterRecord, MasterStates
<1>2. CASE c.RetryTimes # Retries
  <2>1. c.RetryTimes + 1 \in 0 .. Retries
    BY <1>2, RetryFacts DEF MasterRecord
  <2> QED
    BY <1>2, <2>1 DEF Retry, MasterRecord, MasterWaits
<1> QED
  BY <1>1, <1>2

\* A pass of the master.
LEMMA MasterStepType ==
  ASSUME FwUpdateAssumption, IInv, MasterInit \/ MasterTurn \/ MasterDeadline
  PROVE  MasterType' /\ QueueType' /\ TimerType' /\ OneTimer' /\ CountInv'
<1>1. /\ m \in MasterRecord /\ "master" \in Node
      /\ QueueType /\ TimerType /\ OneTimer /\ CountInv
      /\ 0 \in 0 .. NumBlocks /\ 0 \in 0 .. Retries
  BY DEF IInv, MasterType, MasterRecord, Node, FwUpdateAssumption
<1>2. /\ m.State \in {"FW_VER_WAIT", "START_RSP_WAIT"} => m.BlockNum = 0
      /\ None \in Sent /\ Frame("VERSION_REQ", 0) \in Sent
  BY <1>1, FrameTypes DEF CountInv
<1>3. CASE MasterInit
  <2>1. m' \in MasterRecord /\ m'.BlockNum = 0
    BY <1>1, <1>2, <1>3 DEF MasterInit, MasterOff, MasterRecord, MasterStates
  <2> QED
    BY <1>1, <1>3, <2>1
       DEF MasterInit, MasterType, MasterRecord, QueueType, TimerType, OneTimer, CountInv
<1>4. CASE MasterIdle
  <2>1. m' \in MasterRecord /\ m'.BlockNum = 0 /\ m'.tx \in Sent
    BY <1>1, <1>2, <1>4 DEF MasterIdle, MasterRecord, MasterStates, MasterWaits, CountInv
  <2>2. QueueType'
    BY <1>1, <1>4, <2>1, SendType DEF MasterIdle
  <2>3. TimerType' /\ OneTimer'
    BY <1>1, <1>4, TimerStep DEF MasterIdle
  <2> QED
    BY <2>1, <2>2, <2>3 DEF MasterType, MasterRecord, CountInv
<1>5. CASE MasterMsg
  <2> DEFINE f == Received("master")
             what == IF m'.tx # None THEN "restart"
                     ELSE IF m'.RetryTimes = 0 THEN "cancel" ELSE "keep"
  <2>1. f \in Sent /\ m.State \in MasterWaits
    BY <1>1, <1>5, ReceivedType DEF MasterMsg
  <2>2. m' = IF Matches(m, f) THEN Accepted(m, f) ELSE Retry(m)
    BY <1>5 DEF MasterMsg
  <2> HIDE DEF f
  <2>3. /\ m' \in MasterRecord
        /\ m'.State \in {"IDLE", "FW_VER_WAIT", "START_RSP_WAIT"} => m'.BlockNum = 0
    BY <1>1, <1>2, <2>1, <2>2, AcceptedType, MasterRetryType
  <2>4. QueueType'
    <3>1. m'.tx \in Sent
      BY <2>3 DEF MasterRecord
    <3> QED
      BY <1>1, <1>5, <3>1, SendType DEF MasterMsg
  <2>5. TimerType' /\ OneTimer'
    <3>1. what \in {"restart", "cancel", "keep"} /\ SetTimer("master", what)
      BY <1>5 DEF MasterMsg
    <3> HIDE DEF what
    <3> QED
      BY <1>1, <3>1, TimerStep
  <2> QED
    BY <2>3, <2>4, <2>5 DEF MasterType, MasterRecord, CountInv
<1>6. CASE MasterDeadline
  <2>1. m' \in MasterRecord /\ m'.State = "ERROR"
    BY <1>1, <1>2, <1>6 DEF MasterDeadline, MasterRecord, MasterStates
  <2>2. QueueType'
    BY <1>1, <1>6, QuietType DEF MasterDeadline
  <2> QED
    BY <1>1, <1>6, <2>1, <2>2
       DEF MasterDeadline, MasterType, MasterRecord, TimerType, OneTimer, CountInv
<1> QED
  BY <1>3, <1>4, <1>5, <1>6 DEF MasterTurn
-----------------------------------------------------------------------------
(***************************************************************************)
(* The slave.                                                              *)
(***************************************************************************)
SlaveRecord == [State : SlaveStates, BlockNum : 0 .. NumBlocks,
                RetryTimes : 0 .. Retries, tx : Sent, bank : Bank]

\* What the slave answers, or repeats.
LEMMA SteppedType ==
  ASSUME FwUpdateAssumption, SlaveType, NEW f \in Sent, Steps(s, f)
  PROVE  Stepped(s, f) \in SlaveRecord
<1>1. /\ s \in SlaveRecord /\ 0 \in 0 .. Retries /\ 0 \in 0 .. NumBlocks
      /\ f.num \in 0 .. NumBlocks
      /\ FwVersion \in {0, 1}
  BY DEF SlaveType, SlaveRecord, FwUpdateAssumption, Sent, Frames, FwVersion
<1>2. /\ Frame("VERSION_RSP", FwVersion) \in Sent /\ Frame("START_RSP", 0) \in Sent
      /\ Frame("END_RSP", 0) \in Sent /\ Frame("ACK", f.num) \in Sent
  BY <1>1, FrameTypes
<1>3. ASSUME NEW state \in SlaveStates, NEW g \in Sent
      PROVE  Reply(s, state, g) \in SlaveRecord
  BY <1>1, <1>3 DEF Reply, SlaveRecord
<1>4. {"START_READY", "DATA_READY", "END_READY", "END", "ERROR"} \subseteq SlaveStates
  BY DEF SlaveStates, SlaveListens
<1>5. CASE f.cmd = "VERSION_REQ"
  BY <1>2, <1>3, <1>4, <1>5 DEF Stepped
<1>6. CASE f.cmd = "START_REQ"
  BY <1>2, <1>3, <1>4, <1>6 DEF Stepped
<1>7. CASE f.cmd = "DATA"
  <2>1. PICK state \in {"END_READY", "DATA_READY"} :
          Stepped(s, f) = [Reply(s, state, Frame("ACK", f.num)) EXCEPT !.BlockNum = f.num]
    BY <1>7 DEF Stepped
  <2>2. Reply(s, state, Frame("ACK", f.num)) \in SlaveRecord
    BY <1>2, <1>3, <1>4
  <2> QED
    BY <1>1, <2>1, <2>2 DEF SlaveRecord
<1>8. CASE f.cmd = "END_REQ"
  <2>1. s.tx \in Sent
    BY <1>1 DEF SlaveRecord
  <2> QED
    BY <1>2, <1>3, <1>4, <1>8, <2>1 DEF Stepped
<1> QED
  BY <1>5, <1>6, <1>7, <1>8 DEF Steps, NextData

\* A device that goes down.
LEMMA DownType ==
  ASSUME FwUpdateAssumption, IInv, SlaveDown
  PROVE  /\ MasterType' /\ SlaveType' /\ QueueType' /\ TimerType' /\ OneTimer' /\ CountInv'
         /\ s'.State = "OFF"
<1>1. s' \in SlaveRecord /\ s'.State = "OFF"
  BY FrameTypes DEF SlaveDown, SlaveOff, SlaveRecord, SlaveStates, Bank, FwUpdateAssumption
<1>2. QueueType'
  <2>1. /\ None \in Sent /\ 0 \in Buffers /\ <<>> \in Seq(Msgs) /\ Len(<<>>) <= QueueLen
    BY FrameTypes DEF Buffers, QueueLen
  <2>2. [b \in Buffers |-> None] \in [Buffers -> Sent]
    BY <2>1
  <2> QED
    BY <2>1, <2>2 DEF SlaveDown, IInv, QueueType
<1>3. TimerType' /\ OneTimer'
  <2>1. IdleTimer \in [valid : SUBSET (1 .. Slots), ptr : 0 .. Slots] /\ IdleTimer.valid = {}
    BY DEF IdleTimer, NoSlot, FwUpdateAssumption
  <2> HIDE DEF IdleTimer
  <2>2. timer' = [timer EXCEPT !["slave"] = IdleTimer]
    BY DEF SlaveDown, IdleTimer
  <2> QED
    BY <2>1, <2>2 DEF IInv, TimerType, OneTimer
<1> QED
  BY <1>1, <1>2, <1>3 DEF SlaveDown, SlaveType, SlaveRecord, IInv, MasterType, CountInv

\* A pass of the slave.
LEMMA SlaveStepType ==
  ASSUME FwUpdateAssumption, IInv, SlaveStart \/ SlaveTurn \/ SlaveDeadline \/ SlavePowerLoss
  PROVE  MasterType' /\ SlaveType' /\ QueueType' /\ TimerType' /\ OneTimer' /\ CountInv'
<1>1. /\ s \in SlaveRecord /\ "slave" \in Node
      /\ QueueType /\ TimerType /\ OneTimer /\ SlaveType
      /\ 0 \in 0 .. NumBlocks /\ 0 \in 0 .. Retries
  BY DEF IInv, SlaveType, SlaveRecord, Node, FwUpdateAssumption
<1>2. UNCHANGED m => MasterType' /\ CountInv'
  BY DEF IInv, MasterType, CountInv
<1>3. s' \in SlaveRecord => SlaveType'
  BY DEF SlaveType, SlaveRecord
<1>4. UNCHANGED <<q, buf, rp>> => QueueType'
  BY <1>1 DEF QueueType
<1>5. UNCHANGED timer => TimerType' /\ OneTimer'
  BY <1>1 DEF TimerType, OneTimer
<1>6. ASSUME NEW state \in SlaveStates, s' = [s EXCEPT !.State = state]
      PROVE  s' \in SlaveRecord
  BY <1>1, <1>6 DEF SlaveRecord
<1>7. {"IDLE", "FW_VERSION_READY", "SET_FLAG", "CLEAR_FLAG", "ERROR", "ERASE"} \subseteq SlaveStates
  BY DEF SlaveStates, SlaveListens
<1>8. CASE SlaveStart
  <2>1. s' \in SlaveRecord
    BY <1>1, <1>7, <1>8, FrameTypes DEF SlaveStart, SlaveOff, SlaveRecord, OtherBank, Bank
  <2> QED
    BY <1>2, <1>3, <1>4, <1>5, <1>8, <2>1 DEF SlaveStart
<1>9. CASE SlaveInit
  BY <1>2, <1>3, <1>4, <1>5, <1>6, <1>7, <1>9 DEF SlaveInit
<1>10. CASE SlaveIdle
  <2>1. QueueType' /\ TimerType' /\ OneTimer'
    BY <1>1, <1>10, QuietType, TimerStep DEF SlaveIdle
  <2> QED
    BY <1>2, <1>3, <1>6, <1>7, <1>10, <2>1 DEF SlaveIdle
<1>11. CASE SlaveAnswer
  <2> DEFINE f == Received("slave")
             what == IF s'.State \in {"END", "ERROR"} THEN "cancel" ELSE "restart"
             sent == IF s'.State = "ERROR" THEN None ELSE s'.tx
  <2>1. f \in Sent
    BY <1>1, <1>11, ReceivedType DEF SlaveAnswer
  <2>2. ASSUME Repeats(s, f) PROVE s' \in SlaveRecord
    <3>1. s' = [s EXCEPT !.RetryTimes = 0]
      BY <1>11, <2>2 DEF SlaveAnswer
    <3> QED
      BY <1>1, <3>1 DEF SlaveRecord
  <2>3. ASSUME ~Repeats(s, f) PROVE s' \in SlaveRecord
    <3>1. Steps(s, f) /\ s' = Stepped(s, f)
      BY <1>11, <2>3 DEF SlaveAnswer
    <3> QED
      BY <1>1, <2>1, <3>1, SteppedType
  <2>4. s' \in SlaveRecord /\ s'.tx \in Sent
    BY <2>2, <2>3 DEF SlaveRecord
  <2>5. what \in {"restart", "cancel", "keep"} /\ SetTimer("slave", what) /\ UNCHANGED m
    BY <1>11 DEF SlaveAnswer
  <2>6. sent \in Sent /\ PHY_SendData(Popped("slave"), "slave", sent)
    BY <1>11, <2>4, FrameTypes DEF SlaveAnswer
  <2> HIDE DEF what, sent
  <2>7. QueueType' /\ TimerType' /\ OneTimer'
    BY <1>1, <2>5, <2>6, SendType, TimerStep
  <2> QED
    BY <1>2, <1>3, <2>4, <2>5, <2>7
<1>12. CASE SlaveIgnore
  <2> DEFINE what == IF s'.State = "ERROR" THEN "keep" ELSE "restart"
  <2>1. s' = [Retry(s) EXCEPT !.tx = s.tx]
    BY <1>12 DEF SlaveIgnore
  <2>2. s' \in SlaveRecord
    <3>1. CASE s.RetryTimes = Retries
      <4>1. s' = [s EXCEPT !.State = "ERROR", !.tx = s.tx]
        BY <1>1, <2>1, <3>1 DEF Retry, SlaveRecord
      <4> QED
        BY <1>1, <1>7, <4>1 DEF SlaveRecord
    <3>2. CASE s.RetryTimes # Retries
      <4>1. s.RetryTimes + 1 \in 0 .. Retries
        BY <1>1, <3>2, RetryFacts DEF SlaveRecord
      <4>2. s' = [s EXCEPT !.RetryTimes = s.RetryTimes + 1, !.tx = s.tx]
        BY <1>1, <2>1, <3>2 DEF Retry, SlaveRecord
      <4> QED
        BY <1>1, <4>1, <4>2 DEF SlaveRecord
    <3> QED
      BY <3>1, <3>2
  <2>3. what \in {"restart", "cancel", "keep"} /\ SetTimer("slave", what)
    BY <1>12 DEF SlaveIgnore
  <2> HIDE DEF what
  <2>4. QueueType' /\ TimerType' /\ OneTimer'
    BY <1>1, <1>12, <2>3, QuietType, TimerStep DEF SlaveIgnore
  <2> QED
    BY <1>2, <1>3, <1>12, <2>2, <2>4 DEF SlaveIgnore
<1>13. CASE SlaveDeadline
  <2>1. QueueType'
    BY <1>1, <1>13, QuietType DEF SlaveDeadline
  <2> QED
    BY <1>2, <1>3, <1>5, <1>6, <1>7, <1>13, <2>1 DEF SlaveDeadline
<1>14. CASE SlaveCheck
  BY <1>2, <1>3, <1>4, <1>5, <1>6, <1>7, <1>14 DEF SlaveCheck
<1>15. CASE SlaveSetFlag
  BY <1>2, <1>3, <1>4, <1>5, <1>6, <1>7, <1>15 DEF SlaveSetFlag
<1>16. CASE SlaveClearFlag \/ SlaveError \/ SlavePowerLoss
  BY <1>16, DownType DEF SlaveClearFlag, SlaveError, SlavePowerLoss
<1> QED
  BY <1>8, <1>9, <1>10, <1>11, <1>12, <1>13, <1>14, <1>15, <1>16 DEF SlaveTurn

\* A response timer that fires.
LEMMA TimeoutType ==
  ASSUME FwUpdateAssumption, IInv, NEW n \in Node, RspTimeout(n)
  PROVE  MasterType' /\ SlaveType' /\ QueueType' /\ TimerType' /\ OneTimer' /\ CountInv'
<1>1. PICK i \in timer[n].valid :
        /\ timer' = [timer EXCEPT ![n].valid = @ \ {i}]
        /\ \E queue \in PushedByTimer(q[n]) : q' = [q EXCEPT ![n] = queue]
  BY DEF RspTimeout
<1>2. QueueType'
  <2>1. PICK queue \in PushedByTimer(q[n]) : q' = [q EXCEPT ![n] = queue]
    BY <1>1
  <2>2. queue \in Seq(Msgs) /\ Len(queue) <= QueueLen
    BY <2>1, MeetType, FrameTypes DEF IInv, QueueType
  <2> QED
    BY <2>1, <2>2 DEF RspTimeout, IInv, QueueType
<1>3. TimerType' /\ OneTimer'
  <2>1. timer[n] \in [valid : SUBSET (1 .. Slots), ptr : 0 .. Slots]
    BY DEF IInv, TimerType
  <2> DEFINE t == [timer[n] EXCEPT !.valid = @ \ {i}]
  <2>2. /\ t \in [valid : SUBSET (1 .. Slots), ptr : 0 .. Slots]
        /\ t.valid \subseteq timer[n].valid /\ t.ptr = timer[n].ptr
    BY <2>1
  <2>3. timer' = [timer EXCEPT ![n] = t]
    BY <1>1
  <2> HIDE DEF t
  <2> QED
    BY <2>2, <2>3 DEF IInv, TimerType, OneTimer
<1> QED
  BY <1>2, <1>3 DEF RspTimeout, IInv, MasterType, SlaveType, CountInv
-----------------------------------------------------------------------------
(***************************************************************************)
(* The flash.                                                              *)
(***************************************************************************)
\* Which bank boots, and why one holds a whole image.
LEMMA BootBankFact ==
  ASSUME NeverBricked
  PROVE  BootBank \in Bank /\ flash[BootBank].boot /\ \E img \in Image : Runs(img)
BY DEF NeverBricked, BootBank, Bootable, Bank

\* A write to a bank that does not boot and is not made to changes nothing of
\* the bank that does.
LEMMA SpareWrite ==
  ASSUME FlashType, NeverBricked, NEW b \in Bank, b # BootBank,
         NEW bank \in BankType, ~bank.boot, flash' = [flash EXCEPT ![b] = bank]
  PROVE  /\ FlashType' /\ NeverBricked' /\ BootBank' = BootBank
         /\ flash'[BootBank] = flash[BootBank] /\ flash'[b] = bank
<1>1. BootBank \in Bank /\ flash[BootBank].boot
  BY BootBankFact
<1>2. flash'[b] = bank /\ \A x \in Bank : x # b => flash'[x] = flash[x]
  BY DEF FlashType
<1>3. FlashType'
  BY DEF FlashType
<1>4. BootBank \in Bootable' /\ \A x \in Bootable' : x \in Bootable
  BY <1>1, <1>2 DEF Bootable
<1>5. BootBank' = BootBank
  BY <1>1, <1>4 DEF BootBank, Bank
<1>6. NeverBricked'
  <2>1. flash'[BootBank'] = flash[BootBank]
    BY <1>1, <1>2, <1>5
  <2> QED
    BY <1>4, <2>1 DEF NeverBricked, Runs
<1> QED
  BY <1>1, <1>2, <1>3, <1>5, <1>6

\* A bank erased is empty.
LEMMA ErasedFacts == Erased \in BankType /\ ~Erased.boot /\ Len(Erased.data) = 0
BY DEF Erased, BankType

\* While the flash stays, BootInv and WrittenInv speak of the slave's state only.
LEMMA StateStep ==
  ASSUME IInv, UNCHANGED flash,
         s'.bank = s.bank \/ s'.State = "OFF", s'.BlockNum = s.BlockNum \/ s'.State = "OFF",
         \/ s'.State \in {"OFF", s.State, "ERROR"} /\ (s'.State = "ERROR" => s.State \in Filling)
         \/ s.State \in Filling /\ s'.State \in Filling \ {"SET_FLAG"}
            /\ (s'.State \in {"IDLE", "FW_VERSION_READY", "START_READY"} => s.BlockNum = 0)
  PROVE  FlashType' /\ BootInv' /\ WrittenInv' /\ LengthInv'
<1>1. FlashType' /\ LengthInv' /\ NeverBricked' /\ BootBank' = BootBank
  BY DEF IInv, FlashType, LengthInv, BootInv, NeverBricked, BootBank, Bootable, Runs
<1>2. CASE s'.State = "OFF"
  BY <1>1, <1>2 DEF BootInv, WrittenInv, Filling, SlaveListens
<1>3. CASE s'.State # "OFF"
  BY <1>1, <1>3 DEF IInv, BootInv, WrittenInv, Filling, SlaveListens
<1> QED
  BY <1>2, <1>3

\* A pass of the slave leaves the flash as BootInv and WrittenInv say.
LEMMA SlaveStepFlash ==
  ASSUME FwUpdateAssumption, IInv, SlaveType',
         SlaveStart \/ SlaveTurn \/ SlaveDeadline \/ SlavePowerLoss
  PROVE  FlashType' /\ BootInv' /\ WrittenInv' /\ LengthInv'
<1>1. /\ FlashType /\ NeverBricked /\ BootInv /\ WrittenInv /\ LengthInv
      /\ s \in SlaveRecord /\ s.bank \in Bank /\ NumBlocks \in Nat \ {0}
  BY DEF IInv, BootInv, SlaveType, SlaveRecord, FwUpdateAssumption
<1>2. BootBank \in Bank /\ flash[BootBank].boot
  BY <1>1, BootBankFact
<1>3. CASE SlaveStart
  <2>1. FlashType' /\ LengthInv' /\ NeverBricked' /\ BootBank' = BootBank
    BY <1>1, <1>3
       DEF SlaveStart, FlashType, LengthInv, NeverBricked, BootBank, Bootable, Runs
  <2>2. OtherBank # BootBank
    BY <1>1, <1>2 DEF OtherBank, BootBank, Bootable, Bank
  <2>3. s'.State = "ERASE" /\ s'.bank = OtherBank /\ s'.BlockNum = 0
    BY <1>3 DEF SlaveStart, SlaveOff
  <2> QED
    BY <2>1, <2>2, <2>3 DEF BootInv, WrittenInv, Filling, SlaveListens
<1>4. CASE SlaveInit
  <2>1. /\ s.State = "ERASE" /\ s.bank # BootBank
        /\ s'.State = "IDLE" /\ s'.bank = s.bank /\ s'.BlockNum = s.BlockNum
        /\ flash' = [flash EXCEPT ![s.bank] = Erased]
    BY <1>1, <1>4 DEF SlaveInit, SlaveRecord, BootInv
  <2>2. /\ FlashType' /\ NeverBricked' /\ BootBank' = BootBank /\ flash'[s.bank] = Erased
        /\ Len(Erased.data) = 0 /\ ~Erased.boot
    BY <1>1, <2>1, SpareWrite, ErasedFacts
  <2>3. s.BlockNum = 0 /\ LengthInv'
    BY <1>1, <2>1, <2>2 DEF WrittenInv, LengthInv, FlashType
  <2> QED
    BY <2>1, <2>2, <2>3 DEF BootInv, WrittenInv, Filling, SlaveListens
<1>5. CASE SlaveIdle
  BY <1>1, <1>5, StateStep DEF SlaveIdle, SlaveRecord, WrittenInv, Filling, SlaveListens
<1>6. CASE SlaveAnswer
  <2> DEFINE f == Received("slave")
  <2>1. s.State \in SlaveListens
    BY <1>6 DEF SlaveAnswer
  <2>2. CASE Repeats(s, f)
    <3>1. s' = [s EXCEPT !.RetryTimes = 0] /\ UNCHANGED flash
      BY <1>6, <2>2 DEF SlaveAnswer
    <3> QED
      <4>1. s'.State = s.State /\ s'.bank = s.bank /\ s'.BlockNum = s.BlockNum
        BY <1>1, <3>1 DEF SlaveRecord
      <4>2. s'.State # "ERROR"
        BY <2>1, <4>1 DEF SlaveListens
      <4> QED
        BY <3>1, <4>1, <4>2, StateStep
  <2>3. CASE ~Repeats(s, f) /\ ~NextData(s, f)
    <3>1. UNCHANGED flash /\ Steps(s, f) /\ s' = Stepped(s, f)
      BY <1>6, <2>3 DEF SlaveAnswer
    <3> HIDE DEF f
    <3>2. CASE s.State = "FW_VERSION_READY" /\ f.cmd = "VERSION_REQ"
      <4>1. s'.State = "START_READY" /\ s'.bank = s.bank /\ s'.BlockNum = s.BlockNum
        BY <1>1, <3>1, <3>2 DEF Stepped, Reply, SlaveRecord
      <4>2. s.BlockNum = 0
        BY <1>1, <3>2 DEF WrittenInv
      <4> QED
        BY <3>1, <3>2, <4>1, <4>2, StateStep DEF Filling, SlaveListens
    <3>3. CASE s.State = "START_READY" /\ f.cmd = "START_REQ"
      <4>1. s'.State = "DATA_READY" /\ s'.bank = s.bank /\ s'.BlockNum = s.BlockNum
        BY <1>1, <3>1, <3>3 DEF Stepped, Reply, SlaveRecord
      <4> QED
        BY <3>1, <3>3, <4>1, StateStep DEF Filling, SlaveListens
    <3>4. CASE s.State = "END_READY" /\ f.cmd = "END_REQ"
      <4>1. s'.State \in {"END", "ERROR"} /\ s'.bank = s.bank /\ s'.BlockNum = s.BlockNum
        BY <1>1, <3>1, <3>4 DEF Stepped, Reply, SlaveRecord
      <4> QED
        BY <3>1, <3>4, <4>1, StateStep DEF Filling, SlaveListens
    <3> QED
      BY <2>3, <3>1, <3>2, <3>3, <3>4 DEF Steps, f
  <2>4. CASE ~Repeats(s, f) /\ NextData(s, f)
    <3> DEFINE block == <<"new", f.num>>
               bank == [flash[s.bank] EXCEPT !.data = Append(@, block)]
    <3>1. /\ s.State = "DATA_READY" /\ f.cmd = "DATA" /\ f.num = s.BlockNum + 1
          /\ s' = Stepped(s, f) /\ flash' = [flash EXCEPT ![s.bank] = bank]
      BY <1>6, <2>4 DEF SlaveAnswer, NextData
    <3>2. f.num \in 1 .. NumBlocks
      <4>1. f \in Sent
        BY <1>6, ReceivedType DEF SlaveAnswer, IInv, Node
      <4> QED
        BY <1>1, <3>1, <4>1 DEF Sent, Frames, SlaveRecord
    <3>3. /\ s'.State \in {"DATA_READY", "END_READY"} /\ s'.bank = s.bank /\ s'.BlockNum = f.num
      BY <1>1, <3>1 DEF Stepped, Reply, SlaveRecord
    <3> HIDE DEF f
    <3>4. flash[s.bank] \in BankType /\ block \in Image \X (1 .. NumBlocks)
      BY <1>1, <3>2 DEF FlashType, Image
    <3>5. /\ Len(flash[s.bank].data) = s.BlockNum /\ ~flash[s.bank].boot /\ s.bank # BootBank
          /\ \A i \in 1 .. s.BlockNum : flash[s.bank].data[i] = <<"new", i>>
      BY <1>1, <3>1 DEF WrittenInv, BootInv, Filling, SlaveListens
    <3>6. /\ bank \in BankType /\ ~bank.boot
          /\ bank.data = Append(flash[s.bank].data, block)
      <4>1. Append(flash[s.bank].data, block) \in Seq(Image \X (1 .. NumBlocks))
        BY <3>4 DEF BankType
      <4>2. flash[s.bank] \in [boot : BOOLEAN, data : Seq(Image \X (1 .. NumBlocks))]
        BY <3>4 DEF BankType
      <4> HIDE DEF block
      <4> QED
        BY <3>5, <4>1, <4>2 DEF BankType
    <3>7. /\ Len(bank.data) = f.num
          /\ \A i \in 1 .. f.num : bank.data[i] = <<"new", i>>
      <4> DEFINE data == flash[s.bank].data
      <4>1. data \in Seq(Image \X (1 .. NumBlocks))
        BY <3>4 DEF BankType
      <4>2. /\ Len(data) = s.BlockNum /\ \A i \in 1 .. s.BlockNum : data[i] = <<"new", i>>
            /\ bank.data = Append(data, block) /\ s.BlockNum \in Nat /\ f.num = s.BlockNum + 1
        BY <1>1, <3>1, <3>5, <3>6 DEF SlaveRecord
      <4> HIDE DEF data, bank
      <4>3. /\ Len(bank.data) = f.num /\ bank.data[f.num] = block
            /\ \A i \in 1 .. s.BlockNum : bank.data[i] = data[i]
        BY <3>4, <4>1, <4>2
      <4> QED
        BY <4>2, <4>3
    <3> HIDE DEF bank, block
    <3>8. FlashType' /\ NeverBricked' /\ BootBank' = BootBank /\ flash'[s.bank] = bank
      BY <1>1, <3>1, <3>5, <3>6, SpareWrite
    <3>9. LengthInv'
      BY <1>1, <3>1, <3>2, <3>7, <3>8 DEF LengthInv, FlashType
    <3> QED
      BY <3>3, <3>5, <3>6, <3>7, <3>8, <3>9 DEF BootInv, WrittenInv, Filling, SlaveListens
  <2> QED
    BY <2>2, <2>3, <2>4
<1>7. CASE SlaveIgnore
  <2>1. /\ s'.State \in {s.State, "ERROR"} /\ s'.bank = s.bank /\ s'.BlockNum = s.BlockNum
        /\ UNCHANGED flash /\ s.State \in SlaveListens
    BY <1>1, <1>7 DEF SlaveIgnore, Retry, SlaveRecord
  <2> QED
    BY <2>1, StateStep DEF Filling
<1>8. CASE SlaveDeadline
  <2>1. /\ s'.State = "ERROR" /\ s'.bank = s.bank /\ s'.BlockNum = s.BlockNum
        /\ UNCHANGED flash /\ s.State \in SlaveListens
    BY <1>1, <1>8 DEF SlaveDeadline, SlaveRecord
  <2> QED
    BY <2>1, StateStep DEF Filling
<1>9. CASE SlaveCheck
  <2>1. /\ s'.bank = s.bank /\ s'.BlockNum = s.BlockNum /\ UNCHANGED flash /\ s.State = "END"
        /\ s'.State = IF CrcRight THEN "SET_FLAG" ELSE "ERROR"
    BY <1>1, <1>9 DEF SlaveCheck, SlaveRecord
  <2>2. CASE CrcRight
    <3>1. FlashType' /\ LengthInv' /\ NeverBricked' /\ BootBank' = BootBank
      BY <1>1, <2>1
         DEF FlashType, LengthInv, NeverBricked, BootBank, Bootable, Runs
    <3> QED
      BY <1>1, <2>1, <2>2, <3>1 DEF BootInv, WrittenInv, CrcRight, Filling, SlaveListens
  <2>3. CASE ~CrcRight
    BY <2>1, <2>3, StateStep DEF Filling
  <2> QED
    BY <2>2, <2>3
<1>10. CASE SlaveSetFlag
  <2>1. /\ s.State = "SET_FLAG" /\ s'.State = "CLEAR_FLAG" /\ s'.bank = s.bank
        /\ s'.BlockNum = s.BlockNum /\ flash[s.bank].data = Whole("new")
        /\ flash' = [flash EXCEPT ![s.bank] = [flash[s.bank] EXCEPT !.boot = TRUE]]
    BY <1>1, <1>10 DEF SlaveSetFlag, FlagSet, SlaveRecord, BootInv
  <2> DEFINE bank == [flash[s.bank] EXCEPT !.boot = TRUE]
  <2>2. /\ bank \in BankType /\ bank.boot /\ bank.data = Whole("new")
        /\ bank.data = flash[s.bank].data
    BY <1>1, <2>1 DEF FlashType, BankType
  <2>3. flash' = [flash EXCEPT ![s.bank] = bank]
    BY <2>1
  <2> HIDE DEF bank
  <2>4. /\ flash'[s.bank] = bank /\ FlashType'
        /\ \A x \in Bank : x # s.bank => flash'[x] = flash[x]
    BY <1>1, <2>2, <2>3 DEF FlashType
  <2>5. LengthInv'
    BY <1>1, <2>2, <2>4 DEF LengthInv
  <2>6. s.bank \in Bootable' /\ BootBank \in Bootable'
    BY <1>1, <1>2, <2>2, <2>4 DEF Bootable
  <2>7. NeverBricked'
    <3>1. CASE BootBank' = s.bank
      <4>1. Runs("new")'
        BY <2>2, <2>4, <3>1 DEF Runs, Whole
      <4> QED
        BY <2>6, <4>1 DEF NeverBricked, Image
    <3>2. CASE BootBank' # s.bank
      <4>1. BootBank' = BootBank /\ flash'[BootBank] = flash[BootBank]
        BY <1>1, <1>2, <2>4, <2>6, <3>2 DEF BootBank, Bootable, Bank
      <4> QED
        BY <1>1, <2>6, <4>1 DEF NeverBricked, Runs
    <3> QED
      BY <3>1, <3>2
  <2> QED
    BY <2>1, <2>2, <2>4, <2>5, <2>7 DEF BootInv, WrittenInv, Filling, SlaveListens, Whole
<1>11. CASE SlaveClearFlag
  <2> DEFINE other == 1 - s.bank
             bank == [flash[other] EXCEPT !.boot = FALSE]
  <2>1. /\ s.State = "CLEAR_FLAG" /\ s'.State = "OFF"
        /\ flash[s.bank].data = Whole("new") /\ flash[s.bank].boot
        /\ flash' = [flash EXCEPT ![other] = bank]
    BY <1>1, <1>11 DEF SlaveClearFlag, SlaveDown, SlaveOff, BootInv
  <2>2. other \in Bank /\ other # s.bank /\ Bank = {s.bank, other}
    BY <1>1 DEF Bank
  <2>3. bank \in BankType /\ ~bank.boot /\ bank.data = flash[other].data
    BY <1>1, <2>2 DEF FlashType, BankType
  <2> HIDE DEF bank, other
  <2>4. FlashType' /\ flash'[other] = bank /\ flash'[s.bank] = flash[s.bank]
    BY <1>1, <2>1, <2>2, <2>3 DEF FlashType
  <2>5. Bootable' = {s.bank}
    BY <1>1, <2>1, <2>2, <2>3, <2>4 DEF Bootable
  <2>6. BootBank' = s.bank
    BY <1>1, <2>5 DEF BootBank, Bank
  <2>7. NeverBricked'
    <3>1. Runs("new")'
      BY <2>1, <2>4, <2>6 DEF Runs, Whole
    <3> QED
      BY <2>5, <3>1 DEF NeverBricked, Image
  <2>8. LengthInv'
    BY <1>1, <2>2, <2>3, <2>4 DEF LengthInv
  <2> QED
    BY <2>1, <2>4, <2>7, <2>8 DEF BootInv, WrittenInv, Filling, SlaveListens
<1>12. CASE SlaveError
  <2>1. /\ s.State = "ERROR" /\ s.bank # BootBank /\ s'.State = "OFF"
        /\ flash' = [flash EXCEPT ![s.bank] = Erased]
    BY <1>1, <1>12 DEF SlaveError, SlaveDown, SlaveOff, BootInv, Filling
  <2>2. FlashType' /\ NeverBricked' /\ flash'[s.bank] = Erased /\ Len(Erased.data) = 0
    BY <1>1, <2>1, SpareWrite, ErasedFacts
  <2>3. LengthInv'
    BY <1>1, <2>1, <2>2 DEF LengthInv, FlashType
  <2> QED
    BY <2>1, <2>2, <2>3 DEF BootInv, WrittenInv, Filling, SlaveListens
<1>13. CASE SlavePowerLoss
  BY <1>13, StateStep DEF SlavePowerLoss, SlaveDown, SlaveOff
<1> QED
  BY <1>3, <1>4, <1>5, <1>6, <1>7, <1>8, <1>9, <1>10, <1>11, <1>12, <1>13 DEF SlaveTurn
-----------------------------------------------------------------------------
(***************************************************************************)
(* The inductive invariant.                                                *)
(***************************************************************************)
\* A new image and the old one differ, and both are as long as a bank may be.
LEMMA WholeFacts ==
  ASSUME FwUpdateAssumption
  PROVE  /\ Whole("old") # Whole("new")
         /\ \A img \in Image : /\ Whole(img) \in Seq(Image \X (1 .. NumBlocks))
                               /\ Len(Whole(img)) = NumBlocks
<1>1. NumBlocks \in Nat /\ 1 \in 1 .. NumBlocks
  BY DEF FwUpdateAssumption
<1>2. Whole("old")[1] = <<"old", 1>> /\ Whole("new")[1] = <<"new", 1>>
  BY <1>1 DEF Whole
<1> QED
  BY <1>1, <1>2 DEF Whole, Image

LEMMA InitIInv == ASSUME FwUpdateAssumption, Init PROVE IInv
<1>1. /\ 0 \in 0 .. NumBlocks /\ 0 \in 0 .. Retries /\ None \in Sent /\ NumBlocks \in Nat
  BY FrameTypes DEF FwUpdateAssumption
<1>2. MasterType /\ SlaveType /\ CountInv
  BY <1>1 DEF Init, MasterOff, SlaveOff, MasterType, SlaveType, MasterStates, SlaveStates,
              CountInv, Bank
<1>3. QueueType
  <2>1. <<>> \in Seq(Msgs) /\ Len(<<>>) <= QueueLen /\ 0 \in Buffers
    BY DEF QueueLen, Buffers
  <2> QED
    BY <1>1, <2>1 DEF Init, QueueType
<1>4. TimerType /\ OneTimer
  <2>1. IdleTimer \in [valid : SUBSET (1 .. Slots), ptr : 0 .. Slots] /\ IdleTimer.valid = {}
    BY DEF IdleTimer, NoSlot, FwUpdateAssumption
  <2> QED
    BY <2>1 DEF Init, TimerType, OneTimer
<1>5. FlashType /\ NeverBricked /\ LengthInv
  <2> DEFINE old == [boot |-> TRUE, data |-> Whole("old")]
             spare == [boot |-> FALSE, data |-> <<>>]
  <2>1. PICK first \in Bank : flash = [b \in Bank |-> IF b = first THEN old ELSE spare]
    BY DEF Init
  <2>2. /\ old \in BankType /\ spare \in BankType
        /\ old.boot /\ ~spare.boot /\ old.data = Whole("old")
        /\ Len(old.data) <= NumBlocks /\ Len(spare.data) <= NumBlocks
    BY <1>1, WholeFacts DEF BankType, Image
  <2> HIDE DEF old, spare
  <2>3. FlashType /\ LengthInv
    BY <2>1, <2>2 DEF FlashType, LengthInv
  <2>4. Bootable = {first}
    BY <2>1, <2>2 DEF Bootable
  <2>5. BootBank = first
    BY <2>4 DEF BootBank, Bank
  <2>6. Runs("old")
    BY <2>1, <2>2, <2>5 DEF Runs
  <2> QED
    BY <2>3, <2>4, <2>6 DEF NeverBricked, Image
<1>6. BootInv /\ WrittenInv
  BY <1>5 DEF Init, SlaveOff, BootInv, WrittenInv, Filling, SlaveListens
<1> QED
  BY <1>2, <1>3, <1>4, <1>5, <1>6 DEF IInv

LEMMA NextIInv == ASSUME FwUpdateAssumption, IInv, [Next]_vars PROVE IInv'
<1>1. UNCHANGED <<s, flash>> => SlaveType' /\ FlashType' /\ BootInv' /\ WrittenInv' /\ LengthInv'
  BY DEF IInv, SlaveType, FlashType, BootInv, WrittenInv, LengthInv, NeverBricked, BootBank,
         Bootable, Runs
<1>2. CASE MasterInit \/ MasterTurn \/ MasterDeadline
  <2>1. UNCHANGED <<s, flash>>
    BY <1>2 DEF MasterInit, MasterTurn, MasterIdle, MasterMsg, MasterDeadline
  <2> QED
    BY <1>1, <1>2, <2>1, MasterStepType DEF IInv
<1>3. CASE SlaveStart \/ SlaveTurn \/ SlaveDeadline \/ SlavePowerLoss
  BY <1>3, SlaveStepType, SlaveStepFlash DEF IInv
<1>4. ASSUME NEW n \in Node, RspTimeout(n) PROVE IInv'
  <2>1. UNCHANGED <<s, flash>>
    BY <1>4 DEF RspTimeout
  <2> QED
    BY <1>1, <1>4, <2>1, TimeoutType DEF IInv
<1>5. CASE UNCHANGED vars
  <2>1. UNCHANGED <<s, flash>> /\ UNCHANGED <<m, q, buf, rp, timer>>
    BY <1>5 DEF vars
  <2> QED
    BY <1>1, <2>1 DEF IInv, MasterType, QueueType, TimerType, OneTimer, CountInv
<1> QED
  BY <1>2, <1>3, <1>4, <1>5 DEF Next

\* The inductive invariant holds at every moment.
THEOREM AlwaysIInv == ASSUME FwUpdateAssumption PROVE Spec => []IInv
<1>1. Init => IInv
  BY InitIInv
<1>2. IInv /\ [Next]_vars => IInv'
  BY NextIInv
<1> QED
  BY <1>1, <1>2, PTL DEF Spec

-----------------------------------------------------------------------------
(***************************************************************************)
(* What follows.                                                           *)
(***************************************************************************)
\* The states, counters, frames, queues, buffers, timers and banks of both ends
\* keep their types: a queue never holds more than four messages.
THEOREM TypeCorrect == ASSUME FwUpdateAssumption PROVE Spec => []TypeOK
<1>1. IInv => TypeOK
  <2> SUFFICES ASSUME IInv PROVE TypeOK
    OBVIOUS
  <2>1. /\ m.State \in MasterWaits \cup {"OFF", "IDLE", "END", "ERROR"}
        /\ m.BlockNum \in 0 .. NumBlocks /\ m.RetryTimes \in 0 .. Retries /\ m.tx \in Frames
    BY DEF IInv, MasterType, MasterStates, Sent
  <2>2. /\ s.State \in SlaveListens \cup {"OFF", "ERASE", "IDLE", "END", "SET_FLAG",
                                          "CLEAR_FLAG", "ERROR"}
        /\ s.BlockNum \in 0 .. NumBlocks /\ s.RetryTimes \in 0 .. Retries /\ s.tx \in Frames
    BY DEF IInv, SlaveType, SlaveStates, Sent
  <2>3. ASSUME NEW n \in Node
        PROVE  /\ Len(q[n]) <= QueueLen /\ \A i \in 1 .. Len(q[n]) : q[n][i] \in Msgs
               /\ buf[n] \in [Buffers -> Frames] /\ rp[n] \in Buffers
               /\ timer[n] \in [valid : SUBSET (1 .. Slots), ptr : 0 .. Slots]
    <3>1. q[n] \in Seq(Msgs) /\ Len(q[n]) <= QueueLen
      BY DEF IInv, QueueType
    <3>2. buf[n] \in [Buffers -> Frames] /\ rp[n] \in Buffers
      BY DEF IInv, QueueType, Sent
    <3>3. timer[n] \in [valid : SUBSET (1 .. Slots), ptr : 0 .. Slots]
      BY DEF IInv, TimerType
    <3> QED
      BY <3>1, <3>2, <3>3
  <2>4. ASSUME NEW b \in Bank
        PROVE  /\ flash[b].boot \in BOOLEAN /\ Len(flash[b].data) <= NumBlocks
               /\ \A i \in 1 .. Len(flash[b].data) : flash[b].data[i] \in Image \X (1 .. NumBlocks)
    <3>1. flash[b].boot \in BOOLEAN /\ flash[b].data \in Seq(Image \X (1 .. NumBlocks))
      BY DEF IInv, FlashType, BankType
    <3> QED
      BY <3>1 DEF IInv, LengthInv
  <2> QED
    BY <2>1, <2>2, <2>3, <2>4 DEF TypeOK
<1> QED
  BY <1>1, AlwaysIInv, PTL

\* Whatever frame is lost, damaged or late and whenever power goes, the slave has
\* a bank to boot, and it holds one whole image.
THEOREM SlaveBootable == ASSUME FwUpdateAssumption PROVE Spec => []NeverBricked
<1>1. IInv => NeverBricked
  BY DEF IInv, BootInv
<1> QED
  BY <1>1, AlwaysIInv, PTL

\* Blocks are written in order, each once, however often a frame is sent.
THEOREM BlocksInOrder == ASSUME FwUpdateAssumption PROVE Spec => []InOrder
<1>1. IInv => InOrder
  <2> SUFFICES ASSUME IInv, s.State \in SlaveListens
               PROVE  flash[s.bank].data = [i \in 1 .. s.BlockNum |-> <<"new", i>>]
    BY DEF InOrder
  <2> DEFINE data == flash[s.bank].data
  <2>1. /\ data \in Seq(Image \X (1 .. NumBlocks)) /\ Len(data) = s.BlockNum
        /\ \A i \in 1 .. s.BlockNum : data[i] = <<"new", i>>
    BY DEF IInv, FlashType, BankType, SlaveType, WrittenInv, Filling
  <2> HIDE DEF data
  <2>2. data = [i \in 1 .. s.BlockNum |-> data[i]]
    BY <2>1
  <2>3. data = [i \in 1 .. s.BlockNum |-> <<"new", i>>]
    BY <2>1, <2>2
  <2> QED
    BY <2>3 DEF data
<1> QED
  BY <1>1, AlwaysIInv, PTL

\* The pointer of FW_UPDATE_rspWaitTimer always names the only timer that may
\* run, so that a slot is always free for the next.
THEOREM OneTimerRuns == ASSUME FwUpdateAssumption PROVE Spec => []OneTimer
<1>1. IInv => OneTimer
  BY DEF IInv
<1> QED
  BY <1>1, AlwaysIInv, PTL

\* A slave that is about to change its flags.
Staged == s.State \in {"SET_FLAG", "CLEAR_FLAG"} /\ BootBank # s.bank
Staging == IF Staged THEN "new" ELSE NoImage

\* Which image runs is what the bank that boots holds.
RunningRight ==
  /\ Running \in Image /\ flash[BootBank].data = Whole(Running)
  /\ \A img \in Image : flash[BootBank].data = Whole(img) => Running = img

LEMMA RunningFact == ASSUME FwUpdateAssumption, IInv PROVE RunningRight
<1>1. Bootable # {} /\ \E img \in Image : Runs(img)
  BY DEF IInv, BootInv, NeverBricked
<1>2. Running \in Image /\ Runs(Running)
  BY <1>1 DEF Running
<1> QED
  BY <1>2, WholeFacts DEF RunningRight, Runs, Image

LEMMA RunningFactNext == ASSUME FwUpdateAssumption PROVE IInv' => RunningRight'
<1>1. IInv => RunningRight
  BY RunningFact
<1> QED
  BY <1>1, PTL

\* Every step stages the new image, commits or drops it, or changes neither.
LEMMA AtomicStep ==
  ASSUME FwUpdateAssumption, IInv, IInv', [Next]_vars
  PROVE  \/ UNCHANGED <<Running, Staging>>
         \/ Staging = NoImage /\ Staging' \in Image /\ Running' = Running
         \/ Staging # NoImage /\ Running' = Staging /\ Staging' = NoImage
         \/ Staging # NoImage /\ Staging' = NoImage /\ Running' = Running
<1>1. /\ SlaveType /\ SlaveType' /\ FlashType /\ FlashType' /\ BootInv /\ BootInv' /\ NeverBricked
      /\ s.bank \in Bank /\ BootBank \in Bank /\ BootBank' \in Bank
  <2>1. FlashType /\ FlashType' /\ BootInv /\ BootInv' /\ SlaveType /\ SlaveType' /\ NeverBricked
    BY DEF IInv, BootInv
  <2> QED
    BY <2>1 DEF SlaveType, BootBank, Bank
<1>2. NoImage \notin Image /\ "new" \in Image
  BY DEF NoImage, Image
<1>3. /\ Running \in Image /\ Running' \in Image
      /\ flash[BootBank].data = Whole(Running)
      /\ \A img \in Image : flash[BootBank].data = Whole(img) => Running = img
      /\ \A img \in Image : flash'[BootBank'].data = Whole(img) => Running' = img
  <2>1. RunningRight /\ RunningRight'
    BY RunningFact, RunningFactNext
  <2> QED
    BY <2>1 DEF RunningRight, Whole, Image
<1>4. ASSUME flash'[BootBank'] = flash[BootBank] PROVE Running' = Running
  BY <1>3, <1>4
<1>5. CASE UNCHANGED flash
  <2>1. BootBank' = BootBank /\ Running' = Running
    BY <1>4, <1>5 DEF BootBank, Bootable
  <2> QED
    BY <1>2, <2>1 DEF Staging
<1>6. ASSUME s.State \notin {"SET_FLAG", "CLEAR_FLAG"}, s'.State \notin {"SET_FLAG", "CLEAR_FLAG"},
             s.bank # BootBank, NEW bank \in BankType, ~bank.boot,
             flash' = [flash EXCEPT ![s.bank] = bank]
      PROVE  UNCHANGED <<Running, Staging>>
  <2>1. BootBank' = BootBank /\ flash'[BootBank] = flash[BootBank]
    BY <1>1, <1>6, SpareWrite
  <2> QED
    BY <1>4, <1>6, <2>1 DEF Staging, Staged
<1>7. CASE SlaveInit
  <2>1. /\ s.State = "ERASE" /\ s'.State = "IDLE" /\ s.bank # BootBank
        /\ flash' = [flash EXCEPT ![s.bank] = Erased]
    BY <1>1, <1>7 DEF SlaveInit, SlaveType, BootInv
  <2> QED
    BY <1>6, <2>1, ErasedFacts
<1>8. CASE SlaveError
  <2>1. /\ s.State = "ERROR" /\ s'.State = "OFF" /\ s.bank # BootBank
        /\ flash' = [flash EXCEPT ![s.bank] = Erased]
    BY <1>1, <1>8 DEF SlaveError, SlaveDown, SlaveOff, BootInv, Filling
  <2> QED
    BY <1>6, <2>1, ErasedFacts
<1>9. CASE SlaveAnswer
  <2> DEFINE f == Received("slave")
             bank == [flash[s.bank] EXCEPT !.data = Append(@, <<"new", f.num>>)]
  <2>1. CASE ~Repeats(s, f) /\ NextData(s, f)
    <3>1. /\ s.State = "DATA_READY" /\ s'.State \in {"DATA_READY", "END_READY"}
          /\ flash' = [flash EXCEPT ![s.bank] = bank]
      BY <1>1, <1>9, <2>1 DEF SlaveAnswer, NextData, Stepped, Reply, SlaveType
    <3>2. s.bank # BootBank /\ ~flash[s.bank].boot
      BY <1>1, <3>1 DEF BootInv, Filling, SlaveListens
    <3>3. bank = flash'[s.bank]
      BY <1>1, <3>1 DEF FlashType
    <3>4. bank \in BankType /\ ~bank.boot
      BY <1>1, <3>2, <3>3 DEF FlashType, BankType
    <3> HIDE DEF bank
    <3> QED
      BY <1>6, <3>1, <3>2, <3>4
  <2>2. CASE ~(~Repeats(s, f) /\ NextData(s, f))
    BY <1>5, <1>9, <2>2 DEF SlaveAnswer
  <2> QED
    BY <2>1, <2>2
<1>10. CASE SlaveSetFlag
  <2>1. /\ s.State = "SET_FLAG" /\ s'.State = "CLEAR_FLAG" /\ s'.bank = s.bank
        /\ s.bank # BootBank /\ flash[s.bank].data = Whole("new")
        /\ \A x \in Bank : x # s.bank => flash'[x] = flash[x]
        /\ flash'[s.bank].data = Whole("new")
    BY <1>1, <1>10 DEF SlaveSetFlag, FlagSet, SlaveType, BootInv, Filling, FlashType, BankType
  <2>2. Staging = "new"
    BY <2>1 DEF Staging, Staged
  <2>3. CASE BootBank' = s.bank
    <3>1. Staging' = NoImage /\ Running' = "new"
      BY <1>2, <1>3, <2>1, <2>3 DEF Staging, Staged
    <3> QED
      BY <1>2, <2>2, <3>1
  <2>4. CASE BootBank' # s.bank
    <3>1. BootBank' = BootBank /\ flash'[BootBank] = flash[BootBank]
      BY <1>1, <2>1, <2>4 DEF Bank
    <3>2. Staging' = "new"
      BY <2>1, <2>4 DEF Staging, Staged
    <3> QED
      BY <1>4, <2>2, <3>1, <3>2
  <2> QED
    BY <2>3, <2>4
<1>11. CASE SlaveClearFlag
  <2>1. /\ s.State = "CLEAR_FLAG" /\ s'.State = "OFF"
        /\ flash[s.bank].data = Whole("new") /\ flash[s.bank].boot
        /\ flash' = [flash EXCEPT ![1 - s.bank] = [flash[1 - s.bank] EXCEPT !.boot = FALSE]]
    BY <1>1, <1>11 DEF SlaveClearFlag, SlaveDown, SlaveOff, BootInv
  <2>2. /\ flash'[s.bank] = flash[s.bank] /\ ~flash'[1 - s.bank].boot
        /\ 1 - s.bank \in Bank /\ 1 - s.bank # s.bank /\ Bank = {s.bank, 1 - s.bank}
    <3>1. 1 - s.bank \in Bank /\ 1 - s.bank # s.bank /\ Bank = {s.bank, 1 - s.bank}
      BY <1>1 DEF Bank
    <3> QED
      BY <1>1, <2>1, <3>1 DEF FlashType, BankType
  <2>3. BootBank' = s.bank
    <3>1. Bootable' = {s.bank}
      BY <2>1, <2>2 DEF Bootable
    <3> QED
      BY <1>1, <3>1 DEF BootBank, Bank
  <2>4. Running' = "new" /\ Staging' = NoImage
    BY <1>2, <1>3, <2>1, <2>2, <2>3 DEF Staging, Staged
  <2>5. CASE BootBank = s.bank
    <3>1. Running = "new" /\ Staging = NoImage
      BY <1>2, <1>3, <2>1, <2>5 DEF Staging, Staged
    <3> QED
      BY <2>4, <3>1
  <2>6. CASE BootBank # s.bank
    <3>1. Staging = "new"
      BY <2>1, <2>6 DEF Staging, Staged
    <3> QED
      BY <1>2, <2>4, <3>1
  <2> QED
    BY <2>5, <2>6
<1>12. CASE SlaveStart \/ SlaveIdle \/ SlaveIgnore \/ SlaveCheck \/ SlaveDeadline \/ SlavePowerLoss
  BY <1>5, <1>12 DEF SlaveStart, SlaveIdle, SlaveIgnore, SlaveCheck, SlaveDeadline, SlavePowerLoss
<1>13. CASE MasterInit \/ MasterTurn \/ MasterDeadline \/ \E n \in Node : RspTimeout(n)
  BY <1>5, <1>13 DEF MasterInit, MasterTurn, MasterIdle, MasterMsg, MasterDeadline, RspTimeout
<1>14. CASE UNCHANGED vars
  BY <1>5, <1>14 DEF vars
<1> QED
  BY <1>7, <1>8, <1>9, <1>10, <1>11, <1>12, <1>13, <1>14 DEF Next, SlaveTurn

\* The slave implements the atomic update: its running image changes in one step,
\* to the new image checked before, from either bank and whenever power goes.
THEOREM Atomic == ASSUME FwUpdateAssumption PROVE Spec => ImplementsAtomicUpdate
<1>1. Init => AtomicSlave!Init
  <2> SUFFICES ASSUME Init PROVE AtomicSlave!Init
    OBVIOUS
  <2>1. Running \in Image
    BY InitIInv, RunningFact DEF RunningRight
  <2>2. ~Staged
    BY DEF Init, SlaveOff, Staged
  <2> QED
    BY <2>1, <2>2 DEF AtomicSlave!Init, Staged
<1>2. IInv /\ IInv' /\ [Next]_vars => [AtomicSlave!Next]_(AtomicSlave!vars)
  <2> SUFFICES ASSUME IInv, IInv', [Next]_vars
               PROVE  [AtomicSlave!Next]_(AtomicSlave!vars)
    OBVIOUS
  <2>1. \/ UNCHANGED <<Running, Staging>>
        \/ Staging = NoImage /\ Staging' \in Image /\ Running' = Running
        \/ Staging # NoImage /\ Running' = Staging /\ Staging' = NoImage
        \/ Staging # NoImage /\ Staging' = NoImage /\ Running' = Running
    BY AtomicStep
  <2> QED
    BY <2>1 DEF AtomicSlave!Next, AtomicSlave!Stage, AtomicSlave!Commit, AtomicSlave!Drop,
                AtomicSlave!vars, Staging, Staged
<1> QED
  BY <1>1, <1>2, AlwaysIInv, PTL DEF Spec, ImplementsAtomicUpdate, AtomicSlave!Spec
===============================================================================
