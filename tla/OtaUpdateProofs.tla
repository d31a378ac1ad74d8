--------------------------- MODULE OtaUpdateProofs ---------------------------
(***************************************************************************)
(* Proofs about OtaUpdate for every set of images, retry limit and bank.   *)
(***************************************************************************)
EXTENDS OtaUpdate, TLAPS

-----------------------------------------------------------------------------
(***************************************************************************)
(* Types                                                                   *)
(***************************************************************************)
\* An image has at least one block (OTA_MasterInit's MaxBlockNum).
LEMMA NumBlocksPositive ==
  ASSUME NEW img \in Image
  PROVE  NumBlocks(img) \in Nat /\ NumBlocks(img) >= 1
BY ImageAssumption DEF NumBlocks, BlockSize

\* The length of a block is a number, whatever its index.
LEMMA BlockLenType ==
  ASSUME NEW img \in Image, NEW blk \in Nat
  PROVE  BlockLen(img, blk) \in Int
BY ImageAssumption DEF BlockLen, BlockSize

\* The queue operations keep the queues well formed.
LEMMA PoppedType ==
  ASSUME AirTypeOK, NEW n \in Node
  PROVE  /\ Popped(n) \in [Node -> Seq(Msg)]
         /\ \A k \in Node : Len(Popped(n)[k]) <= MSG_QUEUE_LEN
         /\ \A k \in Node : k # n => Popped(n)[k] = queue[k]
         /\ Len(queue[n]) <= 1 => Popped(n)[n] = <<>>
<1>1. CASE queue[n] = <<>>
  BY <1>1 DEF AirTypeOK, Popped, MSG_QUEUE_LEN
<1>2. CASE queue[n] # <<>>
  <2>1. /\ Tail(queue[n]) \in Seq(Msg)
        /\ Len(Tail(queue[n])) = Len(queue[n]) - 1
    BY <1>2 DEF AirTypeOK
  <2>2. Len(queue[n]) <= 1 => Tail(queue[n]) = <<>>
    BY <1>2, <2>1 DEF AirTypeOK
  <2> QED
    BY <1>2, <2>1, <2>2 DEF AirTypeOK, Popped, MSG_QUEUE_LEN
<1> QED
  BY <1>1, <1>2

\* A push keeps a queue a queue and adds at most one message (OTA_MsgQueuePush).
LEMMA PushType ==
  ASSUME NEW q \in Seq(Msg), Len(q) <= MSG_QUEUE_LEN, NEW msg \in Msg
  PROVE  /\ Push(q, msg) \in Seq(Msg)
         /\ Len(Push(q, msg)) <= MSG_QUEUE_LEN
         /\ Len(Push(q, msg)) <= Len(q) + 1
BY DEF Push, MSG_QUEUE_LEN

\* What a device takes from its queue as a frame is one (OTA_MsgQueuePop).
LEMMA GotType ==
  ASSUME AirTypeOK, NEW n \in Node, HasFrame(n)
  PROVE  Got(n) \in Frame
BY DEF AirTypeOK, HasFrame, Got, Msg

\* Whatever a step does with the radio, queues and radio stay well formed.
LEMMA AirStepType ==
  ASSUME AirTypeOK, NEW n \in Node, NEW f \in Frame,
         \/ Transmit(n, Popped(n), f)
         \/ Listen(n, Popped(n))
         \/ Quiet(Popped(n))
         \/ RxTimeOut(n)
         \/ ResetAir(n)
         \/ UNCHANGED air
  PROVE  AirTypeOK'
<1> DEFINE q == Popped(n)
<1>q. /\ q \in [Node -> Seq(Msg)]
      /\ \A k \in Node : Len(q[k]) <= MSG_QUEUE_LEN
  <2>1. \A k \in Node : Len(Popped(n)[k]) <= MSG_QUEUE_LEN
    BY PoppedType
  <2>2. Popped(n) \in [Node -> Seq(Msg)]
    BY PoppedType
  <2> QED BY <2>1, <2>2
<1> HIDE DEF q
<1>1. Peer(n) \in Node
  BY DEF Peer, Node
<1>2. CASE Transmit(n, q, f)
  <2>1. radio' \in [Node -> {"idle", "rx"}]
    BY <1>1, <1>2 DEF Transmit, AirTypeOK
  <2>2. CASE queue' = q
    BY <2>1, <2>2, <1>q DEF AirTypeOK
  <2>3. ASSUME NEW msg \in {[type |-> "INVALID_DATA"],
                            [type |-> "DATA", frame |-> f]},
               queue' = [q EXCEPT ![Peer(n)] = Push(q[Peer(n)], msg)]
        PROVE  AirTypeOK'
    <3>1. msg \in Msg
      BY DEF Msg
    <3>2. q[Peer(n)] \in Seq(Msg) /\ Len(q[Peer(n)]) <= MSG_QUEUE_LEN
      BY <1>1, <1>q
    <3>3. /\ Push(q[Peer(n)], msg) \in Seq(Msg)
          /\ Len(Push(q[Peer(n)], msg)) <= MSG_QUEUE_LEN
      BY <3>1, <3>2, PushType
    <3> QED
      BY <2>1, <2>3, <3>3, <1>1, <1>q DEF AirTypeOK
  <2> QED
    BY <1>2, <2>2, <2>3 DEF Transmit
<1>3. CASE RxTimeOut(n)
  <2>1. [type |-> "TIMEOUT"] \in Msg
    BY DEF Msg
  <2>2. /\ Push(queue[n], [type |-> "TIMEOUT"]) \in Seq(Msg)
        /\ Len(Push(queue[n], [type |-> "TIMEOUT"])) <= MSG_QUEUE_LEN
    BY <2>1, PushType DEF AirTypeOK
  <2> QED
    BY <1>3, <2>2 DEF AirTypeOK, RxTimeOut
<1>4. CASE ResetAir(n)
  BY <1>4 DEF AirTypeOK, ResetAir, MSG_QUEUE_LEN
<1>5. CASE Listen(n, q) \/ Quiet(q) \/ UNCHANGED air
  BY <1>5, <1>q DEF AirTypeOK, Listen, Quiet, air
<1> QED
  BY <1>2, <1>3, <1>4, <1>5 DEF q

-----------------------------------------------------------------------------
\* A new request of the master keeps its types.
LEMMA MasterSendsType ==
  ASSUME AirTypeOK, MasterTypeOK, NEW state \in MasterStates, NEW block \in Nat,
         NEW finish \in BOOLEAN, NEW frame \in Frame, NEW arg \in Nat,
         MasterSends(state, block, finish, frame, arg)
  PROVE  AirTypeOK' /\ MasterTypeOK'
<1>1. AirTypeOK'
  BY AirStepType DEF MasterSends, Node
<1>2. MasterTypeOK'
  <2>1. frame.len \in Int
    BY DEF Frame
  <2>2. 0 \in 0..OTA_RETRY_MAX
    BY RetryAssumption
  <2> QED
    BY <2>1, <2>2 DEF MasterSends, MasterTypeOK
<1> QED
  BY <1>1, <1>2

\* While the master is in a session it has an image (OTA_MasterInit).
MasterHasImage == m.State # "OFF" => m.img \in Image

\* Every step of the master keeps the types and its image.
LEMMA MasterStepType ==
  ASSUME TypeOK, MasterHasImage, MasterStep
  PROVE  TypeOK' /\ MasterHasImage'
<1> USE DEF MasterStates, MasterWaits
<1>1. AirTypeOK /\ MasterTypeOK /\ "master" \in Node
  BY DEF TypeOK, Node
<1>2. HasFrame("master") => Got("master") \in Frame
  BY <1>1, GotType
<1>3. SlaveTypeOK'
  BY DEF TypeOK, MasterStep, SlaveTypeOK
<1>4. MasterOff \in [State: MasterStates, img: Image \cup {NoImage},
                     BlockNum: Nat, RetryTimes: 0..OTA_RETRY_MAX,
                     FinishFlag: BOOLEAN, tx: Frame, len: Int, rxArg: Nat]
  BY RetryAssumption DEF MasterOff, NoFrame, Frame, Kind
<1>5. \A arg \in Nat : HasFrame("master") => RxArg(arg, Got("master")) \in Nat
  BY <1>2 DEF RxArg, Frame
<1>6. ASSUME NEW state \in MasterWaits, NEW block \in Nat,
             NEW finish \in BOOLEAN, NEW frame \in Frame, NEW arg \in Nat,
             MasterSends(state, block, finish, frame, arg), m.State # "OFF"
      PROVE  TypeOK' /\ MasterHasImage'
  <2>1. state \in MasterStates
    OBVIOUS
  <2>2. AirTypeOK' /\ MasterTypeOK'
    BY <1>1, <1>6, <2>1, MasterSendsType
  <2>3. MasterHasImage'
    BY <1>1, <1>6 DEF MasterSends, MasterHasImage, MasterTypeOK
  <2> QED
    BY <1>3, <2>2, <2>3 DEF TypeOK
<1>7. ASSUME NEW f \in Frame,
             m.State # "OFF",
             NEW state \in MasterStates, NEW times \in 0..OTA_RETRY_MAX,
             NEW len \in Int, NEW arg \in Nat,
             m' = [m EXCEPT !.State = state, !.RetryTimes = times,
                            !.len = len, !.rxArg = arg],
             Quiet(Popped("master")) \/ Transmit("master", Popped("master"), f)
      PROVE  TypeOK' /\ MasterHasImage'
  <2>1. AirTypeOK'
    BY <1>1, <1>7, AirStepType
  <2>2. MasterTypeOK' /\ MasterHasImage'
    BY <1>1, <1>7 DEF MasterTypeOK, MasterHasImage
  <2> QED
    BY <1>3, <2>1, <2>2 DEF TypeOK
<1>8. CASE MasterInit
  <2>1. MasterTypeOK' /\ MasterHasImage'
    BY <1>4, <1>8 DEF MasterInit, MasterTypeOK, MasterHasImage, MasterOff
  <2>2. AirTypeOK'
    BY <1>1, <1>8, AirStepType, <1>4 DEF MasterInit, MasterOff
  <2> QED
    BY <1>3, <2>1, <2>2 DEF TypeOK
<1>9. CASE MasterReboot \/ MasterPowerLoss
  <2>1. MasterTypeOK' /\ MasterHasImage'
    BY <1>4, <1>9 DEF MasterReboot, MasterPowerLoss, MasterTypeOK,
                      MasterHasImage, MasterOff
  <2>2. AirTypeOK'
    BY <1>1, <1>9, <1>4, AirStepType DEF MasterReboot, MasterPowerLoss, MasterOff
  <2> QED
    BY <1>3, <2>1, <2>2 DEF TypeOK
<1>10. CASE MasterIdle
  BY <1>1, <1>6, <1>10 DEF MasterIdle, MasterTypeOK, BareCmdFrame, Frame, Kind
<1>11. CASE MasterDeadline
  <2>1. m' = [m EXCEPT !.State = "ERROR", !.RetryTimes = m.RetryTimes,
                       !.len = m.len, !.rxArg = m.rxArg]
    BY <1>1, <1>11 DEF MasterDeadline, MasterTypeOK
  <2>2. /\ m.RetryTimes \in 0..OTA_RETRY_MAX /\ m.len \in Int /\ m.rxArg \in Nat
        /\ m.State # "OFF" /\ m.tx \in Frame
    BY <1>1, <1>11 DEF MasterDeadline, MasterTypeOK
  <2>3. Quiet(Popped("master"))
    BY <1>11 DEF MasterDeadline
  <2> QED
    BY <1>7, <2>1, <2>2, <2>3
<1>12. CASE MasterVersionRsp
  <2> DEFINE version == RxArg(m.rxArg, Got("master"))
  <2>1. /\ m.State # "OFF" /\ HasFrame("master")
        /\ version \in Nat /\ Got("master") \in Frame /\ Got("master").len \in Int
        /\ m.img \in Image /\ m.tx \in Frame
    BY <1>1, <1>2, <1>5, <1>12
       DEF MasterVersionRsp, MasterAnswered, MasterTypeOK, MasterHasImage, Frame
  <2>2. CASE MasterSends("START_RSP_WAIT", m.BlockNum, m.FinishFlag,
                         CmdFrame("START_REQ", NumBlocks(m.img), 2), version)
    <3>1. CmdFrame("START_REQ", NumBlocks(m.img), 2) \in Frame
      BY <2>1, NumBlocksPositive DEF CmdFrame, Frame, Kind
    <3> QED
      BY <1>1, <1>6, <2>1, <2>2, <3>1 DEF MasterTypeOK
  <2>3. CASE m' = [m EXCEPT !.State = "ERROR", !.RetryTimes = 0,
                            !.len = Got("master").len, !.rxArg = version]
             /\ Quiet(Popped("master"))
    <3>1. 0 \in 0..OTA_RETRY_MAX
      BY RetryAssumption
    <3> QED
      BY <1>7, <2>1, <2>3, <3>1
  <2> QED
    BY <1>12, <2>2, <2>3 DEF MasterVersionRsp
<1>13. ASSUME MasterSendsBlock, MasterAnswered, m.State # "OFF"
       PROVE  TypeOK' /\ MasterHasImage'
  <2>1. /\ HasFrame("master") /\ m.img \in Image /\ m.BlockNum + 1 \in Nat
        /\ RxArg(m.rxArg, Got("master")) \in Nat
    BY <1>1, <1>5, <1>13 DEF MasterAnswered, MasterTypeOK, MasterHasImage
  <2>2. DataFrame(m.img, m.BlockNum + 1) \in Frame
    BY <2>1, BlockLenType DEF DataFrame, Frame, Kind
  <2> DEFINE last == \/ m.FinishFlag
                     \/ BinSize[m.img] - m.BlockNum * BlockSize <= BlockSize
  <2>3. last \in BOOLEAN
    BY <1>1 DEF MasterTypeOK
  <2>4. MasterSends("DATA_ACK_WAIT", m.BlockNum + 1, last,
                    DataFrame(m.img, m.BlockNum + 1),
                    RxArg(m.rxArg, Got("master")))
    BY <1>13 DEF MasterSendsBlock
  <2> QED
    BY <1>6, <1>13, <2>1, <2>2, <2>3, <2>4
<1>14. CASE MasterStartRsp
  BY <1>13, <1>14 DEF MasterStartRsp
<1>15. CASE MasterDataAck
  <2>1. CASE MasterSendsBlock
    BY <1>13, <1>15, <2>1 DEF MasterDataAck
  <2>2. CASE MasterSends("END_RSP_WAIT", m.BlockNum, m.FinishFlag,
                         CmdFrame("END_REQ", BinSize[m.img], 4),
                         RxArg(m.rxArg, Got("master")))
    <3>1. /\ m.State # "OFF" /\ m.img \in Image
          /\ RxArg(m.rxArg, Got("master")) \in Nat
      BY <1>1, <1>5, <1>15
         DEF MasterDataAck, MasterAnswered, MasterTypeOK, MasterHasImage
    <3>2. CmdFrame("END_REQ", BinSize[m.img], 4) \in Frame
      BY <3>1, ImageAssumption DEF CmdFrame, Frame, Kind
    <3> QED
      BY <1>1, <1>6, <2>2, <3>1, <3>2 DEF MasterTypeOK
  <2> QED
    BY <1>15, <2>1, <2>2 DEF MasterDataAck
<1>16. CASE MasterEndRsp
  <2>1. /\ m.State # "OFF" /\ Got("master") \in Frame /\ Got("master").len \in Int
        /\ RxArg(m.rxArg, Got("master")) \in Nat
    BY <1>1, <1>2, <1>5, <1>16 DEF MasterEndRsp, MasterAnswered, MasterTypeOK, Frame
  <2>2. 0 \in 0..OTA_RETRY_MAX
    BY RetryAssumption
  <2> QED
    BY <1>7, <1>16, <2>1, <2>2 DEF MasterEndRsp
<1>17. CASE MasterRetry
  <2>1. /\ m.State # "OFF" /\ m.State \in MasterStates /\ m.len \in Int
        /\ m.RetryTimes \in 0..OTA_RETRY_MAX /\ m.tx \in Frame /\ m.rxArg \in Nat
        /\ HasFrame("master") => Got("master").len \in Int
    BY <1>1, <1>2, <1>17, SMTT(40) DEF MasterRetry, MasterTypeOK, Frame
  <2>2. PICK n \in Int, a \in Nat :
          \/ /\ RetriesLeft(m.RetryTimes)
             /\ m' = [m EXCEPT !.RetryTimes = @ + 1, !.len = n, !.rxArg = a]
             /\ Transmit("master", Popped("master"), [m.tx EXCEPT !.len = n])
          \/ /\ m' = [m EXCEPT !.State = "ERROR", !.len = n, !.rxArg = a]
             /\ Quiet(Popped("master"))
    BY <1>5, <1>17, <2>1 DEF MasterRetry
  <2>3. n \in Int /\ a \in Nat /\ [m.tx EXCEPT !.len = n] \in Frame
    BY <2>1, <2>2 DEF Frame
  <2>4. CASE /\ RetriesLeft(m.RetryTimes)
             /\ m' = [m EXCEPT !.RetryTimes = @ + 1, !.len = n, !.rxArg = a]
             /\ Transmit("master", Popped("master"), [m.tx EXCEPT !.len = n])
    <3>1. m.RetryTimes + 1 \in 0..OTA_RETRY_MAX
      BY <2>1, <2>4, RetryAssumption DEF RetriesLeft
    <3>2. m' = [m EXCEPT !.State = m.State, !.RetryTimes = m.RetryTimes + 1,
                         !.len = n, !.rxArg = a]
      BY <1>1, <2>4 DEF MasterTypeOK
    <3>3. m.State # "OFF" /\ m.State \in MasterStates /\ n \in Int /\ a \in Nat
      BY <2>1, <2>3
    <3>4. \E f \in Frame : Transmit("master", Popped("master"), f)
      BY <2>3, <2>4
    <3> QED
      BY <1>7, <3>1, <3>2, <3>3, <3>4
  <2>5. CASE /\ m' = [m EXCEPT !.State = "ERROR", !.len = n, !.rxArg = a]
             /\ Quiet(Popped("master"))
    <3>1. m' = [m EXCEPT !.State = "ERROR", !.RetryTimes = m.RetryTimes,
                         !.len = n, !.rxArg = a]
      BY <1>1, <2>5 DEF MasterTypeOK
    <3>2. m.State # "OFF" /\ m.RetryTimes \in 0..OTA_RETRY_MAX /\ "ERROR" \in MasterStates
      BY <2>1
    <3>3. Quiet(Popped("master")) /\ n \in Int /\ a \in Nat /\ m.tx \in Frame
      BY <2>1, <2>3, <2>5
    <3> QED
      BY <1>7, <3>1, <3>2, <3>3
  <2> QED
    BY <2>2, <2>4, <2>5
<1> QED
  BY <1>8, <1>9, <1>10, <1>11, <1>12, <1>14, <1>15, <1>16, <1>17
     DEF MasterStep, MasterPoll

-----------------------------------------------------------------------------
(***************************************************************************)
(* The boot flags.  NeverBricked is not inductive: it needs that the slave *)
(* writes only the bank it did not start from, whose flag stays erased     *)
(* until a whole image is in it, and that the old bank stays bootable      *)
(* until the new one is.                                                   *)
(***************************************************************************)
Whole(bk) == \E img \in Image : Holds(bk, img)

InSession == {"IDLE", "END", "SET_FLAG", "ERROR"} \cup SlaveListens

BootInv ==
  /\ NeverBricked
  /\ s.State = "APP" => s.run = BootBank
  /\ s.State \in InSession => /\ s.run = BootBank
                              /\ s.bank = 1 - s.run
                              /\ flash[s.bank].flag = "erased"
  /\ s.State = "SET_FLAG" => Whole(flash[s.bank])
  /\ s.State = "CLEAR_FLAG" => /\ s.run = 1 - s.bank
                               /\ \A b \in Bank : /\ flash[b].flag = "set"
                                                  /\ Whole(flash[b])

IInv == TypeOK /\ MasterHasImage /\ BootInv

\* Which bank the boot ROM starts, spelt out.
LEMMA BootBankFact ==
  /\ BootBank = IF flash[0].flag = "set" THEN 0 ELSE 1
  /\ BootBank \in Bank
  /\ Bootable # {} <=> \E b \in Bank : flash[b].flag = "set"
BY DEF BootBank, Bootable, Bank

\* A bank whose cells stay as they were holds what it held.
LEMMA SameCells ==
  ASSUME NEW bk, NEW bk2, bk2.cell = bk.cell, Whole(bk)
  PROVE  Whole(bk2)
BY DEF Whole, Holds

\* A write to the spare bank that leaves its flag erased changes neither the
\* bank the device starts nor what is in it.
LEMMA SpareWrite ==
  ASSUME SlaveTypeOK, NeverBricked, NEW b \in Bank, b # BootBank,
         NEW bk, bk.flag = "erased", flash' = [flash EXCEPT ![b] = bk]
  PROVE  /\ BootBank' = BootBank
         /\ NeverBricked'
         /\ flash'[b] = bk
<1>1. BootBank \in Bank /\ flash[BootBank].flag = "set"
  BY BootBankFact DEF NeverBricked, Bank
<1>2. /\ flash'[b] = bk
      /\ \A c \in Bank : c # b => flash'[c] = flash[c]
  BY DEF SlaveTypeOK
<1>3. BootBank' = BootBank
  BY <1>1, <1>2, BootBankFact DEF BootBank, Bootable, Bank
<1>4. Bootable' # {}
  BY <1>1, <1>2 DEF Bootable
<1>5. flash'[BootBank'] = flash[BootBank]
  BY <1>1, <1>2, <1>3
<1>6. NeverBricked'
  BY <1>4, <1>5 DEF NeverBricked, Holds
<1> QED
  BY <1>2, <1>3, <1>6

\* In a session the bank written is the spare one.
LEMMA SessionBank ==
  ASSUME SlaveTypeOK, BootInv, s.State \in InSession
  PROVE  s.bank \in Bank /\ s.bank # BootBank /\ NeverBricked
BY BootBankFact DEF BootInv, SlaveTypeOK, Bank

\* Any other step of a session: the flash stays, and so do the banks.
LEMMA SessionStays ==
  ASSUME BootInv, UNCHANGED flash, s.State \in InSession,
         s'.State \in InSession, s'.run = s.run, s'.bank = s.bank,
         s'.State = "SET_FLAG" => Whole(flash[s.bank])
  PROVE  BootInv'
<1>1. BootBank' = BootBank /\ NeverBricked'
  BY DEF BootInv, BootBank, Bootable, NeverBricked, Holds
<1>2. s'.State # "APP" /\ s'.State # "CLEAR_FLAG"
  BY DEF InSession, SlaveListens
<1> QED
  BY <1>1, <1>2 DEF BootInv, Whole, Holds

\* A device that is off only needs to be bootable.
LEMMA OffIsSafe ==
  ASSUME s' = SlaveOff, NeverBricked'
  PROVE  BootInv'
BY DEF BootInv, SlaveOff, InSession, SlaveListens

\* What a session writes into the spare bank leaves the bank's flag erased.
LEMMA SpareFlags ==
  ASSUME SlaveTypeOK, s.State \in InSession, BootInv, NEW i, NEW piece, NEW n \in Nat
  PROVE  /\ WriteCell(flash[s.bank], i, piece).flag = "erased"
         /\ EraseCells(flash[s.bank], n).flag = "erased"
         /\ [flash[s.bank] EXCEPT !.cell[i] = piece].flag = "erased"
         /\ OTA_FlashErase(flash[s.bank]).flag = "erased"
<1>1. flash[s.bank].flag = "erased" /\ s.bank \in Bank
  BY DEF BootInv, SlaveTypeOK
<1>2. flash[s.bank] \in [flag: Flag, cell: [Cells -> Piece \cup {Erased, Garbage}]]
  BY <1>1 DEF SlaveTypeOK
<1> QED
  BY <1>1, <1>2 DEF WriteCell, EraseCells, OTA_FlashErase

\* The two steps that change a boot flag, and the two that choose a bank.
LEMMA FlagSteps ==
  ASSUME SlaveTypeOK, BootInv,
         \/ SlaveBoot
         \/ OTA_SlaveInit
         \/ SlaveSetNextBootFlag
         \/ SlaveClearCurrentBootFlag
  PROVE  BootInv'
<1> USE BootBankFact DEF Bank
<1>1. CASE SlaveBoot
  <2>1. s'.State = "APP" /\ s'.run = BootBank /\ flash' = flash
    BY <1>1 DEF SlaveBoot, SlaveOff
  <2>2. BootBank' = BootBank /\ NeverBricked'
    BY <2>1 DEF BootInv, BootBank, Bootable, NeverBricked, Holds
  <2> QED
    BY <2>1, <2>2 DEF BootInv, InSession, SlaveListens
<1>2. CASE OTA_SlaveInit
  <2> DEFINE target == IF flash[0].flag = "set" THEN 1 ELSE 0
  <2>1. /\ target = 1 - BootBank /\ target \in Bank /\ s.run = BootBank
        /\ flash[BootBank].flag = "set" /\ Whole(flash[BootBank])
    BY <1>2 DEF OTA_SlaveInit, BootInv, NeverBricked, Whole
  <2>2. /\ s'.State = "IDLE" /\ s'.bank = target /\ s'.run = s.run
        /\ flash' = [flash EXCEPT ![target] = OTA_FlashErase(flash[target])]
    BY <1>2 DEF OTA_SlaveInit, SlaveTypeOK
  <2> HIDE DEF target
  <2>3. OTA_FlashErase(flash[target]).flag = "erased"
    BY SlaveAssumption DEF OTA_FlashErase, EraseCells
  <2>4. /\ BootBank' = BootBank /\ NeverBricked'
        /\ flash'[target].flag = "erased"
    <3>1. target # BootBank /\ NeverBricked
      BY <2>1 DEF BootInv
    <3>2. flash' = [flash EXCEPT ![target] = OTA_FlashErase(flash[target])]
      BY <2>2
    <3> QED
      BY <2>1, <2>3, <3>1, <3>2, SpareWrite
  <2> QED
    BY <2>1, <2>2, <2>4 DEF BootInv
<1>3. CASE SlaveSetNextBootFlag
  <2>1. /\ s.State = "SET_FLAG" /\ s.State \in InSession /\ s.bank \in Bank
        /\ s.run = BootBank /\ s.bank = 1 - s.run
        /\ flash[s.bank].flag = "erased" /\ Whole(flash[s.bank])
        /\ flash[BootBank].flag = "set" /\ Whole(flash[BootBank])
    BY <1>3 DEF SlaveSetNextBootFlag, InSession, BootInv, NeverBricked, Whole,
                SlaveTypeOK
  <2>2. /\ s'.State = "CLEAR_FLAG" /\ s'.bank = s.bank /\ s'.run = s.run
        /\ flash' = [flash EXCEPT ![s.bank] = SetFlag(flash[s.bank])]
    BY <1>3 DEF SlaveSetNextBootFlag, SlaveTypeOK
  <2>3. /\ flash'[s.bank] = SetFlag(flash[s.bank])
        /\ \A b \in Bank : b # s.bank => flash'[b] = flash[b]
    BY <2>1, <2>2 DEF SlaveTypeOK
  <2>4. flash'[s.bank].flag = "set" /\ flash'[s.bank].cell = flash[s.bank].cell
    BY <2>1, <2>3 DEF SetFlag, SlaveTypeOK
  <2>5. \A b \in Bank : flash'[b].flag = "set" /\ Whole(flash'[b])
    BY <2>1, <2>3, <2>4, SameCells
  <2>6. BootBank' = 0 /\ Bootable' # {}
    BY <2>5 DEF BootBank, Bootable
  <2>7. NeverBricked'
    BY <2>5, <2>6 DEF NeverBricked, Whole, Holds
  <2> QED
    BY <2>1, <2>2, <2>5, <2>7 DEF BootInv, InSession, SlaveListens, Whole, Holds
<1>4. CASE SlaveClearCurrentBootFlag
  <2>1. /\ s.State = "CLEAR_FLAG" /\ s.bank \in Bank /\ 1 - s.bank \in Bank
        /\ \A b \in Bank : flash[b].flag = "set" /\ Whole(flash[b])
    BY <1>4 DEF SlaveClearCurrentBootFlag, BootInv, SlaveTypeOK
  <2>2. flash' = [flash EXCEPT ![1 - s.bank] = ClearFlag(flash[1 - s.bank])]
    BY <1>4 DEF SlaveClearCurrentBootFlag, SlaveTypeOK
  <2>3. /\ flash'[1 - s.bank] = ClearFlag(flash[1 - s.bank])
        /\ flash'[s.bank] = flash[s.bank]
    BY <2>1, <2>2 DEF SlaveTypeOK
  <2>4. flash'[1 - s.bank].flag = "cleared"
    BY <2>1, <2>3 DEF ClearFlag, SlaveTypeOK
  <2>5. BootBank' = s.bank /\ Bootable' # {}
    BY <2>1, <2>3, <2>4 DEF BootBank, Bootable
  <2>6. NeverBricked'
    BY <2>1, <2>3, <2>5 DEF NeverBricked, Whole, Holds
  <2> QED
    BY <1>4, <2>6, OffIsSafe DEF SlaveClearCurrentBootFlag, ResetSlave
<1> QED
  BY <1>1, <1>2, <1>3, <1>4

\* Every other step of the slave.
LEMMA SlaveStepBoot ==
  ASSUME TypeOK, BootInv, SlaveStep
  PROVE  BootInv'
<1>1. SlaveTypeOK
  BY DEF TypeOK
<1>2. ASSUME UNCHANGED flash, s.State \in SlaveListens \cup {"IDLE", "END"},
             s'.run = s.run, s'.bank = s.bank,
             s'.State \in SlaveListens \cup {"END", "ERROR"}
      PROVE  BootInv'
  BY <1>2, SessionStays DEF InSession, SlaveListens
<1>3. CASE SlaveIdle
  BY <1>1, <1>2, <1>3 DEF SlaveIdle, SlaveTypeOK, SlaveListens
<1>4. CASE SlaveDeadline
  BY <1>1, <1>2, <1>4 DEF SlaveDeadline, SlaveTypeOK, SlaveListens
<1>5. ASSUME NEW state \in SlaveListens \cup {"END"}, NEW max, NEW frame, NEW f,
             SlaveAnswers(state, max, frame, f), s.State \in SlaveListens
      PROVE  BootInv'
  BY <1>1, <1>2, <1>5 DEF SlaveAnswers, SlaveTypeOK
<1>6. ASSUME NEW f, SlaveAnswersAgain(f), s.State \in SlaveListens
      PROVE  BootInv'
  BY <1>1, <1>2, <1>6 DEF SlaveAnswersAgain, SlaveTypeOK
<1>7. CASE SlaveVersionReq \/ SlaveStartReq
  BY <1>5, <1>7 DEF SlaveVersionReq, SlaveStartReq, SlaveGot, SlaveListens
<1>8. CASE SlaveVersionReqAgain \/ SlaveStartReqAgain \/ SlaveDataAgain
  BY <1>6, <1>8 DEF SlaveVersionReqAgain, SlaveStartReqAgain, SlaveDataAgain,
                    SlaveGot, SlaveListens
<1>9. CASE SlaveEndReq
  BY <1>1, <1>2, <1>5, <1>9 DEF SlaveEndReq, SlaveGot, SlaveListens, SlaveTypeOK
<1>10. CASE SlaveRetry
  BY <1>1, <1>2, <1>10 DEF SlaveRetry, SlaveTypeOK
<1>11. CASE SlaveVerify
  <2>1. CrcMatches => Whole(flash[s.bank])
    BY DEF CrcMatches, Whole
  <2>2. /\ s.State \in InSession /\ s'.State \in InSession /\ UNCHANGED flash
        /\ s'.run = s.run /\ s'.bank = s.bank
        /\ s'.State = "SET_FLAG" => CrcMatches
    BY <1>1, <1>11 DEF SlaveVerify, SlaveTypeOK, InSession
  <2> QED
    BY <2>1, <2>2, SessionStays
<1>12. CASE SlaveData
  <2>1. /\ s.State = "DATA_READY" /\ s.State \in InSession
        /\ s'.State \in {"DATA_READY", "END_READY"}
        /\ s'.run = s.run /\ s'.bank = s.bank
    BY <1>1, <1>12 DEF SlaveData, SlaveNextBlock, SlaveGot, SlaveTypeOK, InSession,
                       SlaveListens
  <2>2. flash' = [flash EXCEPT ![s.bank] =
                    WriteCell(flash[s.bank], WriteIndex, Received)]
    BY <1>1, <1>12 DEF SlaveData, SlaveTypeOK
  <2>3. /\ BootBank' = BootBank /\ NeverBricked'
        /\ flash'[s.bank].flag = "erased"
    <3>1. s.bank \in Bank /\ s.bank # BootBank /\ NeverBricked
      BY <1>1, <2>1, SessionBank
    <3>2. WriteCell(flash[s.bank], WriteIndex, Received).flag = "erased"
      BY <1>1, <2>1, SpareFlags
    <3> QED
      BY <1>1, <2>2, <3>1, <3>2, SpareWrite
  <2> QED
    BY <2>1, <2>3 DEF BootInv, InSession, SlaveListens
<1>13. CASE SlavePowerLoss
  <2>1. s' = SlaveOff /\ NeverBricked'
    BY <1>13 DEF SlavePowerLoss, ResetSlave, BootInv, NeverBricked, BootBank,
                 Bootable, Holds
  <2> QED
    BY <2>1, OffIsSafe
<1>14. ASSUME NEW bk, bk.flag = "erased", s.State \in InSession, s' = SlaveOff,
              flash' = [flash EXCEPT ![s.bank] = bk]
       PROVE  BootInv'
  BY <1>1, <1>14, SessionBank, SpareWrite, OffIsSafe
<1>15. CASE SlaveError
  <2>1. /\ s.State \in InSession /\ s' = SlaveOff
        /\ flash' = [flash EXCEPT ![s.bank] = OTA_FlashErase(flash[s.bank])]
    BY <1>1, <1>15 DEF SlaveError, ResetSlave, InSession, SlaveTypeOK
  <2> QED
    BY <1>1, <1>14, <2>1, SpareFlags
<1>16. CASE SlaveTornWrite
  <2> DEFINE piece == IF flash[s.bank].cell[WriteIndex] = Received THEN Received
                      ELSE Garbage
             bk == [flash[s.bank] EXCEPT !.cell[WriteIndex] = piece]
  <2>1. /\ s.State \in InSession /\ s' = SlaveOff
        /\ flash' = [flash EXCEPT ![s.bank] = bk]
    BY <1>1, <1>16 DEF SlaveTornWrite, SlaveNextBlock, SlaveGot, ResetSlave,
                       InSession, SlaveListens, SlaveTypeOK
  <2>2. bk.flag = "erased"
    BY <1>1, <2>1, SpareFlags
  <2> QED
    BY <1>14, <2>1, <2>2
<1>17. CASE SlaveTornErase
  <2>1. PICK bank \in Bank, n \in 1..(ErasedBlocks - 1) :
          /\ flash' = [flash EXCEPT ![bank] = EraseCells(flash[bank], n)]
          /\ bank # BootBank
    <3>1. CASE s.State = "APP"
      <4> DEFINE target == IF flash[0].flag = "set" THEN 1 ELSE 0
      <4>1. target \in Bank /\ target # BootBank
        BY BootBankFact DEF Bank
      <4>2. \E n \in 1..(ErasedBlocks - 1) :
              flash' = [flash EXCEPT ![target] = EraseCells(flash[target], n)]
        BY <1>1, <1>17, <3>1 DEF SlaveTornErase, SlaveTypeOK
      <4> QED
        BY <4>1, <4>2
    <3>2. CASE s.State = "ERROR"
      BY <1>1, <1>17, <3>2, SessionBank DEF SlaveTornErase, SlaveTypeOK, InSession
    <3> QED
      BY <1>17, <3>1, <3>2 DEF SlaveTornErase
  <2>2. EraseCells(flash[bank], n).flag = "erased"
    BY <2>1, SlaveAssumption DEF EraseCells
  <2>3. NeverBricked'
    BY <1>1, <2>1, <2>2, SpareWrite DEF BootInv
  <2> QED
    BY <1>17, <2>3, OffIsSafe DEF SlaveTornErase, ResetSlave
<1> QED
  BY <1>1, <1>3, <1>4, <1>7, <1>8, <1>9, <1>10, <1>11, <1>12, <1>13, <1>15, <1>16,
     <1>17, FlagSteps DEF SlaveStep, SlavePoll

-----------------------------------------------------------------------------
\* The version the slave answers with is that of the image it runs.
LEMMA RunningVersionType ==
  ASSUME SlaveTypeOK, BootInv, s.State \in InSession
  PROVE  RunningVersion \in Nat
<1>1. PICK img \in Image : Holds(flash[s.run], img)
  BY DEF BootInv, NeverBricked
<1>2. flash[s.run].cell[1] = Block(img, 1)
  BY <1>1, NumBlocksPositive DEF Holds
<1>3. flash[s.run].cell[1][1] = img
  BY <1>2 DEF Block
<1> QED
  BY <1>3, ImageAssumption DEF RunningVersion

BankType == [flag: Flag, cell: [Cells -> Piece \cup {Erased, Garbage}]]

\* Writing a block keeps a bank a bank, whole or torn.
LEMMA WriteTypes ==
  ASSUME NEW bk \in BankType, NEW i, NEW piece \in Piece
  PROVE  /\ WriteCell(bk, i, piece) \in BankType
         /\ [bk EXCEPT !.cell[i] = IF @ = piece THEN @ ELSE Garbage] \in BankType
<1>1. WriteCell(bk, i, piece) \in BankType
  BY DEF WriteCell, BankType
<1>2. [bk EXCEPT !.cell[i] = IF @ = piece THEN @ ELSE Garbage] \in BankType
  BY DEF BankType
<1> QED
  BY <1>1, <1>2

\* So does an erase, whole or torn.
LEMMA EraseTypes ==
  ASSUME NEW bk \in BankType
  PROVE  /\ \A n \in Nat : EraseCells(bk, n) \in BankType
         /\ OTA_FlashErase(bk) \in BankType
BY DEF EraseCells, OTA_FlashErase, BankType, Flag

\* So does a write of the boot flag.
LEMMA FlagTypes ==
  ASSUME NEW bk \in BankType
  PROVE  SetFlag(bk) \in BankType /\ ClearFlag(bk) \in BankType
BY DEF SetFlag, ClearFlag, BankType, Flag

\* What a step of a session may assign.
LEMMA SlaveFields ==
  ASSUME SlaveTypeOK, UNCHANGED flash, NEW state \in SlaveStates, NEW max \in Nat,
         NEW times \in 0..OTA_RETRY_MAX, NEW tx \in Frame, NEW len \in Int,
         NEW arg \in Nat,
         s' = [s EXCEPT !.State = state, !.MaxBlockNum = max, !.RetryTimes = times,
                        !.tx = tx, !.len = len, !.rxArg = arg]
  PROVE  SlaveTypeOK'
BY DEF SlaveTypeOK

\* A slave that was reset, or has just booted, is well typed.
LEMMA SlaveOffType ==
  ASSUME s' = SlaveOff \/ s' = [SlaveOff EXCEPT !.State = "APP", !.run = BootBank],
         flash' \in [Bank -> BankType]
  PROVE  SlaveTypeOK'
<1> DEFINE Off(state, run) ==
      [State |-> state, run |-> run, bank |-> 0, BlockNum |-> 0, MaxBlockNum |-> 0,
       TotalBinSize |-> 0, PktCRC |-> <<>>, RetryTimes |-> 0, tx |-> NoFrame,
       len |-> 0, rxArg |-> 0]
<1>1. NoFrame \in Frame /\ 0 \in 0..OTA_RETRY_MAX
  BY RetryAssumption DEF NoFrame, Frame, Kind
<1>2. {"OFF", "APP"} \subseteq SlaveStates /\ 0 \in Bank /\ BootBank \in Bank
  BY BootBankFact DEF SlaveStates, Bank
<1>3. <<>> \in Seq(Piece)
  OBVIOUS
<1>4. s' = Off("OFF", 0) \/ s' = Off("APP", BootBank)
  BY DEF SlaveOff
<1>5. \A state \in SlaveStates, run \in Bank :
        Off(state, run) \in
          [State: SlaveStates, run: Bank, bank: Bank, BlockNum: Nat,
           MaxBlockNum: Nat, TotalBinSize: Int, PktCRC: Seq(Piece),
           RetryTimes: 0..OTA_RETRY_MAX, tx: Frame, len: Int, rxArg: Nat]
  BY <1>1, <1>2, <1>3
<1>6. s' \in [State: SlaveStates, run: Bank, bank: Bank, BlockNum: Nat,
              MaxBlockNum: Nat, TotalBinSize: Int, PktCRC: Seq(Piece),
              RetryTimes: 0..OTA_RETRY_MAX, tx: Frame, len: Int, rxArg: Nat]
  <2>1. CASE s' = Off("OFF", 0)
    BY <1>2, <1>5, <2>1
  <2>2. CASE s' = Off("APP", BootBank)
    BY <1>2, <1>5, <2>2
  <2> QED
    BY <1>4, <2>1, <2>2
<1> QED
  BY <1>6 DEF SlaveTypeOK, BankType

\* Every step of the slave keeps the types; that the version it answers with is
\* a number needs the boot invariant.
LEMMA SlaveStepType ==
  ASSUME TypeOK, BootInv, SlaveStep
  PROVE  TypeOK'
<1>1. AirTypeOK /\ SlaveTypeOK /\ MasterTypeOK /\ "slave" \in Node
  BY DEF TypeOK, Node
<1>2. HasFrame("slave") => Got("slave") \in Frame /\ Got("slave").len \in Int
  BY <1>1, GotType DEF Frame
<1>3. \A arg \in Nat : HasFrame("slave") => RxArg(arg, Got("slave")) \in Nat
  BY <1>2 DEF RxArg, Frame
<1>4. MasterTypeOK'
  BY <1>1 DEF SlaveStep, MasterTypeOK
<1>5. flash \in [Bank -> BankType]
  BY <1>1 DEF SlaveTypeOK, BankType
<1>6. /\ s.State \in SlaveStates /\ s.MaxBlockNum \in Nat /\ s.tx \in Frame
      /\ s.RetryTimes \in 0..OTA_RETRY_MAX /\ s.len \in Int /\ s.rxArg \in Nat
      /\ s.bank \in Bank
  BY <1>1 DEF SlaveTypeOK
<1>7. 0 \in 0..OTA_RETRY_MAX /\ SlaveListens \subseteq SlaveStates
  BY RetryAssumption DEF SlaveStates
<1>8. ASSUME NEW f \in Frame,
             \/ Transmit("slave", Popped("slave"), f)
             \/ Listen("slave", Popped("slave"))
             \/ Quiet(Popped("slave"))
             \/ ResetAir("slave")
             \/ UNCHANGED air
      PROVE  AirTypeOK'
  BY <1>1, <1>8, AirStepType
<1>9. NoFrame \in Frame
  BY DEF NoFrame, Frame, Kind
<1>10. ASSUME NEW bk \in BankType, NEW b \in Bank, ResetSlave,
              flash' = [flash EXCEPT ![b] = bk] \/ UNCHANGED flash
       PROVE  TypeOK'
  <2>1. flash' \in [Bank -> BankType]
    BY <1>5, <1>10
  <2> QED
    BY <1>4, <1>8, <1>9, <1>10, <2>1, SlaveOffType DEF ResetSlave, TypeOK
<1>11. CASE SlaveBoot
  BY <1>4, <1>5, <1>8, <1>9, <1>11, SlaveOffType DEF SlaveBoot, TypeOK
<1>12. CASE OTA_SlaveInit
  <2> DEFINE target == IF flash[0].flag = "set" THEN 1 ELSE 0
  <2>1. /\ target \in Bank /\ OTA_FlashErase(flash[target]) \in BankType
    <3>1. target \in Bank
      BY DEF Bank
    <3>2. flash[target] \in BankType
      BY <1>5, <3>1
    <3> HIDE DEF target
    <3> QED
      BY <3>1, <3>2, EraseTypes
  <2>2. /\ s' = [s EXCEPT !.State = "IDLE", !.bank = target]
        /\ flash' = [flash EXCEPT ![target] = OTA_FlashErase(flash[target])]
        /\ UNCHANGED air
    BY <1>1, <1>12 DEF OTA_SlaveInit, SlaveTypeOK
  <2> HIDE DEF target
  <2>3. SlaveTypeOK'
    <3>1. "IDLE" \in SlaveStates
      BY DEF SlaveStates
    <3>2. flash' \in [Bank -> BankType]
      BY <1>5, <2>1, <2>2
    <3> QED
      BY <1>1, <2>1, <2>2, <3>1, <3>2 DEF SlaveTypeOK, BankType
  <2> QED
    BY <1>4, <1>8, <1>9, <2>2, <2>3 DEF TypeOK
<1>13. ASSUME UNCHANGED flash, NEW state \in SlaveStates, NEW max \in Nat,
              NEW times \in 0..OTA_RETRY_MAX, NEW tx \in Frame, NEW len \in Int,
              NEW arg \in Nat, NEW f \in Frame,
              s' = [s EXCEPT !.State = state, !.MaxBlockNum = max,
                             !.RetryTimes = times, !.tx = tx, !.len = len,
                             !.rxArg = arg],
              \/ Transmit("slave", Popped("slave"), f)
              \/ Listen("slave", Popped("slave"))
              \/ Quiet(Popped("slave"))
       PROVE  TypeOK'
  <2>1. SlaveTypeOK'
    BY <1>1, <1>13, SlaveFields
  <2> QED
    BY <1>4, <1>8, <1>13, <2>1 DEF TypeOK
<1>14. ASSUME NEW state \in SlaveStates, UNCHANGED flash,
              s' = [s EXCEPT !.State = state],
              \/ Listen("slave", Popped("slave"))
              \/ Quiet(Popped("slave"))
       PROVE  TypeOK'
  <2>1. SlaveTypeOK'
    BY <1>1, <1>14 DEF SlaveTypeOK
  <2> QED
    BY <1>4, <1>8, <1>9, <1>14, <2>1 DEF TypeOK
<1>15. CASE SlaveIdle \/ SlaveDeadline \/ SlaveVerify
  <2>1. {"FW_VERSION_READY", "ERROR", "SET_FLAG"} \subseteq SlaveStates
    BY DEF SlaveStates, SlaveListens
  <2> QED
    BY <1>14, <1>15, <2>1 DEF SlaveIdle, SlaveDeadline, SlaveVerify
<1>16. ASSUME NEW state \in SlaveStates, NEW max \in Nat, NEW frame \in Frame,
              HasFrame("slave"), SlaveAnswers(state, max, frame, Got("slave"))
       PROVE  TypeOK'
  <2>1. /\ frame.len \in Int /\ RxArg(s.rxArg, Got("slave")) \in Nat
    BY <1>3, <1>6, <1>16 DEF Frame
  <2>2. s' = [s EXCEPT !.State = state, !.MaxBlockNum = max, !.RetryTimes = 0,
                       !.tx = frame, !.len = frame.len,
                       !.rxArg = RxArg(s.rxArg, Got("slave"))]
    BY <1>1, <1>16 DEF SlaveAnswers, SlaveTypeOK
  <2>3. UNCHANGED flash /\ Transmit("slave", Popped("slave"), frame)
    BY <1>16 DEF SlaveAnswers
  <2> QED
    BY <1>7, <1>13, <2>1, <2>2, <2>3
<1>17. ASSUME HasFrame("slave"), SlaveAnswersAgain(Got("slave"))
       PROVE  TypeOK'
  <2>1. /\ Got("slave").len \in Int /\ RxArg(s.rxArg, Got("slave")) \in Nat
    BY <1>2, <1>3, <1>6, <1>17
  <2>2. s' = [s EXCEPT !.State = s.State, !.MaxBlockNum = s.MaxBlockNum,
                       !.RetryTimes = 0, !.tx = s.tx, !.len = Got("slave").len,
                       !.rxArg = RxArg(s.rxArg, Got("slave"))]
    BY <1>1, <1>17 DEF SlaveAnswersAgain, SlaveTypeOK
  <2>3. /\ UNCHANGED flash
        /\ Transmit("slave", Popped("slave"), [s.tx EXCEPT !.len = Got("slave").len])
    BY <1>17 DEF SlaveAnswersAgain
  <2>4. [s.tx EXCEPT !.len = Got("slave").len] \in Frame
    BY <1>6, <2>1 DEF Frame
  <2> QED
    BY <1>6, <1>7, <1>13, <2>1, <2>2, <2>3, <2>4
<1>18. CASE SlaveVersionReq
  <2>1. s.State \in InSession /\ HasFrame("slave")
    BY <1>18 DEF SlaveVersionReq, SlaveGot, SlaveTook, InSession, SlaveListens
  <2>2. CmdFrame("VERSION_RSP", RunningVersion, 2) \in Frame
    BY <1>1, <2>1, RunningVersionType DEF CmdFrame, Frame, Kind
  <2> QED
    BY <1>6, <1>7, <1>16, <1>18, <2>1, <2>2 DEF SlaveVersionReq, SlaveListens
<1>19. CASE SlaveStartReq
  <2>1. HasFrame("slave") /\ RxArg(s.rxArg, Got("slave")) \in Nat
    BY <1>3, <1>6, <1>19 DEF SlaveStartReq, SlaveGot, SlaveTook
  <2>2. BareCmdFrame(s.tx, "START_RSP") \in Frame
    BY <1>6 DEF BareCmdFrame, Frame, Kind
  <2> QED
    BY <1>7, <1>16, <1>19, <2>1, <2>2 DEF SlaveStartReq, SlaveListens
<1>20. CASE SlaveVersionReqAgain \/ SlaveStartReqAgain \/ SlaveDataAgain
  BY <1>17, <1>20 DEF SlaveVersionReqAgain, SlaveStartReqAgain, SlaveDataAgain,
                      SlaveGot, SlaveTook
<1>21. CASE SlaveEndReq
  <2>1. HasFrame("slave") /\ RxArg(s.rxArg, Got("slave")) \in Nat
    BY <1>3, <1>6, <1>21 DEF SlaveEndReq, SlaveGot, SlaveTook
  <2>2. "END" \in SlaveStates /\ "ERROR" \in SlaveStates
    BY DEF SlaveStates
  <2>3. CASE SlaveAnswers("END", s.MaxBlockNum, BareCmdFrame(s.tx, "END_RSP"),
                          Got("slave"))
    <3>1. BareCmdFrame(s.tx, "END_RSP") \in Frame
      BY <1>6 DEF BareCmdFrame, Frame, Kind
    <3> QED
      BY <1>6, <1>16, <2>1, <2>2, <2>3, <3>1
  <2>4. CASE /\ s' = [s EXCEPT !.State = "ERROR", !.RetryTimes = 0,
                               !.len = Got("slave").len,
                               !.rxArg = RxArg(s.rxArg, Got("slave"))]
             /\ Quiet(Popped("slave"))
             /\ UNCHANGED flash
    <3>1. s' = [s EXCEPT !.State = "ERROR", !.MaxBlockNum = s.MaxBlockNum,
                         !.RetryTimes = 0, !.tx = s.tx, !.len = Got("slave").len,
                         !.rxArg = RxArg(s.rxArg, Got("slave"))]
      BY <1>1, <2>4 DEF SlaveTypeOK
    <3>2. Got("slave").len \in Int /\ UNCHANGED flash /\ Quiet(Popped("slave"))
      BY <1>2, <2>1, <2>4
    <3> QED
      BY <1>6, <1>7, <1>9, <1>13, <2>1, <2>2, <3>1, <3>2
  <2> QED
    BY <1>21, <2>3, <2>4 DEF SlaveEndReq
<1>22. CASE SlaveRetry
  <2>1. PICK n \in Int, a \in Nat :
          \/ /\ RetriesLeft(s.RetryTimes)
             /\ s' = [s EXCEPT !.RetryTimes = @ + 1, !.len = n, !.rxArg = a]
             /\ Listen("slave", Popped("slave"))
          \/ /\ s' = [s EXCEPT !.State = "ERROR", !.len = n, !.rxArg = a]
             /\ Quiet(Popped("slave"))
    BY <1>2, <1>3, <1>6, <1>22 DEF SlaveRetry
  <2>2. AirTypeOK'
    BY <1>8, <1>9, <2>1
  <2>3. "ERROR" \in SlaveStates
    BY DEF SlaveStates
  <2>4. SlaveTypeOK'
    <3>1. RetriesLeft(s.RetryTimes) => s.RetryTimes + 1 \in 0..OTA_RETRY_MAX
      BY <1>6, RetryAssumption DEF RetriesLeft
    <3>2. UNCHANGED flash
      BY <1>22 DEF SlaveRetry
    <3> QED
      BY <1>1, <2>1, <2>3, <3>1, <3>2 DEF SlaveTypeOK
  <2> QED
    BY <1>4, <2>2, <2>4, SMTT(40) DEF TypeOK
<1>23. SlaveNextBlock => /\ Received \in Piece
                         /\ Got("slave").blk \in Nat /\ HasFrame("slave")
  BY <1>2 DEF SlaveNextBlock, SlaveGot, SlaveTook, Received, Piece, Frame
<1>24. CASE SlaveData
  <2> DEFINE f == Got("slave")
             state == IF f.blk = s.MaxBlockNum THEN "END_READY" ELSE s.State
  <2>1. /\ Received \in Piece /\ f.blk \in Nat /\ f.len \in Int
        /\ RxArg(s.rxArg, f) \in Nat
    BY <1>2, <1>3, <1>6, <1>23, <1>24 DEF SlaveData
  <2>2. AckFrame(f.blk) \in Frame
    BY <2>1 DEF AckFrame, Frame, Kind
  <2>3. AirTypeOK'
    BY <1>8, <1>24, <2>2 DEF SlaveData
  <2>4. flash' \in [Bank -> BankType]
    <3>1. WriteCell(flash[s.bank], WriteIndex, Received) \in BankType
      BY <1>5, <1>6, <2>1, WriteTypes
    <3>2. flash' = [flash EXCEPT ![s.bank] =
                      WriteCell(flash[s.bank], WriteIndex, Received)]
      BY <1>5, <1>24 DEF SlaveData
    <3> QED
      BY <1>5, <1>6, <3>1, <3>2
  <2>5. s' = [s EXCEPT !.State = state, !.BlockNum = f.blk,
                       !.TotalBinSize = s.TotalBinSize + f.len - 3,
                       !.PktCRC = Append(s.PktCRC, Received), !.RetryTimes = 0,
                       !.tx = AckFrame(f.blk), !.len = f.len,
                       !.rxArg = RxArg(s.rxArg, f)]
    BY <1>1, <1>24 DEF SlaveData, SlaveTypeOK
  <2>6. /\ state \in SlaveStates
        /\ s.TotalBinSize + f.len - 3 \in Int
        /\ Append(s.PktCRC, Received) \in Seq(Piece)
    BY <1>1, <2>1 DEF SlaveTypeOK, SlaveStates, SlaveListens
  <2> HIDE DEF f, state
  <2>7. SlaveTypeOK'
    BY <1>1, <1>7, <2>1, <2>2, <2>4, <2>5, <2>6 DEF SlaveTypeOK, BankType
  <2> QED
    BY <1>4, <2>3, <2>7 DEF TypeOK
<1>25. CASE SlaveSetNextBootFlag
  <2>1. flash' = [flash EXCEPT ![s.bank] = SetFlag(flash[s.bank])]
    BY <1>5, <1>25 DEF SlaveSetNextBootFlag
  <2>2. flash' \in [Bank -> BankType]
    BY <1>5, <1>6, <2>1, FlagTypes
  <2>3. "CLEAR_FLAG" \in SlaveStates
    BY DEF SlaveStates
  <2>4. SlaveTypeOK'
    BY <1>1, <1>25, <2>2, <2>3 DEF SlaveSetNextBootFlag, SlaveTypeOK, BankType
  <2>5. AirTypeOK'
    BY <1>8, <1>9, <1>25 DEF SlaveSetNextBootFlag
  <2> QED
    BY <1>4, <2>4, <2>5 DEF TypeOK
<1>26. CASE SlaveClearCurrentBootFlag
  <2>1. 1 - s.bank \in Bank
    BY <1>6 DEF Bank
  <2>2. ClearFlag(flash[1 - s.bank]) \in BankType
    BY <1>5, <2>1, FlagTypes
  <2> QED
    BY <1>5, <1>10, <1>26, <2>1, <2>2 DEF SlaveClearCurrentBootFlag
<1>27. CASE SlaveError \/ SlavePowerLoss
  <2>1. OTA_FlashErase(flash[s.bank]) \in BankType
    BY <1>5, <1>6, EraseTypes
  <2> QED
    BY <1>5, <1>6, <1>10, <1>27, <2>1 DEF SlaveError, SlavePowerLoss
<1>28. CASE SlaveTornWrite
  <2> DEFINE bk == [flash[s.bank] EXCEPT
                      !.cell[WriteIndex] = IF @ = Received THEN @ ELSE Garbage]
  <2>1. bk \in BankType
    BY <1>5, <1>6, <1>23, <1>28, WriteTypes DEF SlaveTornWrite
  <2>2. ResetSlave /\ flash' = [flash EXCEPT ![s.bank] = bk]
    BY <1>5, <1>28 DEF SlaveTornWrite
  <2> QED
    BY <1>6, <1>10, <2>1, <2>2
<1>29. CASE SlaveTornErase
  <2>1. PICK bank \in Bank, n \in Nat :
          flash' = [flash EXCEPT ![bank] = EraseCells(flash[bank], n)]
    <3>1. 1..(ErasedBlocks - 1) \subseteq Nat
      BY SlaveAssumption
    <3> QED
      BY <1>5, <1>6, <1>29, <3>1 DEF SlaveTornErase, Bank
  <2>2. EraseCells(flash[bank], n) \in BankType
    BY <1>5, <2>1, EraseTypes
  <2> QED
    BY <1>10, <1>29, <2>1, <2>2 DEF SlaveTornErase
<1> QED
  BY <1>11, <1>12, <1>15, <1>18, <1>19, <1>20, <1>21, <1>22, <1>24, <1>25, <1>26,
     <1>27, <1>28, <1>29 DEF SlaveStep, SlavePoll

-----------------------------------------------------------------------------
\* The factory state satisfies the invariant.
LEMMA InitIInv == Init => IInv
<1> SUFFICES ASSUME Init PROVE IInv
  OBVIOUS
<1>1. NoFrame \in Frame /\ 0 \in 0..OTA_RETRY_MAX
  BY RetryAssumption DEF NoFrame, Frame, Kind
<1>2. AirTypeOK
  BY DEF Init, AirInit, AirTypeOK, MSG_QUEUE_LEN
<1>3. MasterTypeOK /\ MasterHasImage
  BY <1>1 DEF Init, MasterOff, MasterTypeOK, MasterStates, MasterHasImage
<1>4. PICK img \in Image :
        flash = [b \in Bank |-> IF b = 0 THEN Installed(img) ELSE Blank]
  BY DEF Init
<1>5. Blank \in BankType
  BY DEF Blank, BankType, Flag
<1>6. Installed(img) \in BankType
  <2>1. \A i \in Cells : Block(img, i) \in Piece
    BY SlaveAssumption, BlockLenType DEF Block, Piece, Cells
  <2> QED
    BY <2>1 DEF Installed, BankType, Flag
<1>7. flash \in [Bank -> BankType]
  BY <1>4, <1>5, <1>6
<1>8. s \in [State: SlaveStates, run: Bank, bank: Bank, BlockNum: Nat,
             MaxBlockNum: Nat, TotalBinSize: Int, PktCRC: Seq(Piece),
             RetryTimes: 0..OTA_RETRY_MAX, tx: Frame, len: Int, rxArg: Nat]
  <2>1. "OFF" \in SlaveStates /\ 0 \in Bank /\ <<>> \in Seq(Piece)
    BY DEF SlaveStates, Bank
  <2> QED
    BY <1>1, <2>1 DEF Init, SlaveOff
<1>9. TypeOK
  BY <1>2, <1>3, <1>7, <1>8 DEF TypeOK, SlaveTypeOK, BankType
<1>10. flash[0] = Installed(img) /\ 0 \in Bank
  BY <1>4 DEF Bank
<1>11. Holds(flash[0], img)
  <2>1. NumBlocks(img) \in Nat /\ NumBlocks(img) <= BankBlocks /\ BankBlocks \in Nat
    BY NumBlocksPositive, SlaveAssumption
  <2> QED
    BY <1>10, <2>1 DEF Holds, Installed, Cells
<1>12. BootBank = 0 /\ Bootable # {}
  BY <1>10, BootBankFact DEF Installed
<1>13. NeverBricked
  BY <1>11, <1>12 DEF NeverBricked
<1> QED
  BY <1>3, <1>9, <1>13
     DEF IInv, BootInv, Init, SlaveOff, InSession, SlaveListens

\* Every step keeps the invariant.
LEMMA NextIInv == IInv /\ [Next]_vars => IInv'
<1> SUFFICES ASSUME IInv, [Next]_vars PROVE IInv'
  OBVIOUS
<1>1. ASSUME UNCHANGED <<s, flash>> PROVE BootInv'
  BY <1>1 DEF IInv, BootInv, BootBank, Bootable, NeverBricked, Whole, Holds
<1>2. CASE MasterStep
  BY <1>1, <1>2, MasterStepType DEF IInv, MasterStep
<1>3. CASE SlaveStep
  <2>1. MasterHasImage'
    BY <1>3 DEF IInv, MasterHasImage, SlaveStep
  <2> QED
    BY <1>3, <2>1, SlaveStepBoot, SlaveStepType DEF IInv
<1>4. ASSUME NEW n \in Node, TimeOut(n) PROVE IInv'
  <2>1. NoFrame \in Frame
    BY DEF NoFrame, Frame, Kind
  <2>2. AirTypeOK'
    BY <1>4, <2>1, AirStepType DEF IInv, TypeOK, TimeOut
  <2>3. UNCHANGED <<m, s, flash>>
    BY <1>4 DEF TimeOut
  <2> QED
    BY <1>1, <2>2, <2>3
       DEF IInv, TypeOK, MasterTypeOK, SlaveTypeOK, MasterHasImage
<1>5. CASE UNCHANGED vars
  <2>1. UNCHANGED <<m, s, flash, queue, radio>>
    BY <1>5 DEF vars, air
  <2> QED
    BY <1>1, <2>1
       DEF IInv, TypeOK, AirTypeOK, MasterTypeOK, SlaveTypeOK, MasterHasImage
<1> QED
  BY <1>2, <1>3, <1>4, <1>5 DEF Next

\* The invariant every theorem below rests on.
LEMMA AlwaysIInv == Spec => []IInv
BY InitIInv, NextIInv, PTL DEF Spec

\* Every variable keeps its type, for any images, retry limit and bank size.
THEOREM TypeCorrect == Spec => []TypeOK
<1>1. IInv => TypeOK
  BY DEF IInv
<1> QED
  BY <1>1, AlwaysIInv, PTL

\* The device is never bricked: whatever is lost, damaged or repeated on the
\* air, and wherever power fails, the boot ROM finds a whole image.
THEOREM AlwaysBootable == Spec => []NeverBricked
<1>1. IInv => NeverBricked
  BY DEF IInv, BootInv
<1> QED
  BY <1>1, AlwaysIInv, PTL

-----------------------------------------------------------------------------
(***************************************************************************)
(* The radio.  A poll that starts an operation needs that none is pending  *)
(* and that it pops the only message; a device that has not begun a        *)
(* session has neither.                                                    *)
(***************************************************************************)
Silent(n) == queue[n] = <<>> /\ radio[n] = "idle"

AirInv ==
  /\ OneEventPerOperation
  /\ m.State \in {"OFF", "IDLE"} => Silent("master")
  /\ s.State \in {"OFF", "APP", "IDLE"} => Silent("slave")

\* An operation started by a device whose radio is idle.
LEMMA OperationStep ==
  ASSUME AirTypeOK, OneEventPerOperation, NEW n \in Node, NEW f,
         radio[n] = "idle",
         \/ Transmit(n, Popped(n), f)
         \/ Listen(n, Popped(n))
  PROVE  /\ OneEventPerOperation'
         /\ Silent(Peer(n)) => Silent(Peer(n))'
<1> DEFINE q == Popped(n)
           p == Peer(n)
<1>1. /\ p \in Node /\ p # n /\ Node = {n, p}
  BY DEF Peer, Node
<1>2. Len(queue[n]) <= 1 /\ Len(queue[p]) <= (IF radio[p] = "rx" THEN 0 ELSE 1)
  BY <1>1 DEF OneEventPerOperation
<1>3. /\ q \in [Node -> Seq(Msg)] /\ q[n] = <<>> /\ q[p] = queue[p]
  <2>1. /\ Popped(n) \in [Node -> Seq(Msg)]
        /\ \A k \in Node : k # n => Popped(n)[k] = queue[k]
        /\ Popped(n)[n] = <<>>
    BY <1>2, PoppedType
  <2> QED
    BY <1>1, <2>1
<1>4. Len(q[n]) = 0
  BY <1>3
<1>5. radio \in [Node -> {"idle", "rx"}]
  BY DEF AirTypeOK
<1> HIDE DEF q, p
<1>6. CASE queue' = q /\ radio' = [radio EXCEPT ![n] = "rx"]
  BY <1>1, <1>2, <1>3, <1>4, <1>5, <1>6 DEF OneEventPerOperation, Silent, p
<1>7. ASSUME NEW msg, radio[p] = "rx",
             queue' = [q EXCEPT ![p] = Push(q[p], msg)],
             radio' = [radio EXCEPT ![n] = "rx", ![p] = "idle"]
      PROVE  OneEventPerOperation' /\ ~Silent(p)
  <2>1. Len(q[p]) = 0 /\ q[p] \in Seq(Msg)
    BY <1>1, <1>2, <1>3, <1>7 DEF AirTypeOK
  <2>2. Push(q[p], msg) = <<msg>> /\ Len(<<msg>>) = 1
    <3>1. q[p] = <<>>
      BY <2>1
    <3> QED
      BY <3>1 DEF Push, MSG_QUEUE_LEN
  <2>3. Len(queue'[n]) = 0 /\ Len(queue'[p]) <= 1 /\ radio'[p] = "idle"
    BY <1>1, <1>3, <1>4, <1>5, <1>7, <2>2
  <2> QED
    BY <1>1, <1>7, <2>3 DEF OneEventPerOperation, Silent
<1> QED
  BY <1>6, <1>7 DEF Transmit, Listen, q, p

\* A step that only pops, or nothing at all.
LEMMA QuietStep ==
  ASSUME AirTypeOK, OneEventPerOperation, NEW n \in Node,
         Quiet(Popped(n)) \/ UNCHANGED air
  PROVE  /\ OneEventPerOperation'
         /\ \A k \in Node : Silent(k) => Silent(k)'
<1>1. /\ \A k \in Node : k # n => Popped(n)[k] = queue[k]
      /\ Len(queue[n]) <= 1 => Popped(n)[n] = <<>>
  BY PoppedType
<1>2. Len(queue[n]) <= 1
  BY DEF OneEventPerOperation
<1>3. /\ radio' = radio
      /\ \A k \in Node : queue'[k] = queue[k] \/ queue'[k] = <<>>
  BY <1>1, <1>2 DEF Quiet, air
<1> QED
  BY <1>3 DEF OneEventPerOperation, Silent

\* A reset and a timeout each concern one device.
LEMMA ResetStep ==
  ASSUME AirTypeOK, OneEventPerOperation, NEW n \in Node, ResetAir(n)
  PROVE  /\ OneEventPerOperation'
         /\ Silent(n)'
         /\ \A k \in Node : Silent(k) => Silent(k)'
BY DEF AirTypeOK, OneEventPerOperation, Silent, ResetAir

\* A timeout pushes one message into an empty queue (OTA_RxTimeoutIrq).
LEMMA TimeOutStep ==
  ASSUME AirTypeOK, OneEventPerOperation, NEW n \in Node, RxTimeOut(n)
  PROVE  /\ OneEventPerOperation'
         /\ \A k \in Node : Silent(k) => Silent(k)'
<1>1. [type |-> "TIMEOUT"] \in Msg
  BY DEF Msg
<1>2. queue[n] \in Seq(Msg) /\ Len(queue[n]) = 0 /\ radio[n] = "rx"
  BY DEF OneEventPerOperation, RxTimeOut, AirTypeOK
<1>3. Len(Push(queue[n], [type |-> "TIMEOUT"])) <= 1
  BY <1>1, <1>2, PushType DEF MSG_QUEUE_LEN
<1>4. /\ Len(queue'[n]) <= 1 /\ radio'[n] = "idle"
      /\ \A k \in Node : k # n => queue'[k] = queue[k] /\ radio'[k] = radio[k]
  BY <1>3 DEF RxTimeOut, AirTypeOK
<1> QED
  BY <1>2, <1>4 DEF OneEventPerOperation, Silent

\* Every step of the master keeps the radio invariant.
LEMMA MasterStepAir ==
  ASSUME TypeOK, MasterHasImage, AirInv, MasterStep
  PROVE  AirInv'
<1>1. /\ AirTypeOK /\ OneEventPerOperation /\ "master" \in Node /\ "slave" \in Node
      /\ Peer("master") = "slave"
  BY DEF TypeOK, AirInv, Node, Peer
<1>2. s' = s
  BY DEF MasterStep
<1>3. queue["master"] # <<>> => radio["master"] = "idle"
  BY <1>1 DEF OneEventPerOperation, AirTypeOK
<1>4. ASSUME NEW f, Transmit("master", Popped("master"), f),
             radio["master"] = "idle", m'.State \notin {"OFF", "IDLE"}
      PROVE  AirInv'
  BY <1>1, <1>2, <1>4, OperationStep DEF AirInv
<1>5. ASSUME Quiet(Popped("master")), m'.State \notin {"OFF", "IDLE"}
      PROVE  AirInv'
  BY <1>1, <1>2, <1>5, QuietStep DEF AirInv
<1>6. ASSUME ResetAir("master")
      PROVE  AirInv'
  BY <1>1, <1>2, <1>6, ResetStep DEF AirInv
<1>7. CASE MasterInit \/ MasterReboot \/ MasterPowerLoss
  BY <1>6, <1>7 DEF MasterInit, MasterReboot, MasterPowerLoss
<1>8. CASE MasterDeadline \/ MasterEndRsp
  <2>1. m'.State = "ERROR" \/ m'.State = "END"
    <3>1. CASE MasterDeadline
      BY <1>1, <3>1 DEF MasterDeadline, MasterTypeOK
    <3>2. CASE MasterEndRsp
      BY <1>1, <3>2 DEF MasterEndRsp, MasterTypeOK
    <3> QED
      BY <1>8, <3>1, <3>2
  <2> QED
    BY <1>5, <1>8, <2>1 DEF MasterDeadline, MasterEndRsp
<1>9. ASSUME NEW state \in MasterWaits, NEW block, NEW finish, NEW frame, NEW arg,
             MasterSends(state, block, finish, frame, arg),
             radio["master"] = "idle"
      PROVE  AirInv'
  <2>1. m'.State = state /\ Transmit("master", Popped("master"), frame)
    BY <1>1, <1>9 DEF MasterSends, MasterTypeOK
  <2> QED
    BY <1>4, <1>9, <2>1 DEF MasterWaits
<1>10. CASE MasterIdle
  BY <1>9, <1>10 DEF MasterIdle, AirInv, Silent, MasterWaits
<1>11. MasterAnswered => radio["master"] = "idle"
  BY <1>3 DEF MasterAnswered, HasFrame
<1>12. CASE MasterVersionRsp
  <2>1. CASE \E arg : MasterSends("START_RSP_WAIT", m.BlockNum, m.FinishFlag,
                                 CmdFrame("START_REQ", NumBlocks(m.img), 2), arg)
    BY <1>9, <1>11, <1>12, <2>1 DEF MasterVersionRsp, MasterWaits
  <2>2. CASE /\ \E len, arg : m' = [m EXCEPT !.State = "ERROR", !.RetryTimes = 0,
                                            !.len = len, !.rxArg = arg]
             /\ Quiet(Popped("master"))
    BY <1>1, <1>5, <2>2 DEF MasterTypeOK
  <2> QED
    BY <1>12, <2>1, <2>2 DEF MasterVersionRsp
<1>13. CASE MasterStartRsp \/ MasterDataAck
  BY <1>9, <1>11, <1>13
     DEF MasterStartRsp, MasterDataAck, MasterSendsBlock, MasterWaits
<1>14. CASE MasterRetry
  <2>1. /\ m.State \notin {"OFF", "IDLE"} /\ radio["master"] = "idle"
    BY <1>3, <1>14 DEF MasterRetry, MasterWaits
  <2>2. CASE /\ \E times, len, arg :
                  m' = [m EXCEPT !.RetryTimes = times, !.len = len, !.rxArg = arg]
             /\ \E f : Transmit("master", Popped("master"), f)
    <3>1. m'.State = m.State
      BY <1>1, <2>2 DEF MasterTypeOK
    <3> QED
      BY <1>4, <2>1, <2>2, <3>1
  <2>3. CASE /\ \E len, arg : m' = [m EXCEPT !.State = "ERROR", !.len = len,
                                            !.rxArg = arg]
             /\ Quiet(Popped("master"))
    BY <1>1, <1>5, <2>3 DEF MasterTypeOK
  <2> QED
    BY <1>14, <2>2, <2>3 DEF MasterRetry
<1> QED
  BY <1>7, <1>8, <1>10, <1>12, <1>13, <1>14 DEF MasterStep, MasterPoll

\* Every step of the slave keeps it.
LEMMA SlaveStepAir ==
  ASSUME TypeOK, AirInv, SlaveStep
  PROVE  AirInv'
<1>1. /\ AirTypeOK /\ OneEventPerOperation /\ "master" \in Node /\ "slave" \in Node
      /\ Peer("slave") = "master" /\ SlaveTypeOK
  BY DEF TypeOK, AirInv, Node, Peer
<1>2. m' = m
  BY DEF SlaveStep
<1>3. queue["slave"] # <<>> => radio["slave"] = "idle"
  BY <1>1 DEF OneEventPerOperation, AirTypeOK
<1>4. ASSUME radio["slave"] = "idle", s'.State \notin {"OFF", "APP", "IDLE"},
             (\E f : Transmit("slave", Popped("slave"), f))
               \/ Listen("slave", Popped("slave"))
      PROVE  AirInv'
  BY <1>1, <1>2, <1>4, OperationStep DEF AirInv
<1>5. ASSUME Quiet(Popped("slave")) \/ UNCHANGED air,
             s'.State \in {"OFF", "APP", "IDLE"}
               => s.State \in {"OFF", "APP", "IDLE"}
      PROVE  AirInv'
  BY <1>1, <1>2, <1>5, QuietStep DEF AirInv
<1>6. ASSUME ResetAir("slave")
      PROVE  AirInv'
  BY <1>1, <1>2, <1>6, ResetStep DEF AirInv
<1>7. CASE \/ SlaveClearCurrentBootFlag \/ SlaveError \/ SlavePowerLoss
           \/ SlaveTornWrite \/ SlaveTornErase
  BY <1>6, <1>7 DEF SlaveClearCurrentBootFlag, SlaveError, SlavePowerLoss,
                    SlaveTornWrite, SlaveTornErase, ResetSlave
<1>8. CASE SlaveBoot \/ OTA_SlaveInit
  BY <1>5, <1>8 DEF SlaveBoot, OTA_SlaveInit
<1>9. CASE SlaveDeadline \/ SlaveVerify \/ SlaveSetNextBootFlag
  <2>1. \E state \in {"ERROR", "SET_FLAG", "CLEAR_FLAG"} : s' = [s EXCEPT !.State = state]
    BY <1>9 DEF SlaveDeadline, SlaveVerify, SlaveSetNextBootFlag
  <2>2. s'.State \notin {"OFF", "APP", "IDLE"}
    BY <1>1, <2>1 DEF SlaveTypeOK
  <2> QED
    BY <1>5, <1>9, <2>2 DEF SlaveDeadline, SlaveVerify, SlaveSetNextBootFlag
<1>10. CASE SlaveIdle
  <2>1. s'.State = "FW_VERSION_READY" /\ radio["slave"] = "idle"
    BY <1>1, <1>10 DEF SlaveIdle, SlaveTypeOK, AirInv, Silent
  <2> QED
    BY <1>4, <1>10, <2>1 DEF SlaveIdle
<1>11. ASSUME NEW f, SlaveAnswersAgain(f), s.State \in SlaveListens, SlaveTook
       PROVE  AirInv'
  <2>1. s'.State = s.State
    BY <1>1, <1>11 DEF SlaveAnswersAgain, SlaveTypeOK
  <2> QED
    BY <1>3, <1>4, <1>11, <2>1
       DEF SlaveAnswersAgain, SlaveListens, SlaveTook, HasFrame
<1>12. ASSUME NEW state, NEW max, NEW frame, NEW f, SlaveTook,
              SlaveAnswers(state, max, frame, f),
              state \notin {"OFF", "APP", "IDLE"}
       PROVE  AirInv'
  <2>1. s'.State = state
    BY <1>1, <1>12 DEF SlaveAnswers, SlaveTypeOK
  <2> QED
    BY <1>3, <1>4, <1>12, <2>1 DEF SlaveAnswers, SlaveTook, HasFrame
<1>13. CASE SlaveVersionReqAgain \/ SlaveStartReqAgain \/ SlaveDataAgain
  BY <1>11, <1>13 DEF SlaveVersionReqAgain, SlaveStartReqAgain, SlaveDataAgain,
                      SlaveGot, SlaveListens
<1>14. CASE SlaveVersionReq \/ SlaveStartReq
  BY <1>12, <1>14 DEF SlaveVersionReq, SlaveStartReq, SlaveGot
<1>15. CASE SlaveEndReq
  <2>1. CASE SlaveAnswers("END", s.MaxBlockNum, BareCmdFrame(s.tx, "END_RSP"),
                          Got("slave"))
    BY <1>12, <1>15, <2>1 DEF SlaveEndReq, SlaveGot
  <2>2. CASE /\ \E len, arg : s' = [s EXCEPT !.State = "ERROR", !.RetryTimes = 0,
                                            !.len = len, !.rxArg = arg]
             /\ Quiet(Popped("slave"))
    BY <1>1, <1>5, <2>2 DEF SlaveTypeOK
  <2> QED
    BY <1>15, <2>1, <2>2 DEF SlaveEndReq
<1>16. CASE SlaveRetry
  <2>1. CASE /\ \E times, len, arg :
                  s' = [s EXCEPT !.RetryTimes = times, !.len = len, !.rxArg = arg]
             /\ Listen("slave", Popped("slave"))
    <3>1. s'.State = s.State /\ s.State \in SlaveListens
      BY <1>1, <1>16, <2>1 DEF SlaveRetry, SlaveTypeOK
    <3>2. radio["slave"] = "idle"
      BY <1>3, <1>16 DEF SlaveRetry
    <3> QED
      BY <1>4, <2>1, <3>1, <3>2 DEF SlaveListens
  <2>2. CASE /\ \E len, arg : s' = [s EXCEPT !.State = "ERROR", !.len = len,
                                            !.rxArg = arg]
             /\ Quiet(Popped("slave"))
    BY <1>1, <1>5, <2>2 DEF SlaveTypeOK
  <2> QED
    BY <1>16, <2>1, <2>2 DEF SlaveRetry
<1>17. CASE SlaveData
  <2>1. s.State = "DATA_READY" /\ radio["slave"] = "idle"
    BY <1>3, <1>17 DEF SlaveData, SlaveNextBlock, SlaveGot, SlaveTook, HasFrame
  <2>2. s'.State \in {"DATA_READY", "END_READY"}
    BY <1>1, <1>17, <2>1 DEF SlaveData, SlaveTypeOK
  <2> QED
    BY <1>4, <1>17, <2>1, <2>2 DEF SlaveData
<1> QED
  BY <1>7, <1>8, <1>9, <1>10, <1>13, <1>14, <1>15, <1>16, <1>17
     DEF SlaveStep, SlavePoll

\* At any time a device has at most one message waiting, and none while its
\* radio is busy: the interrupt never finds the queue in use or full.
THEOREM OneEvent == Spec => []OneEventPerOperation
<1>1. Init => AirInv
  BY DEF Init, AirInit, AirInv, OneEventPerOperation, Silent, Node
<1>2. IInv /\ AirInv /\ [Next]_vars => AirInv'
  <2> SUFFICES ASSUME IInv, AirInv, [Next]_vars PROVE AirInv'
    OBVIOUS
  <2>1. TypeOK /\ MasterHasImage /\ AirTypeOK /\ OneEventPerOperation
    BY DEF IInv, TypeOK, AirInv
  <2>2. ASSUME NEW n \in Node, TimeOut(n) PROVE AirInv'
    BY <2>1, <2>2, TimeOutStep DEF TimeOut, AirInv, Node
  <2>3. CASE UNCHANGED vars
    BY <2>3 DEF vars, air, AirInv, OneEventPerOperation, Silent
  <2> QED
    BY <2>1, <2>2, <2>3, MasterStepAir, SlaveStepAir DEF Next
<1>3. AirInv => OneEventPerOperation
  BY DEF AirInv
<1> QED
  BY <1>1, <1>2, <1>3, AlwaysIInv, PTL DEF Spec

-----------------------------------------------------------------------------
(***************************************************************************)
(* The update is atomic.  The step that changes what the device starts is  *)
(* the write of the new flag when the new bank is at address 0, and the    *)
(* clearing of the old flag when it is not.  Under BootInv the image a     *)
(* bank holds whole is the one its first cell names.                       *)
(***************************************************************************)
active == flash[BootBank].cell[1][1]
staged == IF Staging THEN flash[s.bank].cell[1][1] ELSE NoImage

\* The first cell of a bank with a whole image names the image.
LEMMA WholeNames ==
  ASSUME NEW bk, Whole(bk)
  PROVE  bk.cell[1][1] \in Image
<1>1. PICK img \in Image : Holds(bk, img)
  BY DEF Whole
<1>2. bk.cell[1] = Block(img, 1)
  BY <1>1, NumBlocksPositive DEF Holds
<1> QED
  BY <1>2 DEF Block

\* The device always starts an image, and what it stages is one.
LEMMA ImageFacts ==
  ASSUME BootInv, SlaveTypeOK
  PROVE  /\ active \in Image
         /\ Staging => flash[s.bank].cell[1][1] \in Image
         /\ staged # NoImage <=> Staging
<1>1. Whole(flash[BootBank])
  BY DEF BootInv, NeverBricked, Whole
<1>2. Staging => Whole(flash[s.bank])
  BY DEF BootInv, Staging, SlaveTypeOK
<1>3. Staging => flash[s.bank].cell[1][1] \in Image
  BY <1>2, WholeNames
<1>4. active \in Image
  BY <1>1, WholeNames DEF active
<1> QED
  BY <1>3, <1>4, ImageAssumption DEF staged

\* The refinement mapping in terms of first cells.
LEMMA MappingFacts ==
  ASSUME BootInv, SlaveTypeOK
  PROVE  /\ active = Started
         /\ staged = IF Staging THEN ImageIn(flash[s.bank]) ELSE NoImage
<1>1. /\ Bootable # {}
      /\ Whole(flash[BootBank])
  BY DEF BootInv, NeverBricked, Whole
<1>2. Staging => Whole(flash[s.bank])
  BY DEF BootInv, Staging, SlaveTypeOK
<1> QED
  BY <1>1, <1>2 DEF active, staged, Started, ImageIn, Whole

\* Every step is one of AtomicUpdate or changes nothing AtomicUpdate sees.
LEMMA AtomicStep ==
  ASSUME IInv, IInv', [Next]_vars
  PROVE  \/ UNCHANGED <<active, staged>>
         \/ /\ staged = NoImage /\ staged' \in Image /\ UNCHANGED active
         \/ /\ staged # NoImage /\ active' = staged /\ staged' = NoImage
         \/ /\ staged # NoImage /\ staged' = NoImage /\ UNCHANGED active
<1>1. SlaveTypeOK /\ SlaveTypeOK' /\ BootInv /\ BootInv'
  BY DEF IInv, TypeOK
<1>2. BootBank \in Bank /\ BootBank' \in Bank
  BY BootBankFact, <1>1 DEF BootBank, Bank
<1>3. CASE UNCHANGED <<s, flash>>
  BY <1>3 DEF active, staged, Staging, BootBank, Bootable
<1>4. ASSUME UNCHANGED flash, s'.State \notin {"SET_FLAG", "CLEAR_FLAG"}
      PROVE  \/ UNCHANGED <<active, staged>>
             \/ /\ staged # NoImage /\ staged' = NoImage /\ UNCHANGED active
  BY <1>4 DEF active, staged, Staging, BootBank, Bootable
<1>5. ASSUME NEW b \in Bank, b # BootBank, NEW bk, bk.flag = "erased",
             flash' = [flash EXCEPT ![b] = bk],
             s.State \notin {"SET_FLAG", "CLEAR_FLAG"},
             s'.State \notin {"SET_FLAG", "CLEAR_FLAG"}
      PROVE  UNCHANGED <<active, staged>>
  <2>1. BootBank' = BootBank
    BY <1>1, <1>5, SpareWrite DEF BootInv
  <2>2. flash'[BootBank] = flash[BootBank]
    BY <1>1, <1>2, <1>5 DEF SlaveTypeOK
  <2> QED
    BY <1>5, <2>1, <2>2 DEF active, staged, Staging
<1>6. CASE SlaveVerify
  <2>1. UNCHANGED flash /\ BootBank' = BootBank /\ s.State = "END"
    BY <1>6 DEF SlaveVerify, BootBank, Bootable
  <2>2. CASE s'.State = "SET_FLAG"
    BY <1>1, <2>1, <2>2, ImageFacts, WholeNames
       DEF active, staged, Staging, BootInv
  <2>3. CASE s'.State = "ERROR"
    BY <1>4, <2>1, <2>3
  <2> QED
    BY <1>1, <1>6, <2>2, <2>3 DEF SlaveVerify, SlaveTypeOK
<1>7. CASE SlaveSetNextBootFlag
  <2>1. /\ s.State = "SET_FLAG" /\ s'.State = "CLEAR_FLAG" /\ s'.bank = s.bank
        /\ s.bank \in Bank /\ s.bank = 1 - BootBank
        /\ flash' = [flash EXCEPT ![s.bank] = SetFlag(flash[s.bank])]
    BY <1>1, <1>7 DEF SlaveSetNextBootFlag, SlaveTypeOK, BootInv, InSession
  <2>2. /\ flash'[s.bank] = SetFlag(flash[s.bank])
        /\ flash'[1 - s.bank] = flash[1 - s.bank]
    BY <1>1, <1>2, <2>1 DEF SlaveTypeOK, Bank
  <2>3. flash'[s.bank].cell = flash[s.bank].cell
    BY <1>1, <2>1, <2>2 DEF SetFlag, SlaveTypeOK
  <2>4. BootBank' = 0
    BY <1>1, <2>1 DEF BootInv, BootBank, Bootable, Bank
  <2>5. staged # NoImage /\ staged = flash[s.bank].cell[1][1]
    BY <1>1, <2>1, ImageFacts DEF Staging, staged
  <2>6. CASE s.bank = 0
    BY <2>1, <2>3, <2>4, <2>5, <2>6 DEF active, staged, Staging
  <2>7. CASE s.bank = 1
    <3>1. BootBank = 0 /\ flash'[0] = flash[0]
      BY <1>2, <2>1, <2>2, <2>7 DEF Bank
    <3> QED
      BY <2>1, <2>3, <2>4, <2>5, <2>7, <3>1 DEF active, staged, Staging
  <2> QED
    BY <2>1, <2>6, <2>7 DEF Bank
<1>8. CASE SlaveClearCurrentBootFlag
  <2>1. /\ s.State = "CLEAR_FLAG" /\ s' = SlaveOff
        /\ s.bank \in Bank /\ 1 - s.bank \in Bank
        /\ flash' = [flash EXCEPT ![1 - s.bank] = ClearFlag(flash[1 - s.bank])]
        /\ \A b \in Bank : flash[b].flag = "set"
    BY <1>1, <1>8 DEF SlaveClearCurrentBootFlag, ResetSlave, SlaveTypeOK, BootInv, Bank
  <2>2. flash'[s.bank] = flash[s.bank] /\ flash'[1 - s.bank].flag = "cleared"
    BY <1>1, <2>1 DEF SlaveTypeOK, ClearFlag, Bank
  <2>3. BootBank' = s.bank /\ BootBank = 0
    BY <2>1, <2>2 DEF BootBank, Bootable, Bank
  <2>4. active' = flash[s.bank].cell[1][1] /\ staged' = NoImage
    BY <2>1, <2>2, <2>3 DEF active, staged, Staging, SlaveOff
  <2>5. CASE s.bank = 0
    BY <2>1, <2>3, <2>4, <2>5 DEF active, staged, Staging
  <2>6. CASE s.bank # 0
    <3>1. Staging
      BY <2>1, <2>3, <2>6 DEF Staging
    <3>2. staged # NoImage /\ staged = flash[s.bank].cell[1][1]
      BY <1>1, <3>1, ImageFacts DEF staged
    <3> QED
      BY <2>4, <3>2
  <2> QED
    BY <2>5, <2>6
<1>9. CASE SlaveBoot \/ SlavePowerLoss
  <2>1. UNCHANGED flash
    BY <1>9 DEF SlaveBoot, SlavePowerLoss
  <2>2. s'.State \notin {"SET_FLAG", "CLEAR_FLAG"}
    <3>1. CASE SlaveBoot
      <4>1. s'.State = "APP"
        BY <3>1 DEF SlaveBoot, SlaveOff
      <4> QED
        BY <4>1
    <3>2. CASE SlavePowerLoss
      <4>1. s'.State = "OFF"
        BY <3>2 DEF SlavePowerLoss, ResetSlave, SlaveOff
      <4> QED
        BY <4>1
    <3> QED
      BY <1>9, <3>1, <3>2
  <2> QED
    BY <1>4, <2>1, <2>2
<1>10. CASE SlaveIdle \/ SlaveDeadline
  <2>1. UNCHANGED flash /\ \E x \in {"FW_VERSION_READY", "ERROR"} :
                               s' = [s EXCEPT !.State = x]
    BY <1>10 DEF SlaveIdle, SlaveDeadline
  <2> QED
    BY <1>1, <1>4, <2>1 DEF SlaveTypeOK
<1>11. ASSUME NEW f, SlaveAnswersAgain(f), s.State \in SlaveListens
       PROVE  UNCHANGED <<active, staged>>
  <2>1. UNCHANGED flash /\ s'.State = s.State /\ s.State \notin {"SET_FLAG", "CLEAR_FLAG"}
    BY <1>1, <1>11 DEF SlaveAnswersAgain, SlaveTypeOK, SlaveListens
  <2> QED
    BY <2>1 DEF active, staged, Staging, BootBank, Bootable
<1>12. ASSUME NEW state, NEW max, NEW frame, NEW f, SlaveAnswers(state, max, frame, f),
              s.State \in SlaveListens, state \notin {"SET_FLAG", "CLEAR_FLAG"}
       PROVE  UNCHANGED <<active, staged>>
  <2>1. /\ UNCHANGED flash /\ s'.State = state
        /\ s.State \notin {"SET_FLAG", "CLEAR_FLAG"}
    BY <1>1, <1>12 DEF SlaveAnswers, SlaveTypeOK, SlaveListens
  <2> QED
    BY <1>12, <2>1 DEF active, staged, Staging, BootBank, Bootable
<1>13. CASE SlaveVersionReqAgain \/ SlaveStartReqAgain \/ SlaveDataAgain
  BY <1>11, <1>13 DEF SlaveVersionReqAgain, SlaveStartReqAgain, SlaveDataAgain,
                      SlaveGot, SlaveListens
<1>14. CASE SlaveVersionReq \/ SlaveStartReq
  BY <1>12, <1>14 DEF SlaveVersionReq, SlaveStartReq, SlaveGot, SlaveListens
<1>15. CASE SlaveEndReq
  <2>1. s.State \in SlaveListens
    BY <1>15 DEF SlaveEndReq, SlaveGot, SlaveListens
  <2>2. CASE SlaveAnswers("END", s.MaxBlockNum, BareCmdFrame(s.tx, "END_RSP"),
                          Got("slave"))
    BY <1>12, <2>1, <2>2
  <2>3. CASE /\ UNCHANGED flash
             /\ \E len, arg : s' = [s EXCEPT !.State = "ERROR", !.RetryTimes = 0,
                                            !.len = len, !.rxArg = arg]
    BY <1>1, <1>4, <2>3 DEF SlaveTypeOK
  <2> QED
    BY <1>15, <2>2, <2>3 DEF SlaveEndReq
<1>16. CASE SlaveRetry
  <2>1. UNCHANGED flash /\ s.State \in SlaveListens
    BY <1>16 DEF SlaveRetry
  <2>2. s'.State = s.State \/ s'.State = "ERROR"
    BY <1>1, <1>16 DEF SlaveRetry, SlaveTypeOK
  <2> QED
    BY <1>4, <2>1, <2>2 DEF SlaveListens
<1>17. CASE SlaveData
  <2>1. s.State = "DATA_READY" /\ s.State \in InSession
    BY <1>17 DEF SlaveData, SlaveNextBlock, SlaveGot, InSession, SlaveListens
  <2>2. s'.State \in {"DATA_READY", "END_READY"}
    BY <1>1, <1>17, <2>1 DEF SlaveData, SlaveTypeOK
  <2>3. flash' = [flash EXCEPT ![s.bank] =
                    WriteCell(flash[s.bank], WriteIndex, Received)]
    BY <1>1, <1>17 DEF SlaveData, SlaveTypeOK
  <2>4. WriteCell(flash[s.bank], WriteIndex, Received).flag = "erased"
    BY <1>1, <2>1, SpareFlags
  <2>5. s.bank \in Bank /\ s.bank # BootBank
    BY <1>1, <2>1, SessionBank
  <2> QED
    BY <1>5, <2>1, <2>2, <2>3, <2>4, <2>5
<1>18. CASE OTA_SlaveInit
  <2> DEFINE target == IF flash[0].flag = "set" THEN 1 ELSE 0
  <2>1. /\ target # BootBank /\ target \in Bank
        /\ s.State = "APP" /\ s'.State = "IDLE"
        /\ flash' = [flash EXCEPT ![target] = OTA_FlashErase(flash[target])]
    BY <1>1, <1>18, BootBankFact DEF OTA_SlaveInit, SlaveTypeOK, Bank
  <2> HIDE DEF target
  <2>2. OTA_FlashErase(flash[target]).flag = "erased"
    BY SlaveAssumption DEF OTA_FlashErase, EraseCells
  <2> QED
    BY <1>5, <2>1, <2>2
<1>19. ASSUME s.State = "ERROR", s' = SlaveOff, NEW n \in 1..ErasedBlocks,
              flash' = [flash EXCEPT ![s.bank] = EraseCells(flash[s.bank], n)]
       PROVE  UNCHANGED <<active, staged>>
  <2>1. s.bank \in Bank /\ s.bank # BootBank
    BY <1>1, <1>19, SessionBank DEF InSession
  <2>2. EraseCells(flash[s.bank], n).flag = "erased"
    BY <1>19, SlaveAssumption DEF EraseCells
  <2> QED
    BY <1>5, <1>19, <2>1, <2>2 DEF SlaveOff
<1>20. CASE SlaveError
  <2>1. ErasedBlocks \in 1..ErasedBlocks
    BY SlaveAssumption
  <2>2. /\ s.State = "ERROR" /\ s' = SlaveOff
        /\ flash' = [flash EXCEPT ![s.bank] = EraseCells(flash[s.bank], ErasedBlocks)]
    BY <1>1, <1>20 DEF SlaveError, ResetSlave, OTA_FlashErase, SlaveTypeOK
  <2> QED
    BY <1>19, <2>1, <2>2
<1>21. CASE SlaveTornErase
  <2>1. 1..(ErasedBlocks - 1) \subseteq 1..ErasedBlocks
    BY SlaveAssumption
  <2>2. CASE s.State = "ERROR"
    BY <1>1, <1>19, <1>21, <2>1, <2>2 DEF SlaveTornErase, ResetSlave, SlaveTypeOK
  <2>3. CASE s.State = "APP"
    <3> DEFINE target == IF flash[0].flag = "set" THEN 1 ELSE 0
    <3>1. target # BootBank /\ target \in Bank
      BY BootBankFact DEF Bank
    <3>2. PICK n \in 1..ErasedBlocks :
            flash' = [flash EXCEPT ![target] = EraseCells(flash[target], n)]
      BY <1>1, <1>21, <2>1, <2>3 DEF SlaveTornErase, SlaveTypeOK
    <3> HIDE DEF target
    <3>3. EraseCells(flash[target], n).flag = "erased" /\ s'.State = "OFF"
      BY <1>21, <3>2, SlaveAssumption DEF EraseCells, SlaveTornErase, ResetSlave, SlaveOff
    <3> QED
      BY <1>5, <2>3, <3>1, <3>2, <3>3
  <2> QED
    BY <1>21, <2>2, <2>3 DEF SlaveTornErase
<1>22. CASE SlaveTornWrite
  <2> DEFINE piece == IF flash[s.bank].cell[WriteIndex] = Received THEN Received
                      ELSE Garbage
             bk == [flash[s.bank] EXCEPT !.cell[WriteIndex] = piece]
  <2>1. /\ s.State = "DATA_READY" /\ s.State \in InSession /\ s'.State = "OFF"
        /\ flash' = [flash EXCEPT ![s.bank] = bk]
    BY <1>1, <1>22 DEF SlaveTornWrite, SlaveNextBlock, SlaveGot, ResetSlave, SlaveOff,
                       InSession, SlaveListens, SlaveTypeOK
  <2>2. bk.flag = "erased"
    BY <1>1, <2>1, SpareFlags
  <2>3. s.bank \in Bank /\ s.bank # BootBank
    BY <1>1, <2>1, SessionBank
  <2> HIDE DEF bk
  <2> QED
    BY <1>5, <2>1, <2>2, <2>3
<1>23. CASE SlaveStep
  BY <1>6, <1>7, <1>8, <1>9, <1>10, <1>13, <1>14, <1>15, <1>16, <1>17, <1>18, <1>20,
     <1>21, <1>22, <1>23 DEF SlaveStep, SlavePoll
<1> QED
  BY <1>3, <1>23 DEF Next, MasterStep, TimeOut, vars

\* A slave of any size, over any air, with power failing at any step,
\* implements the atomic update.
THEOREM Atomic == Spec => ImplementsAtomicUpdate
<1>1. IInv => /\ active = Started
              /\ staged = IF Staging THEN ImageIn(flash[s.bank]) ELSE NoImage
  BY MappingFacts DEF IInv, TypeOK
<1>2. IInv' => (/\ active = Started
                /\ staged = IF Staging THEN ImageIn(flash[s.bank]) ELSE NoImage)'
  BY <1>1, PTL
<1>3. Init => AtomicDevice!Init
  <2> SUFFICES ASSUME Init PROVE AtomicDevice!Init
    OBVIOUS
  <2>1. active \in Image /\ active = Started
    BY <1>1, InitIInv, ImageFacts DEF IInv, TypeOK
  <2>2. ~Staging
    BY DEF Init, SlaveOff, Staging
  <2> QED
    BY <2>1, <2>2 DEF AtomicDevice!Init
<1>4. IInv /\ IInv' /\ [Next]_vars => [AtomicDevice!Next]_(AtomicDevice!vars)
  <2> SUFFICES ASSUME IInv, IInv', [Next]_vars
               PROVE  [AtomicDevice!Next]_(AtomicDevice!vars)
    OBVIOUS
  <2> DEFINE held == IF Staging THEN ImageIn(flash[s.bank]) ELSE NoImage
  <2>1. active = Started /\ staged = held
    BY <1>1
  <2>2. active' = Started' /\ staged' = held'
    BY <1>2
  <2>3. \/ UNCHANGED <<Started, held>>
        \/ /\ held = NoImage /\ held' \in Image /\ Started' = Started
        \/ /\ held # NoImage /\ Started' = held /\ held' = NoImage
        \/ /\ held # NoImage /\ held' = NoImage /\ Started' = Started
    <3> HIDE DEF held
    <3> QED
      BY AtomicStep, <2>1, <2>2
  <2> QED
    BY <2>3 DEF AtomicDevice!Next, AtomicDevice!Stage, AtomicDevice!Commit,
                AtomicDevice!Drop, AtomicDevice!vars
<1> QED
  BY <1>3, <1>4, AlwaysIInv, PTL DEF Spec, ImplementsAtomicUpdate, AtomicDevice!Spec

-----------------------------------------------------------------------------
(***************************************************************************)
(* The two ends of an update stay in step: the request the master repeats  *)
(* is whole, and the slave has the blocks the master sent.                  *)
(***************************************************************************)
\* States of the master after its version check, and of the slave before and
\* after the start of a transfer.
Underway == {"START_RSP_WAIT", "DATA_ACK_WAIT", "END_RSP_WAIT"}
Before == {"OFF", "APP", "IDLE", "FW_VERSION_READY", "ERROR"}
Transfer == {"DATA_READY", "END_READY", "END", "SET_FLAG", "CLEAR_FLAG"}

\* TxFrame of the master is the request of its state, and Len is its length.
RequestInv ==
  /\ m.State \in {"IDLE", "FW_VER_WAIT", "START_RSP_WAIT"} => m.BlockNum = 0 /\ ~m.FinishFlag
  /\ m.State = "FW_VER_WAIT" => m.tx.kind = "VERSION_REQ" /\ m.tx.len = 2 /\ m.len >= 2
  /\ m.State \in Underway => m.len = m.tx.len /\ m.len >= 2
  /\ m.State = "START_RSP_WAIT" => m.tx = CmdFrame("START_REQ", NumBlocks(m.img), 2)
  /\ m.State = "DATA_ACK_WAIT" =>
       /\ m.tx = DataFrame(m.img, m.BlockNum)
       /\ m.BlockNum \in 1 .. NumBlocks(m.img)
       /\ m.FinishFlag <=> m.BlockNum = NumBlocks(m.img)
  /\ m.State = "END_RSP_WAIT" =>
       m.tx.kind = "END_REQ" /\ m.BlockNum = NumBlocks(m.img)

\* One frame at most is on its way.  After the version check, one to the slave is
\* the request of the master and one to the master its answer: what is left of an
\* earlier session is used up before.
FrameInv ==
  /\ \A n \in Node : HasFrame(n) => Got(n).len >= 2
  /\ HasFrame("slave") /\ Got("slave").kind = "DATA" => Got("slave").blk >= 1
  /\ ~(HasFrame("master") /\ HasFrame("slave"))
  /\ m.State \in Underway /\ HasFrame("slave") => Got("slave") = m.tx
  /\ m.State \in Underway /\ HasFrame("master") => Awaits(Got("master"))

\* TxFrame of the slave is the answer that took it to its state.
AnswerInv ==
  /\ s.State \in {"APP", "IDLE", "FW_VERSION_READY", "START_READY"} =>
       s.BlockNum = 0 /\ s.PktCRC = <<>>
  /\ s.State = "START_READY" => s.tx.kind = "VERSION_RSP"
  /\ s.State = "DATA_READY" =>
       IF s.BlockNum = 0 THEN s.tx.kind = "START_RSP"
       ELSE s.tx.kind = "ACK" /\ s.tx.blk = s.BlockNum
  /\ s.State = "END_READY" => s.tx.kind = "ACK" /\ s.tx.blk = s.BlockNum

\* The slave has the blocks of the master's image up to its BlockNum.
Blocks ==
  /\ Len(s.PktCRC) = s.BlockNum
  /\ \A i \in 1 .. s.BlockNum : s.PktCRC[i] = Block(m.img, i)
  /\ s.MaxBlockNum = NumBlocks(m.img)

\* Where the slave is while the master is in each state.
StepInv ==
  /\ HasFrame("master") /\ Got("master").kind = "VERSION_RSP" =>
       s.State \in Before \cup {"START_READY"}
  /\ m.State = "START_RSP_WAIT" /\ s.State \notin Before \cup {"START_READY"} =>
       s.State = "DATA_READY" /\ s.BlockNum = 0 /\ Blocks
  /\ m.State \in {"DATA_ACK_WAIT", "END_RSP_WAIT"} /\ s.State \in Transfer =>
       /\ Blocks
       /\ s.BlockNum \in {m.BlockNum - 1, m.BlockNum}
       /\ HasFrame("master") => s.BlockNum = m.BlockNum
       /\ m.State = "END_RSP_WAIT" \/ s.State # "DATA_READY" => s.BlockNum = NumBlocks(m.img)

SInv == RequestInv /\ FrameInv /\ AnswerInv /\ StepInv

-----------------------------------------------------------------------------
(***************************************************************************)
(* Frames.  With one message at most in a queue, a step takes the frame    *)
(* that waited and may put one into the queue of the peer.                 *)
(***************************************************************************)
\* Device n took its frame and sent none.
NoNewFrame(n) ==
  /\ ~HasFrame(n)'
  /\ HasFrame(Peer(n))' => HasFrame(Peer(n)) /\ Got(Peer(n))' = Got(Peer(n))

\* Device n took its frame and sent f.
SentFrame(n, f) ==
  /\ ~HasFrame(n)'
  /\ HasFrame(Peer(n))' =>
       Got(Peer(n))' = f \/ (HasFrame(Peer(n)) /\ Got(Peer(n))' = Got(Peer(n)))

\* A pop empties the queue of its device and leaves that of the peer alone.
LEMMA PoppedQueues ==
  ASSUME AirTypeOK, OneEventPerOperation, NEW n \in Node
  PROVE  /\ Popped(n) \in [Node -> Seq(Msg)]
         /\ Popped(n)[n] = <<>>
         /\ Popped(n)[Peer(n)] = queue[Peer(n)]
         /\ Peer(n) \in Node /\ Peer(n) # n
<1>1. Peer(n) \in Node /\ Peer(n) # n
  BY DEF Peer, Node
<1>2. Len(queue[n]) <= 1
  BY DEF OneEventPerOperation
<1> QED
  BY <1>1, <1>2, PoppedType

\* MAC_SendData.
LEMMA SentFrames ==
  ASSUME AirTypeOK, OneEventPerOperation, NEW n \in Node, NEW f,
         Transmit(n, Popped(n), f)
  PROVE  SentFrame(n, f)
<1> DEFINE q == Popped(n)
           p == Peer(n)
<1>1. /\ q \in [Node -> Seq(Msg)] /\ q[n] = <<>> /\ q[p] = queue[p]
      /\ p \in Node /\ p # n
  BY PoppedQueues
<1> HIDE DEF q, p
<1>2. CASE queue' = q
  BY <1>1, <1>2 DEF SentFrame, HasFrame, Got, p
<1>3. ASSUME NEW msg \in {[type |-> "INVALID_DATA"], [type |-> "DATA", frame |-> f]},
             radio[p] = "rx", queue' = [q EXCEPT ![p] = Push(q[p], msg)]
      PROVE  SentFrame(n, f)
  <2>1. q[p] = <<>>
    <3>1. Len(queue[p]) = 0 /\ queue[p] \in Seq(Msg)
      BY <1>1, <1>3 DEF OneEventPerOperation, AirTypeOK
    <3> QED
      BY <1>1, <3>1
  <2>2. Push(q[p], msg) = <<msg>> /\ Head(<<msg>>) = msg
    BY <2>1 DEF Push, MSG_QUEUE_LEN
  <2>3. queue'[n] = <<>> /\ Head(queue'[p]) = msg
    BY <1>1, <1>3, <2>2
  <2>4. msg.type = "DATA" => msg.frame = f
    BY <1>3
  <2> QED
    BY <2>3, <2>4 DEF SentFrame, HasFrame, Got, p
<1> QED
  BY <1>2, <1>3 DEF Transmit, q, p

\* Every other end of a pass, and the timeout interrupt.
LEMMA NoFrames ==
  ASSUME AirTypeOK, OneEventPerOperation, NEW n \in Node,
         Listen(n, Popped(n)) \/ Quiet(Popped(n)) \/ ResetAir(n) \/ RxTimeOut(n)
  PROVE  NoNewFrame(n)
<1>1. /\ Popped(n) \in [Node -> Seq(Msg)] /\ Popped(n)[n] = <<>>
      /\ Popped(n)[Peer(n)] = queue[Peer(n)] /\ Peer(n) \in Node /\ Peer(n) # n
  BY PoppedQueues
<1>2. CASE Listen(n, Popped(n)) \/ Quiet(Popped(n))
  BY <1>1, <1>2 DEF Listen, Quiet, NoNewFrame, HasFrame, Got
<1>3. CASE ResetAir(n)
  BY <1>1, <1>3 DEF ResetAir, NoNewFrame, HasFrame, Got, AirTypeOK
<1>4. CASE RxTimeOut(n)
  <2>1. queue[n] = <<>>
    <3>1. Len(queue[n]) = 0 /\ queue[n] \in Seq(Msg)
      BY <1>4 DEF OneEventPerOperation, AirTypeOK, RxTimeOut
    <3> QED
      BY <3>1
  <2>2. Push(queue[n], [type |-> "TIMEOUT"]) = <<[type |-> "TIMEOUT"]>>
    BY <2>1 DEF Push, MSG_QUEUE_LEN
  <2>3. /\ Head(queue'[n]) = [type |-> "TIMEOUT"]
        /\ queue'[Peer(n)] = queue[Peer(n)]
    BY <1>1, <1>4, <2>2 DEF RxTimeOut, AirTypeOK
  <2> QED
    BY <2>3 DEF NoNewFrame, HasFrame, Got
<1> QED
  BY <1>2, <1>3, <1>4

-----------------------------------------------------------------------------
(***************************************************************************)
(* The master.                                                             *)
(***************************************************************************)
\* The last block is the one that leaves at most 48 bytes (OTA_BuildDataFrame).
LEMMA LastBlock ==
  ASSUME NEW img \in Image, NEW n \in Nat
  PROVE  /\ BinSize[img] - n * BlockSize <= BlockSize <=> n + 1 >= NumBlocks(img)
         /\ n + 1 <= NumBlocks(img) => BlockLen(img, n + 1) >= 1
<1>1. BinSize[img] \in Nat /\ BinSize[img] > 48
  BY ImageAssumption DEF BlockSize
<1>2. \A b \in Nat : (b + 47) \div 48 = (b + 48 - 1) \div 48
  OBVIOUS
<1> QED
  BY <1>1, <1>2 DEF NumBlocks, BlockLen, BlockSize

\* What the types say of a frame that waits.
LEMMA WaitingFrame ==
  ASSUME TypeOK, NEW n \in Node, HasFrame(n)
  PROVE  /\ Got(n) \in Frame
         /\ Got(n).kind \in Kind /\ Got(n).blk \in Nat /\ Got(n).len \in Int
         /\ Got(n).kind = "DATA" => Got(n).img \in Image
<1>1. Got(n) \in Frame
  BY GotType DEF TypeOK
<1> QED
  BY <1>1 DEF Frame

\* The fields of the master.
LEMMA MasterFields ==
  ASSUME TypeOK
  PROVE  /\ m.State \in MasterStates /\ m.BlockNum \in Nat /\ m.FinishFlag \in BOOLEAN
         /\ m.tx \in Frame /\ m.tx.len \in Int /\ m.tx.kind \in Kind /\ m.tx.blk \in Nat
         /\ m.len \in Int
<1>1. m.tx \in Frame
  BY DEF TypeOK, MasterTypeOK
<1> QED
  BY <1>1 DEF TypeOK, MasterTypeOK, Frame

\* A step of the master that leaves the waiting states.
LEMMA MasterLeaves ==
  ASSUME TypeOK, SInv, s' = s, NoNewFrame("master"), m'.State \notin MasterWaits,
         m'.State = "IDLE" => m'.BlockNum = 0 /\ ~m'.FinishFlag
  PROVE  SInv'
<1>1. Peer("master") = "slave" /\ Node = {"master", "slave"}
  BY DEF Peer, Node
<1>2. RequestInv'
  BY DEF RequestInv, MasterWaits, Underway
<1>3. FrameInv'
  BY <1>1 DEF SInv, FrameInv, NoNewFrame, MasterWaits, Underway
<1>4. AnswerInv'
  BY DEF SInv, AnswerInv
<1>5. StepInv'
  BY DEF StepInv, NoNewFrame, MasterWaits
<1> QED
  BY <1>2, <1>3, <1>4, <1>5 DEF SInv

\* A step of the master that sends its request.
LEMMA MasterAsks ==
  ASSUME TypeOK, SInv, s' = s, NEW f, SentFrame("master", f), RequestInv', StepInv',
         f.len >= 2, f.kind = "DATA" => f.blk >= 1,
         m'.State \in Underway => /\ f = m'.tx
                                  /\ HasFrame("slave") => Got("slave") = f
  PROVE  SInv'
<1>1. Peer("master") = "slave" /\ Node = {"master", "slave"}
  BY DEF Peer, Node
<1>2. FrameInv'
  BY <1>1 DEF SInv, FrameInv, SentFrame
<1>3. AnswerInv'
  BY DEF SInv, AnswerInv
<1> QED
  BY <1>2, <1>3 DEF SInv

\* A repeated request is the request itself once the version check is over: no
\* frame that could have changed Len was taken.
LEMMA MasterRepeats ==
  ASSUME TypeOK, OneEventPerOperation, SInv, s' = s, MasterRetry
  PROVE  SInv'
<1> DEFINE len == IF HasFrame("master") THEN Got("master").len ELSE m.len
<1>1. /\ AirTypeOK /\ "master" \in Node /\ Peer("master") = "slave"
      /\ m.State \in MasterStates /\ m.tx \in Frame /\ m.tx.len \in Int /\ len \in Int
  BY MasterFields, WaitingFrame DEF TypeOK, Node, Peer
<1>2. m.State \in MasterWaits /\ ~MasterAnswered
  BY DEF MasterRetry
<1>3. m.State \in Underway => ~HasFrame("master") /\ len = m.tx.len
  BY <1>2 DEF SInv, FrameInv, RequestInv, MasterAnswered
<1>4. len >= 2
  BY <1>1, <1>2 DEF SInv, FrameInv, RequestInv, MasterWaits, Underway
<1>5. CASE /\ \E times, arg : m' = [m EXCEPT !.RetryTimes = times, !.len = len, !.rxArg = arg]
           /\ Transmit("master", Popped("master"), [m.tx EXCEPT !.len = len])
  <2> DEFINE f == [m.tx EXCEPT !.len = len]
  <2>1. /\ m'.State = m.State /\ m'.BlockNum = m.BlockNum /\ m'.FinishFlag = m.FinishFlag
        /\ m'.tx = m.tx /\ m'.img = m.img /\ m'.len = len
    BY <1>5 DEF TypeOK, MasterTypeOK
  <2>2. SentFrame("master", f)
    BY <1>1, <1>5, SentFrames
  <2>3. f.len >= 2 /\ f.kind = m.tx.kind /\ f.blk = m.tx.blk
    BY <1>1, <1>4 DEF Frame
  <2>4. m.State \in Underway => f = m.tx
    BY <1>1, <1>3 DEF Frame
  <2>5. m.tx.kind = "DATA" => m.tx.blk >= 1
    BY <1>2 DEF SInv, RequestInv, MasterWaits, Underway, DataFrame, CmdFrame
  <2>6. RequestInv'
    BY <1>2, <1>3, <1>4, <2>1 DEF SInv, RequestInv, MasterWaits, Underway
  <2>7. StepInv'
    BY <2>1, <2>2 DEF SInv, StepInv, SentFrame, Blocks
  <2>8. m'.State \in Underway => /\ f = m'.tx
                                 /\ HasFrame("slave") => Got("slave") = f
    BY <2>1, <2>4 DEF SInv, FrameInv
  <2> HIDE DEF f
  <2> QED
    BY <2>2, <2>3, <2>5, <2>6, <2>7, <2>8, MasterAsks
<1>6. CASE /\ \E arg : m' = [m EXCEPT !.State = "ERROR", !.len = len, !.rxArg = arg]
           /\ Quiet(Popped("master"))
  <2>1. m'.State = "ERROR"
    BY <1>6 DEF TypeOK, MasterTypeOK
  <2>2. NoNewFrame("master")
    BY <1>1, <1>6, NoFrames
  <2> QED
    BY <2>1, <2>2, MasterLeaves DEF MasterWaits
<1> QED
  BY <1>5, <1>6 DEF MasterRetry

\* A new request, built when its predecessor was answered or a session begins.
LEMMA MasterSendsStep ==
  ASSUME TypeOK, OneEventPerOperation, SInv, s' = s,
         NEW state \in MasterWaits, NEW block, NEW finish, NEW frame, NEW arg,
         MasterSends(state, block, finish, frame, arg),
         frame.len \in Int, frame.len >= 2, frame.kind = "DATA" => frame.blk >= 1,
         state = "FW_VER_WAIT" \/ ~HasFrame("slave"),
         RequestInv', StepInv'
  PROVE  SInv'
<1>1. m'.State = state /\ m'.tx = frame /\ m'.len = frame.len
  BY DEF MasterSends, TypeOK, MasterTypeOK
<1>2. SentFrame("master", frame)
  BY SentFrames DEF MasterSends, TypeOK, Node
<1> QED
  BY <1>1, <1>2, MasterAsks DEF Underway

\* Every step of the master keeps the two ends in step.
LEMMA MasterStepInv ==
  ASSUME TypeOK, MasterHasImage, OneEventPerOperation, SInv, MasterStep
  PROVE  SInv'
<1>1. /\ AirTypeOK /\ MasterTypeOK /\ "master" \in Node /\ Peer("master") = "slave"
      /\ s' = s /\ flash' = flash
      /\ m.State \in MasterStates /\ m.BlockNum \in Nat /\ m.FinishFlag \in BOOLEAN
  BY MasterFields DEF TypeOK, Node, Peer, MasterStep
<1>2. MasterAnswered => HasFrame("master") /\ ~HasFrame("slave")
  BY DEF MasterAnswered, SInv, FrameInv
<1>3. ASSUME ResetAir("master") \/ Quiet(Popped("master")), m'.State \notin MasterWaits,
             m'.State = "IDLE" => m'.BlockNum = 0 /\ ~m'.FinishFlag
      PROVE  SInv'
  BY <1>1, <1>3, NoFrames, MasterLeaves
<1>4. CASE MasterInit \/ MasterReboot \/ MasterPowerLoss
  <2>1. ResetAir("master")
    BY <1>4 DEF MasterInit, MasterReboot, MasterPowerLoss
  <2>2. m'.State \in {"IDLE", "OFF"} /\ m'.BlockNum = 0 /\ ~m'.FinishFlag
    <3>1. CASE MasterInit
      <4>1. PICK img \in Image : m' = [MasterOff EXCEPT !.State = "IDLE", !.img = img]
        BY <3>1 DEF MasterInit
      <4> QED
        BY <4>1 DEF MasterOff
    <3>2. CASE m' = MasterOff
      BY <3>2 DEF MasterOff
    <3> QED
      BY <1>4, <3>1, <3>2 DEF MasterReboot, MasterPowerLoss
  <2> QED
    BY <1>3, <2>1, <2>2 DEF MasterWaits
<1>5. CASE MasterDeadline \/ MasterEndRsp
  <2>1. m'.State \in {"ERROR", "END"}
    BY <1>1, <1>5 DEF MasterDeadline, MasterEndRsp, MasterTypeOK
  <2> QED
    BY <1>3, <1>5, <2>1 DEF MasterDeadline, MasterEndRsp, MasterWaits
<1>6. CASE MasterIdle
  <2> DEFINE frame == BareCmdFrame(m.tx, "VERSION_REQ")
  <2>1. /\ m.State = "IDLE"
        /\ MasterSends("FW_VER_WAIT", m.BlockNum, m.FinishFlag, frame, m.rxArg)
    BY <1>6 DEF MasterIdle
  <2>2. frame.kind = "VERSION_REQ" /\ frame.len = 2
    BY DEF BareCmdFrame
  <2>3. /\ m'.State = "FW_VER_WAIT" /\ m'.tx = frame /\ m'.len = frame.len
        /\ m'.BlockNum = m.BlockNum /\ m'.FinishFlag = m.FinishFlag
    BY <1>1, <2>1 DEF MasterSends, MasterTypeOK
  <2>4. RequestInv'
    BY <2>1, <2>2, <2>3 DEF SInv, RequestInv, Underway
  <2>5. SentFrame("master", frame)
    BY <1>1, <2>1, SentFrames DEF MasterSends
  <2>6. StepInv'
    BY <2>3, <2>5 DEF StepInv, SentFrame
  <2> HIDE DEF frame
  <2> QED
    BY <1>1, <2>1, <2>2, <2>4, <2>6, MasterSendsStep DEF MasterWaits
<1>7. CASE MasterVersionRsp
  <2> DEFINE frame == CmdFrame("START_REQ", NumBlocks(m.img), 2)
             version == RxArg(m.rxArg, Got("master"))
  <2>1. /\ m.State = "FW_VER_WAIT" /\ MasterAnswered /\ Got("master").kind = "VERSION_RSP"
    BY <1>7 DEF MasterVersionRsp, MasterAnswered, Awaits
  <2>2. CASE MasterSends("START_RSP_WAIT", m.BlockNum, m.FinishFlag, frame, version)
    <3>1. frame.kind = "START_REQ" /\ frame.len = 4
      BY DEF CmdFrame
    <3>2. /\ m'.State = "START_RSP_WAIT" /\ m'.tx = frame /\ m'.len = frame.len
          /\ m'.BlockNum = m.BlockNum /\ m'.FinishFlag = m.FinishFlag /\ m'.img = m.img
      BY <1>1, <2>2 DEF MasterSends, MasterTypeOK
    <3>3. RequestInv'
      BY <2>1, <3>1, <3>2 DEF SInv, RequestInv, Underway
    <3>4. SentFrame("master", frame)
      BY <1>1, <2>2, SentFrames DEF MasterSends
    <3>5. StepInv'
      BY <1>1, <1>2, <2>1, <3>2, <3>4 DEF SInv, StepInv, SentFrame
    <3> HIDE DEF frame, version
    <3> QED
      BY <1>1, <1>2, <2>1, <2>2, <3>1, <3>3, <3>5, MasterSendsStep DEF MasterWaits
  <2>3. CASE /\ \E len, arg : m' = [m EXCEPT !.State = "ERROR", !.RetryTimes = 0,
                                            !.len = len, !.rxArg = arg]
             /\ Quiet(Popped("master"))
    <3>1. m'.State = "ERROR"
      BY <1>1, <2>3 DEF MasterTypeOK
    <3> QED
      BY <1>3, <2>3, <3>1 DEF MasterWaits
  <2> QED
    BY <1>7, <2>2, <2>3 DEF MasterVersionRsp
<1>8. ASSUME MasterSendsBlock, MasterAnswered,
             m.State = "START_RSP_WAIT" \/ (m.State = "DATA_ACK_WAIT" /\ ~m.FinishFlag)
      PROVE  SInv'
  <2> DEFINE n == m.BlockNum + 1
             frame == DataFrame(m.img, n)
             last == m.FinishFlag \/ BinSize[m.img] - m.BlockNum * BlockSize <= BlockSize
  <2>1. m.img \in Image /\ NumBlocks(m.img) \in Nat /\ NumBlocks(m.img) >= 1
    BY <1>8, NumBlocksPositive DEF MasterHasImage
  <2>2. ~m.FinishFlag /\ n <= NumBlocks(m.img) /\ n >= 1
    BY <1>1, <1>8, <2>1 DEF SInv, RequestInv
  <2>3. (last <=> n = NumBlocks(m.img)) /\ BlockLen(m.img, n) >= 1 /\ BlockLen(m.img, n) \in Int
    BY <1>1, <2>1, <2>2, LastBlock, BlockLenType
  <2>4. frame.kind = "DATA" /\ frame.blk = n /\ frame.len = BlockLen(m.img, n) + 3
    BY DEF DataFrame
  <2>5. MasterSends("DATA_ACK_WAIT", n, last, frame, RxArg(m.rxArg, Got("master")))
    BY <1>8 DEF MasterSendsBlock
  <2>6. /\ m'.State = "DATA_ACK_WAIT" /\ m'.tx = frame /\ m'.len = frame.len
        /\ m'.BlockNum = n /\ m'.FinishFlag = last /\ m'.img = m.img
    BY <1>1, <2>5 DEF MasterSends, MasterTypeOK
  <2>7. NumBlocks(m.img)' = NumBlocks(m.img)
    BY <2>6 DEF NumBlocks
  <2>8. RequestInv'
    <3>1. frame.len >= 2
      BY <2>3, <2>4
    <3>2. n \in Nat
      BY <1>1
    <3>3. m'.tx = DataFrame(m'.img, m'.BlockNum)
      BY <2>6
    <3> HIDE DEF last, frame, n
    <3>4. m'.BlockNum \in 1 .. NumBlocks(m.img)
      BY <2>1, <2>2, <2>6, <3>2
    <3>5. m'.FinishFlag <=> m'.BlockNum = NumBlocks(m.img)
      BY <2>3, <2>6
    <3> QED
      BY <2>6, <2>7, <3>1, <3>3, <3>4, <3>5 DEF RequestInv, Underway
  <2>9. SentFrame("master", frame)
    BY <1>1, <2>5, SentFrames DEF MasterSends
  <2>10. Blocks => Blocks'
    BY <1>1, <2>6, <2>7 DEF Blocks, Block, BlockLen
  <2>11. StepInv'
    <3> HIDE DEF frame, last
    <3>1. HasFrame("master")
      BY <1>2, <1>8
    <3>2. /\ s.State \in Transfer => s.State \notin Before \cup {"START_READY"}
          /\ m.BlockNum = n - 1
      BY <1>1 DEF Transfer, Before
    <3>3. s.State \in Transfer => Blocks /\ s.BlockNum = m.BlockNum
      BY <1>1, <1>8, <3>1, <3>2 DEF SInv, StepInv, RequestInv
    <3>4. s.State \in Transfer /\ s.State # "DATA_READY" => s.BlockNum = NumBlocks(m.img)
      BY <1>8, <3>2 DEF SInv, StepInv
    <3> QED
      BY <1>1, <2>6, <2>7, <2>9, <2>10, <3>2, <3>3, <3>4 DEF StepInv, SentFrame
  <2>12. frame.len \in Int /\ frame.len >= 2 /\ frame.blk >= 1
    BY <2>2, <2>3, <2>4
  <2> HIDE DEF frame, last, n
  <2> QED
    BY <1>1, <1>2, <1>8, <2>5, <2>8, <2>11, <2>12, MasterSendsStep DEF MasterWaits
<1>9. CASE MasterStartRsp
  BY <1>8, <1>9 DEF MasterStartRsp
<1>10. CASE MasterDataAck
  <2> DEFINE frame == CmdFrame("END_REQ", BinSize[m.img], 4)
             arg == RxArg(m.rxArg, Got("master"))
  <2>1. CASE ~m.FinishFlag /\ MasterSendsBlock
    BY <1>8, <1>10, <2>1 DEF MasterDataAck
  <2>2. CASE /\ m.FinishFlag
             /\ MasterSends("END_RSP_WAIT", m.BlockNum, m.FinishFlag, frame, arg)
    <3>1. frame.kind = "END_REQ" /\ frame.len = 6
      BY DEF CmdFrame
    <3>2. /\ m'.State = "END_RSP_WAIT" /\ m'.tx = frame /\ m'.len = frame.len
          /\ m'.BlockNum = m.BlockNum /\ m'.FinishFlag = m.FinishFlag /\ m'.img = m.img
      BY <1>1, <2>2 DEF MasterSends, MasterTypeOK
    <3>3. NumBlocks(m.img)' = NumBlocks(m.img) /\ m.BlockNum = NumBlocks(m.img)
      BY <1>10, <2>2, <3>2 DEF MasterDataAck, NumBlocks, SInv, RequestInv
    <3>4. RequestInv'
      BY <3>1, <3>2, <3>3 DEF RequestInv, Underway
    <3>5. SentFrame("master", frame)
      BY <1>1, <2>2, SentFrames DEF MasterSends
    <3>6. Blocks => Blocks'
      BY <1>1, <3>2, <3>3 DEF Blocks, Block, BlockLen
    <3>7. s.State \in Transfer => Blocks /\ s.BlockNum = m.BlockNum
      BY <1>2, <1>10 DEF MasterDataAck, SInv, StepInv
    <3>8. StepInv'
      BY <1>1, <3>2, <3>3, <3>5, <3>6, <3>7 DEF StepInv, SentFrame
    <3>9. /\ ~HasFrame("slave") /\ "END_RSP_WAIT" \in MasterWaits
          /\ frame.len \in Int /\ frame.len >= 2 /\ frame.kind # "DATA"
      BY <1>2, <1>10, <3>1 DEF MasterDataAck, MasterWaits
    <3> HIDE DEF frame, arg
    <3> QED
      BY <1>1, <2>2, <3>4, <3>8, <3>9, MasterSendsStep
  <2> QED
    BY <1>10, <2>1, <2>2 DEF MasterDataAck
<1>11. CASE MasterRetry
  BY <1>1, <1>11, MasterRepeats
<1> QED
  BY <1>4, <1>5, <1>6, <1>7, <1>9, <1>10, <1>11 DEF MasterStep, MasterPoll

-----------------------------------------------------------------------------
(***************************************************************************)
(* The slave.                                                              *)
(***************************************************************************)
\* The fields of the slave.
LEMMA SlaveTyped ==
  ASSUME TypeOK
  PROVE  /\ s.State \in SlaveStates /\ s.BlockNum \in Nat /\ s.MaxBlockNum \in Nat
         /\ s.PktCRC \in Seq(Piece) /\ s.tx \in Frame /\ s.tx.kind \in Kind
         /\ s.tx.blk \in Nat /\ s.tx.len \in Int /\ s.rxArg \in Nat
<1>1. s.tx \in Frame
  BY DEF TypeOK, SlaveTypeOK
<1> QED
  BY <1>1 DEF TypeOK, SlaveTypeOK, Frame

\* While the master stays, its request does.
LEMMA RequestStays == m' = m /\ RequestInv => RequestInv'
BY DEF RequestInv, Underway, DataFrame, BlockLen, NumBlocks, CmdFrame

\* A slave that has used up a frame, and sent none, leaves the others as they are.
LEMMA FramesStay ==
  ASSUME FrameInv, NEW n \in Node, NoNewFrame(n) \/ UNCHANGED air, m' = m
  PROVE  FrameInv'
<1>1. CASE NoNewFrame(n)
  BY <1>1 DEF FrameInv, NoNewFrame, Node, Peer, Awaits
<1>2. CASE UNCHANGED air
  BY <1>2 DEF FrameInv, HasFrame, Got, air, Awaits
<1> QED
  BY <1>1, <1>2

\* A step of the slave to a state before the transfer.
LEMMA SlaveLeaves ==
  ASSUME TypeOK, SInv, m' = m, NoNewFrame("slave") \/ UNCHANGED air,
         s'.State \in Before,
         s'.State \in {"APP", "IDLE", "FW_VERSION_READY"} => s'.BlockNum = 0 /\ s'.PktCRC = <<>>
  PROVE  SInv'
<1>1. RequestInv' /\ FrameInv'
  BY RequestStays, FramesStay DEF SInv, Node
<1>2. AnswerInv'
  BY DEF AnswerInv, Before
<1>3. StepInv'
  BY DEF StepInv, Before, Transfer
<1> QED
  BY <1>1, <1>2, <1>3 DEF SInv

\* A step of the slave that leaves what it received, and its answer unless it
\* needs none any more.
LEMMA SlaveStays ==
  ASSUME TypeOK, SInv, m' = m, NoNewFrame("slave") \/ UNCHANGED air,
         s'.BlockNum = s.BlockNum, s'.PktCRC = s.PktCRC, s'.MaxBlockNum = s.MaxBlockNum,
         s'.tx = s.tx,
         \/ s'.State = s.State
         \/ s.State \in {"END", "SET_FLAG"} /\ s'.State \in {"SET_FLAG", "CLEAR_FLAG"}
  PROVE  SInv'
<1>1. RequestInv' /\ FrameInv'
  BY RequestStays, FramesStay DEF SInv, Node
<1>2. AnswerInv'
  BY DEF SInv, AnswerInv
<1>3. Blocks => Blocks'
  BY DEF Blocks, Block, BlockLen, NumBlocks
<1>4. HasFrame("master")' => HasFrame("master") /\ Got("master")' = Got("master")
  BY DEF NoNewFrame, Peer, air, HasFrame, Got
<1>5. NumBlocks(m.img)' = NumBlocks(m.img)
  BY DEF NumBlocks
<1>6. StepInv'
  <2>1. StepInv
    BY DEF SInv
  <2> QED
    BY <1>3, <1>4, <1>5, <2>1 DEF StepInv, Before, Transfer
<1> QED
  BY <1>1, <1>2, <1>6 DEF SInv

\* A step of the slave that answers the frame it took with f.
LEMMA SlaveAnswerStep ==
  ASSUME TypeOK, SInv, m' = m, NEW f, SentFrame("slave", f), HasFrame("slave"),
         f.len >= 2, m.State \in Underway => Awaits(f), AnswerInv',
         HasFrame("master")' /\ Got("master")' = f => StepInv',
         ~HasFrame("master")' => StepInv'
  PROVE  SInv'
<1>1. Peer("slave") = "master" /\ Node = {"master", "slave"}
  BY DEF Peer, Node
<1>2. ~HasFrame("slave")' /\ (HasFrame("master")' => Got("master")' = f)
  BY <1>1 DEF SInv, FrameInv, SentFrame
<1>3. Awaits(f) => Awaits(f)'
  BY DEF Awaits
<1>4. FrameInv'
  BY <1>1, <1>2, <1>3 DEF FrameInv, Awaits
<1>5. RequestInv'
  BY RequestStays DEF SInv
<1> QED
  BY <1>2, <1>4, <1>5 DEF SInv

\* The frame a slave takes while the master is underway is the master's request.
LEMMA TakenRequest ==
  ASSUME TypeOK, SInv, HasFrame("slave"), m.State \in Underway
  PROVE  /\ m.State = "START_RSP_WAIT" =>
              /\ Got("slave").kind = "START_REQ" /\ Got("slave").len = 4
              /\ Got("slave").arg = NumBlocks(m.img)
         /\ m.State = "DATA_ACK_WAIT" =>
              /\ Got("slave").kind = "DATA" /\ Got("slave").blk = m.BlockNum
              /\ Received = Block(m.img, m.BlockNum)
              /\ m.BlockNum >= 1
         /\ m.State = "END_RSP_WAIT" =>
              Got("slave").kind = "END_REQ" /\ m.BlockNum = NumBlocks(m.img)
<1>1. Got("slave") = m.tx
  BY DEF SInv, FrameInv
<1>2. CASE m.State = "START_RSP_WAIT"
  BY <1>1, <1>2 DEF SInv, RequestInv, CmdFrame
<1>3. CASE m.State = "DATA_ACK_WAIT"
  <2>1. m.tx = DataFrame(m.img, m.BlockNum) /\ m.BlockNum >= 1
    BY <1>3 DEF SInv, RequestInv
  <2>2. BlockLen(m.img, m.BlockNum) \in Int
    <3>1. m.tx.kind = "DATA" /\ m.tx.img = m.img
      BY <2>1 DEF DataFrame
    <3>2. m.img \in Image
      BY <1>1, <3>1, WaitingFrame DEF Node
    <3> QED
      BY <3>2, BlockLenType, MasterFields
  <2>3. /\ m.tx.kind = "DATA" /\ m.tx.img = m.img /\ m.tx.blk = m.BlockNum
        /\ m.tx.len = BlockLen(m.img, m.BlockNum) + 3
    BY <2>1 DEF DataFrame
  <2>4. m.tx.len - 3 = BlockLen(m.img, m.BlockNum)
    <3>1. \A k \in Int : k + 3 - 3 = k
      OBVIOUS
    <3> QED
      BY <2>2, <2>3, <3>1
  <2>5. Received = Block(m.img, m.BlockNum)
    BY <1>1, <2>3, <2>4, Zenon DEF Received, Block
  <2> QED
    BY <1>1, <1>3, <2>1, <2>3, <2>5
<1>4. CASE m.State = "END_RSP_WAIT"
  BY <1>1, <1>4 DEF SInv, RequestInv
<1> QED
  BY <1>2, <1>3, <1>4

\* Every step of the slave keeps the two ends in step.
LEMMA SlaveStepInv ==
  ASSUME TypeOK, OneEventPerOperation, SInv, SlaveStep
  PROVE  SInv'
<1> DEFINE f == Got("slave")
<1>1. /\ AirTypeOK /\ "slave" \in Node /\ Peer("slave") = "master" /\ m' = m
      /\ s \in [State: SlaveStates, run: Bank, bank: Bank, BlockNum: Nat,
               MaxBlockNum: Nat, TotalBinSize: Int, PktCRC: Seq(Piece),
               RetryTimes: 0..OTA_RETRY_MAX, tx: Frame, len: Int, rxArg: Nat]
  BY DEF TypeOK, SlaveTypeOK, Node, Peer, SlaveStep
<1>2. /\ s.tx.kind \in Kind /\ s.tx.blk \in Nat /\ s.tx \in Frame /\ s.BlockNum \in Nat
      /\ s.PktCRC \in Seq(Piece)
  BY SlaveTyped
<1>3. RequestInv /\ FrameInv /\ AnswerInv /\ StepInv
  BY DEF SInv
<1>4. ASSUME HasFrame("slave")
      PROVE  /\ f.len \in Int /\ f.len >= 2 /\ f.blk \in Nat
             /\ f.kind = "DATA" => f.blk >= 1
  BY <1>1, <1>3, <1>4, WaitingFrame DEF FrameInv
<1>5. ASSUME ResetAir("slave"), s' = SlaveOff
      PROVE  SInv'
  BY <1>1, <1>5, NoFrames, SlaveLeaves DEF SlaveOff, Before
<1>6. ASSUME Quiet(Popped("slave")), s'.State = "ERROR"
      PROVE  SInv'
  BY <1>1, <1>6, NoFrames, SlaveLeaves DEF Before
<1>7. CASE SlaveBoot
  <2>1. s' = [SlaveOff EXCEPT !.State = "APP", !.run = BootBank] /\ UNCHANGED air
    BY <1>7 DEF SlaveBoot
  <2>2. s'.State = "APP" /\ s'.BlockNum = 0 /\ s'.PktCRC = <<>>
    BY <2>1 DEF SlaveOff
  <2> QED
    BY <1>1, <2>1, <2>2, SlaveLeaves DEF Before
<1>8. CASE OTA_SlaveInit
  <2>1. /\ s.State = "APP" /\ UNCHANGED air /\ s'.State = "IDLE"
        /\ s'.BlockNum = s.BlockNum /\ s'.PktCRC = s.PktCRC
    BY <1>1, <1>8 DEF OTA_SlaveInit
  <2> QED
    BY <1>1, <1>3, <2>1, SlaveLeaves DEF Before, AnswerInv
<1>9. CASE SlaveIdle
  <2>1. /\ s.State = "IDLE" /\ Listen("slave", Popped("slave")) /\ s'.State = "FW_VERSION_READY"
        /\ s'.BlockNum = s.BlockNum /\ s'.PktCRC = s.PktCRC
    BY <1>1, <1>9 DEF SlaveIdle
  <2> QED
    BY <1>1, <1>3, <2>1, NoFrames, SlaveLeaves DEF Before, AnswerInv
<1>10. CASE SlaveDeadline
  BY <1>1, <1>6, <1>10 DEF SlaveDeadline
<1>11. CASE SlaveClearCurrentBootFlag \/ SlaveError \/ SlavePowerLoss \/ SlaveTornWrite \/ SlaveTornErase
  <2>1. ResetSlave
    BY <1>11 DEF SlaveClearCurrentBootFlag, SlaveError, SlavePowerLoss, SlaveTornWrite, SlaveTornErase
  <2> QED
    BY <1>5, <2>1 DEF ResetSlave
<1>12. CASE SlaveVerify \/ SlaveSetNextBootFlag
  <2>1. /\ s'.BlockNum = s.BlockNum /\ s'.PktCRC = s.PktCRC /\ s'.MaxBlockNum = s.MaxBlockNum
        /\ s'.tx = s.tx /\ s.State \in {"END", "SET_FLAG"}
        /\ s'.State \in {"SET_FLAG", "CLEAR_FLAG", "ERROR"}
        /\ s'.State = "ERROR" => Quiet(Popped("slave"))
        /\ Quiet(Popped("slave")) \/ UNCHANGED air
    BY <1>1, <1>12 DEF SlaveVerify, SlaveSetNextBootFlag
  <2> QED
    BY <1>1, <1>6, <2>1, NoFrames, SlaveStays
<1>13. CASE SlaveRetry
  <2> DEFINE len == IF HasFrame("slave") THEN Got("slave").len ELSE s.len
             arg == IF HasFrame("slave") THEN RxArg(s.rxArg, Got("slave")) ELSE s.rxArg
  <2>1. CASE /\ s' = [s EXCEPT !.RetryTimes = @ + 1, !.len = len, !.rxArg = arg]
             /\ Listen("slave", Popped("slave"))
    <3>1. /\ s'.State = s.State /\ s'.BlockNum = s.BlockNum /\ s'.PktCRC = s.PktCRC
          /\ s'.MaxBlockNum = s.MaxBlockNum /\ s'.tx = s.tx
      BY <1>1, <2>1
    <3> QED
      BY <1>1, <2>1, <3>1, NoFrames, SlaveStays
  <2>2. CASE /\ s' = [s EXCEPT !.State = "ERROR", !.len = len, !.rxArg = arg]
             /\ Quiet(Popped("slave"))
    <3>1. s'.State = "ERROR"
      BY <1>1, <2>2
    <3> QED
      BY <1>6, <2>2, <3>1
  <2> QED
    BY <1>13, <2>1, <2>2 DEF SlaveRetry
<1>14. ASSUME SlaveVersionReqAgain \/ SlaveStartReqAgain \/ SlaveDataAgain
       PROVE  SInv'
  <2> DEFINE g == [s.tx EXCEPT !.len = f.len]
  <2>1. /\ HasFrame("slave") /\ SlaveAnswersAgain(f)
        /\ s.State \in {"START_READY", "DATA_READY", "END_READY"}
    BY <1>14 DEF SlaveVersionReqAgain, SlaveStartReqAgain, SlaveDataAgain, SlaveGot, SlaveTook
  <2>2. /\ s'.State = s.State /\ s'.BlockNum = s.BlockNum /\ s'.PktCRC = s.PktCRC
        /\ s'.MaxBlockNum = s.MaxBlockNum /\ s'.tx = s.tx
    BY <1>1, <2>1 DEF SlaveAnswersAgain
  <2>3. g.kind = s.tx.kind /\ g.blk = s.tx.blk /\ g.len = f.len
    BY <1>2 DEF Frame
  <2>4. SentFrame("slave", g)
    BY <1>1, <2>1, SentFrames DEF SlaveAnswersAgain
  <2>5. AnswerInv'
    BY <1>3, <2>2 DEF AnswerInv
  <2>6. CASE SlaveVersionReqAgain
    <3>1. s.State = "START_READY" /\ f.kind = "VERSION_REQ"
      BY <2>6 DEF SlaveVersionReqAgain, SlaveGot
    <3>2. m.State \notin Underway
      BY <2>1, <3>1, TakenRequest DEF Underway
    <3>3. StepInv'
      BY <1>1, <2>2, <3>1, <3>2 DEF StepInv, Underway
    <3> HIDE DEF g
    <3> QED
      BY <1>1, <1>4, <2>1, <2>3, <2>4, <2>5, <3>2, <3>3, SlaveAnswerStep
  <2>7. CASE SlaveStartReqAgain
    <3>1. s.State = "DATA_READY" /\ f.kind = "START_REQ"
      BY <2>7 DEF SlaveStartReqAgain, SlaveGot
    <3>2. m.State \in Underway => m.State = "START_RSP_WAIT"
      BY <2>1, <3>1, TakenRequest DEF Underway
    <3>3. m.State = "START_RSP_WAIT" => s.BlockNum = 0 /\ Blocks
      BY <1>3, <3>1 DEF StepInv, Before
    <3>4. m.State \in Underway => Awaits(g)
      BY <1>3, <2>3, <3>1, <3>2, <3>3 DEF AnswerInv, Awaits
    <3>5. g.kind # "VERSION_RSP"
      BY <1>3, <2>3, <3>1 DEF AnswerInv
    <3>6. Blocks => Blocks'
      BY <1>1, <2>2 DEF Blocks, Block, BlockLen, NumBlocks
    <3>7. (HasFrame("master")' => Got("master")' = g) => StepInv'
      BY <1>1, <2>2, <3>1, <3>2, <3>3, <3>5, <3>6 DEF StepInv, Underway
    <3> HIDE DEF g
    <3> QED
      BY <1>1, <1>4, <2>1, <2>3, <2>4, <2>5, <3>4, <3>7, SlaveAnswerStep
  <2>8. CASE SlaveDataAgain
    <3>1. /\ s.State \in {"DATA_READY", "END_READY"} /\ f.kind = "DATA" /\ f.blk = s.BlockNum
          /\ s.BlockNum >= 1
      BY <1>4, <2>1, <2>8 DEF SlaveDataAgain, SlaveGot
    <3>2. g.kind = "ACK" /\ g.blk = s.BlockNum
      BY <1>3, <2>3, <3>1 DEF AnswerInv
    <3>3. m.State \in Underway => m.State = "DATA_ACK_WAIT" /\ m.BlockNum = s.BlockNum
      BY <2>1, <3>1, TakenRequest DEF Underway
    <3>4. m.State \in Underway => Awaits(g)
      BY <3>2, <3>3 DEF Awaits
    <3>5. Blocks => Blocks'
      BY <1>1, <2>2 DEF Blocks, Block, BlockLen, NumBlocks
    <3>6. NumBlocks(m.img)' = NumBlocks(m.img)
      BY <1>1 DEF NumBlocks
    <3>7. (HasFrame("master")' => Got("master")' = g) => StepInv'
      BY <1>1, <1>3, <2>2, <3>1, <3>2, <3>3, <3>5, <3>6 DEF StepInv, Underway, Transfer
    <3> HIDE DEF g
    <3> QED
      BY <1>1, <1>4, <2>1, <2>3, <2>4, <2>5, <3>4, <3>7, SlaveAnswerStep
  <2> QED
    BY <1>14, <2>6, <2>7, <2>8
<1>15. CASE SlaveVersionReq
  <2> DEFINE g == CmdFrame("VERSION_RSP", RunningVersion, 2)
  <2>1. /\ s.State = "FW_VERSION_READY" /\ HasFrame("slave") /\ f.kind = "VERSION_REQ"
        /\ SlaveAnswers("START_READY", s.MaxBlockNum, g, f)
    BY <1>15 DEF SlaveVersionReq, SlaveGot, SlaveTook
  <2>2. /\ s'.State = "START_READY" /\ s'.BlockNum = s.BlockNum /\ s'.PktCRC = s.PktCRC
        /\ s'.tx = g
    BY <1>1, <2>1 DEF SlaveAnswers
  <2>3. g.kind = "VERSION_RSP" /\ g.len = 4
    BY DEF CmdFrame
  <2>4. SentFrame("slave", g)
    BY <1>1, <2>1, SentFrames DEF SlaveAnswers
  <2>5. AnswerInv'
    BY <1>3, <2>1, <2>2, <2>3 DEF AnswerInv
  <2>6. m.State \notin Underway
    BY <2>1, TakenRequest DEF Underway
  <2>7. StepInv'
    BY <1>1, <2>2, <2>6 DEF StepInv, Underway
  <2> HIDE DEF g
  <2> QED
    BY <1>1, <2>1, <2>3, <2>4, <2>5, <2>6, <2>7, SlaveAnswerStep
<1>16. CASE SlaveStartReq
  <2> DEFINE g == BareCmdFrame(s.tx, "START_RSP")
             max == RxArg(s.rxArg, f)
  <2>1. /\ s.State = "START_READY" /\ HasFrame("slave") /\ f.kind = "START_REQ"
        /\ SlaveAnswers("DATA_READY", max, g, f)
    BY <1>16 DEF SlaveStartReq, SlaveGot, SlaveTook
  <2>2. /\ s'.State = "DATA_READY" /\ s'.BlockNum = s.BlockNum /\ s'.PktCRC = s.PktCRC
        /\ s'.tx = g /\ s'.MaxBlockNum = max
    BY <1>1, <2>1 DEF SlaveAnswers
  <2>3. s.BlockNum = 0 /\ s.PktCRC = <<>>
    BY <1>3, <2>1 DEF AnswerInv
  <2>4. g.kind = "START_RSP" /\ g.len = 2
    BY DEF BareCmdFrame
  <2>5. SentFrame("slave", g)
    BY <1>1, <2>1, SentFrames DEF SlaveAnswers
  <2>6. AnswerInv'
    BY <2>2, <2>3, <2>4 DEF AnswerInv
  <2>7. m.State \in Underway => m.State = "START_RSP_WAIT" /\ max = NumBlocks(m.img)
    BY <2>1, TakenRequest DEF Underway, RxArg, ValueEnd
  <2>8. m.State = "START_RSP_WAIT" => Blocks'
    BY <1>1, <2>2, <2>3, <2>7 DEF Blocks, NumBlocks, Underway
  <2>9. (HasFrame("master")' => Got("master")' = g) => StepInv'
    BY <1>1, <2>2, <2>3, <2>4, <2>7, <2>8 DEF StepInv, Underway
  <2>10. m.State \in Underway => Awaits(g)
    BY <2>4, <2>7 DEF Awaits
  <2> HIDE DEF g
  <2> QED
    BY <1>1, <2>1, <2>4, <2>5, <2>6, <2>9, <2>10, SlaveAnswerStep
<1>17. CASE SlaveData
  <2> DEFINE g == AckFrame(f.blk)
  <2>1. /\ s.State = "DATA_READY" /\ HasFrame("slave") /\ f.kind = "DATA"
        /\ f.blk = s.BlockNum + 1 /\ Transmit("slave", Popped("slave"), g)
    BY <1>17 DEF SlaveData, SlaveNextBlock, SlaveGot, SlaveTook
  <2>2. /\ s'.State = IF f.blk = s.MaxBlockNum THEN "END_READY" ELSE "DATA_READY"
        /\ s'.BlockNum = f.blk /\ s'.MaxBlockNum = s.MaxBlockNum
        /\ s'.PktCRC = Append(s.PktCRC, Received) /\ s'.tx = g
    BY <1>1, <1>17, <2>1 DEF SlaveData
  <2>3. g.kind = "ACK" /\ g.blk = f.blk /\ g.len = 3
    BY DEF AckFrame
  <2>4. SentFrame("slave", g)
    BY <1>1, <2>1, SentFrames
  <2>5. AnswerInv'
    BY <1>2, <2>1, <2>2, <2>3 DEF AnswerInv
  <2>6. m.State \in Underway =>
          /\ m.State = "DATA_ACK_WAIT" /\ f.blk = m.BlockNum
          /\ Received = Block(m.img, f.blk)
    BY <2>1, TakenRequest DEF Underway
  <2>7. m.State \in Underway => Awaits(g)
    BY <2>3, <2>6 DEF Awaits
  <2>8. m.State \in Underway => Blocks
    BY <1>3, <2>1, <2>6 DEF StepInv, Transfer
  <2>9. m.State \in Underway => Blocks'
    <3> SUFFICES ASSUME m.State \in Underway PROVE Blocks'
      OBVIOUS
    <3> DEFINE crc == Append(s.PktCRC, Received)
    <3>1. /\ Len(s.PktCRC) = s.BlockNum /\ s.MaxBlockNum = NumBlocks(m.img)
          /\ \A i \in 1 .. s.BlockNum : s.PktCRC[i] = Block(m.img, i)
      BY <2>8 DEF Blocks
    <3>2. /\ Len(crc) = f.blk
          /\ \A i \in 1 .. f.blk : crc[i] = Block(m.img, i)
      BY <1>2, <2>1, <2>6, <3>1
    <3> HIDE DEF crc
    <3>3. \A i \in 1 .. s'.BlockNum : s'.PktCRC[i] = Block(m.img, i)
      BY <2>2, <3>2 DEF crc
    <3> QED
      BY <1>1, <2>2, <3>1, <3>2, <3>3 DEF Blocks, crc, NumBlocks, Block, BlockLen
  <2>11. NumBlocks(m.img)' = NumBlocks(m.img)
    BY <1>1 DEF NumBlocks
  <2>12. m.State \in Underway => s.MaxBlockNum = NumBlocks(m.img)
    BY <2>8 DEF Blocks
  <2>13. (HasFrame("master")' => Got("master")' = g) => StepInv'
    <3> HIDE DEF g
    <3>1. m'.State = m.State /\ m'.BlockNum = m.BlockNum
      BY <1>1
    <3> QED
      BY <1>1, <1>2, <2>1, <2>2, <2>3, <2>6, <2>9, <2>11, <2>12, <3>1
         DEF StepInv, Underway, Before, Transfer
  <2> HIDE DEF g
  <2> QED
    BY <1>1, <2>1, <2>3, <2>4, <2>5, <2>7, <2>13, SlaveAnswerStep
<1>18. CASE SlaveEndReq
  <2> DEFINE g == BareCmdFrame(s.tx, "END_RSP")
             size == RxArg(s.rxArg, f)
  <2>1. s.State = "END_READY" /\ HasFrame("slave") /\ f.kind = "END_REQ"
    BY <1>18 DEF SlaveEndReq, SlaveGot, SlaveTook
  <2>2. CASE SlaveAnswers("END", s.MaxBlockNum, g, f)
    <3>1. /\ s'.State = "END" /\ s'.BlockNum = s.BlockNum /\ s'.PktCRC = s.PktCRC
          /\ s'.MaxBlockNum = s.MaxBlockNum
      BY <1>1, <2>2 DEF SlaveAnswers
    <3>2. g.kind = "END_RSP" /\ g.len = 2
      BY DEF BareCmdFrame
    <3>3. SentFrame("slave", g)
      BY <1>1, <2>2, SentFrames DEF SlaveAnswers
    <3>4. AnswerInv'
      BY <3>1 DEF AnswerInv
    <3>5. m.State \in Underway => m.State = "END_RSP_WAIT" /\ m.BlockNum = NumBlocks(m.img)
      BY <2>1, TakenRequest DEF Underway
    <3>6. m.State \in Underway => Awaits(g)
      BY <3>2, <3>5 DEF Awaits
    <3>7. m.State \in Underway => Blocks /\ s.BlockNum = NumBlocks(m.img)
      BY <1>3, <2>1, <3>5 DEF StepInv, Transfer
    <3>8. Blocks => Blocks'
      BY <1>1, <3>1 DEF Blocks, Block, BlockLen, NumBlocks
    <3>9. NumBlocks(m.img)' = NumBlocks(m.img)
      BY <1>1 DEF NumBlocks
    <3>10. (HasFrame("master")' => Got("master")' = g) => StepInv'
      <4> HIDE DEF g
      <4> QED
        BY <1>1, <3>1, <3>2, <3>5, <3>7, <3>8, <3>9 DEF StepInv, Underway
    <3> HIDE DEF g
    <3> QED
      BY <1>1, <2>1, <3>2, <3>3, <3>4, <3>6, <3>10, SlaveAnswerStep
  <2>3. CASE /\ s' = [s EXCEPT !.State = "ERROR", !.RetryTimes = 0, !.len = f.len, !.rxArg = size]
             /\ Quiet(Popped("slave"))
    <3>1. s'.State = "ERROR"
      BY <1>1, <2>3
    <3> QED
      BY <1>6, <2>3, <3>1
  <2> QED
    BY <1>18, <2>2, <2>3 DEF SlaveEndReq
<1> QED
  BY <1>7, <1>8, <1>9, <1>10, <1>11, <1>12, <1>13, <1>14, <1>15, <1>16, <1>17, <1>18
     DEF SlaveStep, SlavePoll

-----------------------------------------------------------------------------
(***************************************************************************)
(* The theorems.                                                           *)
(***************************************************************************)
LEMMA InitSInv == Init => SInv
<1> SUFFICES ASSUME Init PROVE SInv
  OBVIOUS
<1>1. /\ m.State = "OFF" /\ s.State = "OFF" /\ \A n \in Node : ~HasFrame(n)
  BY DEF Init, MasterOff, SlaveOff, AirInit, HasFrame
<1> QED
  BY <1>1 DEF SInv, RequestInv, FrameInv, AnswerInv, StepInv, Underway, Before, Transfer, Node

LEMMA NextSInv ==
  TypeOK /\ MasterHasImage /\ OneEventPerOperation /\ SInv /\ [Next]_vars => SInv'
<1> SUFFICES ASSUME TypeOK, MasterHasImage, OneEventPerOperation, SInv, [Next]_vars
             PROVE  SInv'
  OBVIOUS
<1>1. CASE MasterStep
  BY <1>1, MasterStepInv
<1>2. CASE SlaveStep
  BY <1>2, SlaveStepInv
<1>3. CASE \E n \in Node : TimeOut(n)
  <2>1. PICK n \in Node : TimeOut(n)
    BY <1>3
  <2>2. NoNewFrame(n) /\ m' = m /\ s' = s
    BY <2>1, NoFrames DEF TimeOut, TypeOK
  <2>3. RequestInv' /\ FrameInv'
    BY <2>2, RequestStays, FramesStay DEF SInv
  <2>4. AnswerInv'
    BY <2>2 DEF SInv, AnswerInv
  <2>5. Blocks' <=> Blocks
    BY <2>2 DEF Blocks, Block, BlockLen, NumBlocks
  <2>6. HasFrame("master")' => HasFrame("master") /\ Got("master")' = Got("master")
    BY <2>2 DEF NoNewFrame, Node, Peer
  <2>7. StepInv'
    BY <2>2, <2>5, <2>6 DEF SInv, StepInv, NumBlocks
  <2> QED
    BY <2>3, <2>4, <2>7 DEF SInv
<1>4. CASE UNCHANGED vars
  <2>1. m' = m /\ s' = s /\ UNCHANGED air
    BY <1>4 DEF vars
  <2> QED
    BY <2>1, SlaveStays
<1> QED
  BY <1>1, <1>2, <1>3, <1>4 DEF Next

LEMMA AlwaysSInv == Spec => []SInv
<1>1. IInv => TypeOK /\ MasterHasImage
  BY DEF IInv
<1> QED
  BY <1>1, InitSInv, NextSInv, AlwaysIInv, OneEvent, PTL DEF Spec

\* The master never repeats a request shorter than it was built, although every
\* received frame overwrites Len (ota.c:193, 240, 278, 323).
THEOREM RequestWhole == Spec => []RequestsWhole
<1>1. TypeOK /\ SInv => RequestsWhole
  BY MasterFields DEF SInv, RequestInv, RequestsWhole, MasterWaits, Underway
<1> QED
  BY <1>1, AlwaysSInv, TypeCorrect, PTL

\* Stop-and-wait of the transfer: the slave is at the block the master sent last
\* or the one before, and all it has are blocks of the image that master sends
\* (ota.c:219-392, 566-690).
THEOREM BothInStep == Spec => []InStep
<1>1. SInv => InStep
  BY DEF SInv, StepInv, InStep, Blocks, Transfer
<1> QED
  BY <1>1, AlwaysSInv, PTL

-----------------------------------------------------------------------------
(***************************************************************************)
(* An update never assembles a bank from two images: what a transfer       *)
(* writes was erased, and a bank filled passes the CRC check.               *)
(***************************************************************************)
\* States in which the slave has a transfer to receive or to check.
Receiving == {"DATA_READY", "END_READY", "END"}

\* Frames that left the master are whole, those of a session it has lost too.
WireInv ==
  HasFrame("slave") =>
    /\ Got("slave").kind = "START_REQ" =>
         Got("slave").len = 4 /\ \E img \in Image : Got("slave").arg = NumBlocks(img)
    /\ Got("slave").kind = "DATA" =>
         /\ Got("slave").img \in Image
         /\ Got("slave").blk \in 1 .. NumBlocks(Got("slave").img)
         /\ Got("slave") = DataFrame(Got("slave").img, Got("slave").blk)

\* Nothing is ever written beyond the sectors an erase covers.
ReachInv ==
  \A b \in Bank : \A i \in Cells : i > ErasedBlocks => flash[b].cell[i] = Erased

\* A transfer begins in an erased bank.
StartInv ==
  /\ s.State \in {"APP", "IDLE", "FW_VERSION_READY", "START_READY"} => s.TotalBinSize = 0
  /\ WriteAreaErased

\* A transfer of img that has come as far as s.BlockNum.
Session(img) ==
  /\ s.MaxBlockNum = NumBlocks(img)
  /\ s.BlockNum <= NumBlocks(img)
  /\ s.State = "DATA_READY" <=> s.BlockNum < NumBlocks(img)
  /\ s.TotalBinSize = IF s.BlockNum < NumBlocks(img) THEN s.BlockNum * BlockSize
                                                     ELSE BinSize[img]
  /\ Len(s.PktCRC) = s.BlockNum
  /\ \A i \in 1 .. s.BlockNum : s.PktCRC[i] = Block(img, i)
  /\ \A i \in Cells : flash[s.bank].cell[i] = IF i <= s.BlockNum THEN Block(img, i)
                                                                 ELSE Erased

\* Whoever may still send to the slave, or has sent, is of that transfer.
Sender(img) ==
  /\ m.State \in Underway => m.img = img
  /\ HasFrame("slave") /\ Got("slave").kind = "DATA" => Got("slave").img = img

SessionInv == s.State \in Receiving => \E img \in Image : Session(img) /\ Sender(img)

CleanInv == WireInv /\ ReachInv /\ StartInv /\ SessionInv

-----------------------------------------------------------------------------
(***************************************************************************)
(* The master.                                                             *)
(***************************************************************************)
\* A master that is not underway sends nothing but version requests.
LEMMA MasterOutside ==
  ASSUME TypeOK, OneEventPerOperation, SInv, MasterStep, m'.State \notin Underway
  PROVE  HasFrame("slave")' => \/ HasFrame("slave") /\ Got("slave")' = Got("slave")
                               \/ Got("slave")'.kind = "VERSION_REQ"
<1> DEFINE Same == HasFrame("slave")' => HasFrame("slave") /\ Got("slave")' = Got("slave")
           Asked == HasFrame("slave")' => \/ HasFrame("slave") /\ Got("slave")' = Got("slave")
                                          \/ Got("slave")'.kind = "VERSION_REQ"
<1>1. AirTypeOK /\ MasterTypeOK /\ "master" \in Node /\ Peer("master") = "slave"
  BY DEF TypeOK, Node, Peer
<1>2. ASSUME Quiet(Popped("master")) \/ ResetAir("master") PROVE Same
  BY <1>1, <1>2, NoFrames DEF NoNewFrame
<1>3. ASSUME NEW f, Transmit("master", Popped("master"), f), f.kind = "VERSION_REQ"
      PROVE  Asked
  BY <1>1, <1>3, SentFrames DEF SentFrame
<1>4. ASSUME NEW state \in Underway, NEW block, NEW finish, NEW frame, NEW arg,
             MasterSends(state, block, finish, frame, arg)
      PROVE  FALSE
  BY <1>1, <1>4 DEF MasterSends, MasterTypeOK
<1>5. CASE MasterInit \/ MasterReboot \/ MasterPowerLoss \/ MasterDeadline \/ MasterEndRsp
  BY <1>2, <1>5 DEF MasterInit, MasterReboot, MasterPowerLoss, MasterDeadline, MasterEndRsp
<1>6. CASE MasterIdle
  <2>1. /\ Transmit("master", Popped("master"), BareCmdFrame(m.tx, "VERSION_REQ"))
        /\ BareCmdFrame(m.tx, "VERSION_REQ").kind = "VERSION_REQ"
    BY <1>6 DEF MasterIdle, MasterSends, BareCmdFrame
  <2> QED
    BY <1>3, <2>1
<1>7. CASE MasterVersionRsp
  <2>1. "START_RSP_WAIT" \in Underway
    BY DEF Underway
  <2>2. CASE Quiet(Popped("master"))
    BY <1>2, <2>2
  <2> QED
    BY <1>4, <1>7, <2>1, <2>2 DEF MasterVersionRsp
<1>8. CASE MasterSendsBlock
  BY <1>4, <1>8 DEF MasterSendsBlock, Underway
<1>9. CASE MasterDataAck
  BY <1>4, <1>8, <1>9 DEF MasterDataAck, Underway
<1>10. CASE MasterRetry
  <2> DEFINE len == IF HasFrame("master") THEN Got("master").len ELSE m.len
             again == [m.tx EXCEPT !.len = len]
  <2>1. CASE /\ \E times, arg : m' = [m EXCEPT !.RetryTimes = times, !.len = len, !.rxArg = arg]
             /\ Transmit("master", Popped("master"), again)
    <3>1. m.State = "FW_VER_WAIT"
      BY <1>1, <1>10, <2>1 DEF MasterRetry, MasterTypeOK, MasterWaits, Underway
    <3>2. again.kind = "VERSION_REQ"
      <4>1. m.tx \in Frame /\ m.tx.kind = "VERSION_REQ"
        BY <1>1, <3>1 DEF SInv, RequestInv, MasterTypeOK
      <4> QED
        BY <4>1 DEF Frame
    <3> HIDE DEF again
    <3> QED
      BY <1>3, <2>1, <3>2
  <2>2. CASE Quiet(Popped("master"))
    BY <1>2, <2>2
  <2> QED
    BY <1>10, <2>1, <2>2 DEF MasterRetry
<1> QED
  BY <1>5, <1>6, <1>7, <1>8, <1>9, <1>10 DEF MasterStep, MasterPoll, MasterStartRsp

\* A master comes underway by the answer to its version request only, and keeps
\* its image then.
LEMMA MasterImage ==
  ASSUME TypeOK, MasterStep, m'.State \in Underway
  PROVE  /\ m'.img = m.img
         /\ m.State \in Underway \/ (HasFrame("master") /\ Got("master").kind = "VERSION_RSP")
<1>1. MasterTypeOK
  BY DEF TypeOK
<1>2. CASE MasterInit \/ MasterReboot \/ MasterPowerLoss
  <2>1. m'.State \in {"IDLE", "OFF"}
    <3>1. CASE MasterInit
      <4>1. PICK img \in Image : m' = [MasterOff EXCEPT !.State = "IDLE", !.img = img]
        BY <3>1 DEF MasterInit
      <4> QED
        BY <4>1 DEF MasterOff
    <3>2. CASE m' = MasterOff
      BY <3>2 DEF MasterOff
    <3> QED
      BY <1>2, <3>1, <3>2 DEF MasterReboot, MasterPowerLoss
  <2> QED
    BY <2>1 DEF Underway
<1>3. CASE MasterDeadline \/ MasterEndRsp \/ MasterIdle
  BY <1>1, <1>3 DEF MasterDeadline, MasterEndRsp, MasterIdle, MasterSends, MasterTypeOK, Underway
<1>4. CASE MasterVersionRsp
  <2>1. HasFrame("master") /\ Got("master").kind = "VERSION_RSP"
    BY <1>4 DEF MasterVersionRsp, MasterAnswered, Awaits
  <2>2. m'.img = m.img
    BY <1>1, <1>4 DEF MasterVersionRsp, MasterSends, MasterTypeOK
  <2> QED
    BY <2>1, <2>2
<1>5. CASE MasterStartRsp
  BY <1>1, <1>5 DEF MasterStartRsp, MasterSendsBlock, MasterSends, MasterTypeOK, Underway
<1>6. CASE MasterDataAck
  BY <1>1, <1>6 DEF MasterDataAck, MasterSendsBlock, MasterSends, MasterTypeOK, Underway
<1>7. CASE MasterRetry
  <2>1. m'.img = m.img /\ (m'.State = m.State \/ m'.State = "ERROR")
    BY <1>1, <1>7 DEF MasterRetry, MasterTypeOK
  <2> QED
    BY <2>1 DEF Underway
<1> QED
  BY <1>2, <1>3, <1>4, <1>5, <1>6, <1>7 DEF MasterStep, MasterPoll

\* Every step of the master keeps the transfer one of its image.
LEMMA MasterClean ==
  ASSUME TypeOK, MasterHasImage, OneEventPerOperation, SInv, CleanInv, MasterStep
  PROVE  CleanInv'
<1>1. s' = s /\ flash' = flash
  BY DEF MasterStep
<1>2. MasterHasImage' /\ SInv'
  BY MasterStepType, MasterStepInv
<1>3. ReachInv' /\ StartInv'
  BY <1>1 DEF CleanInv, ReachInv, StartInv, WriteAreaErased
<1>4. \A img \in Image : Session(img) => Session(img)'
  BY <1>1 DEF Session
<1>5. CASE m'.State \in Underway
  <2> DEFINE f == Got("slave")
  <2>1. m'.img \in Image /\ m'.img = m.img
    BY <1>2, <1>5, MasterImage DEF MasterHasImage, Underway
  <2>2. HasFrame("slave")' => f' = m'.tx
    BY <1>2, <1>5 DEF SInv, FrameInv
  <2>3. m'.State = "START_RSP_WAIT" =>
          m'.tx.kind = "START_REQ" /\ m'.tx.len = 4 /\ m'.tx.arg = NumBlocks(m'.img)
    <3>1. m'.State = "START_RSP_WAIT" => m'.tx = CmdFrame("START_REQ", NumBlocks(m'.img), 2)
      BY <1>2 DEF SInv, RequestInv
    <3> QED
      BY <3>1 DEF CmdFrame
  <2>4. m'.State = "DATA_ACK_WAIT" =>
          /\ m'.tx.kind = "DATA" /\ m'.tx.img = m'.img /\ m'.tx.blk = m'.BlockNum
          /\ m'.BlockNum \in 1 .. NumBlocks(m'.img)
          /\ m'.tx = DataFrame(m'.img, m'.BlockNum)
    <3>1. m'.State = "DATA_ACK_WAIT" => /\ m'.tx = DataFrame(m'.img, m'.BlockNum)
                                        /\ m'.BlockNum \in 1 .. NumBlocks(m'.img)
      BY <1>2 DEF SInv, RequestInv
    <3> QED
      BY <3>1 DEF DataFrame
  <2>5. m'.State = "END_RSP_WAIT" => m'.tx.kind = "END_REQ"
    BY <1>2 DEF SInv, RequestInv
  <2>6. WireInv'
    BY <1>5, <2>1, <2>2, <2>3, <2>4, <2>5 DEF WireInv, Underway
  <2>7. SessionInv'
    <3> SUFFICES ASSUME s'.State \in Receiving
                 PROVE  \E img \in Image : Session(img)' /\ Sender(img)'
      BY DEF SessionInv
    <3>1. PICK img \in Image : Session(img) /\ Sender(img)
      BY <1>1 DEF CleanInv, SessionInv
    <3>2. m.State \in Underway
      BY <1>1, <1>5, MasterImage DEF SInv, StepInv, Receiving, Before
    <3>3. Sender(img)'
      BY <1>5, <2>1, <2>2, <2>3, <2>4, <2>5, <3>1, <3>2 DEF Sender, Underway
    <3> QED
      BY <1>4, <3>1, <3>3
  <2> QED
    BY <1>3, <2>6, <2>7 DEF CleanInv
<1>6. CASE m'.State \notin Underway
  <2>1. HasFrame("slave")' => \/ HasFrame("slave") /\ Got("slave")' = Got("slave")
                              \/ Got("slave")'.kind = "VERSION_REQ"
    BY <1>6, MasterOutside
  <2>2. WireInv'
    BY <2>1 DEF CleanInv, WireInv
  <2>3. SessionInv'
    BY <1>1, <1>4, <1>6, <2>1 DEF CleanInv, SessionInv, Sender
  <2> QED
    BY <1>3, <2>2, <2>3 DEF CleanInv
<1> QED
  BY <1>5, <1>6

-----------------------------------------------------------------------------
(***************************************************************************)
(* The slave.                                                              *)
(***************************************************************************)
\* The lengths of the blocks up to b, of 48 bytes but for the last.
LEMMA BlockLengths ==
  ASSUME NEW img \in Image, NEW b \in 1 .. NumBlocks(img)
  PROVE  /\ BlockLen(img, b) \in Int
         /\ (b - 1) * BlockSize + BlockLen(img, b) =
              IF b < NumBlocks(img) THEN b * BlockSize ELSE BinSize[img]
<1>1. BinSize[img] \in Nat /\ NumBlocks(img) \in Nat
  BY ImageAssumption, NumBlocksPositive
<1> QED
  BY <1>1 DEF NumBlocks, BlockLen, BlockSize

\* A step of the slave puts no frame into its own queue.
LEMMA SlaveTakes ==
  ASSUME TypeOK, OneEventPerOperation, SlaveStep
  PROVE  HasFrame("slave")' => HasFrame("slave") /\ Got("slave")' = Got("slave")
<1>1. AirTypeOK /\ "slave" \in Node
  BY DEF TypeOK, Node
<1>2. CASE UNCHANGED air
  BY <1>2 DEF air, HasFrame, Got
<1>3. CASE ResetAir("slave") \/ Quiet(Popped("slave")) \/ Listen("slave", Popped("slave"))
  BY <1>1, <1>3, NoFrames DEF NoNewFrame
<1>4. CASE \E f : Transmit("slave", Popped("slave"), f)
  BY <1>1, <1>4, SentFrames DEF SentFrame
<1>5. CASE SlaveBoot \/ OTA_SlaveInit \/ SlaveSetNextBootFlag
  BY <1>2, <1>5 DEF SlaveBoot, OTA_SlaveInit, SlaveSetNextBootFlag
<1>6. CASE SlaveIdle \/ SlaveDeadline \/ SlaveVerify
  BY <1>3, <1>6 DEF SlaveIdle, SlaveDeadline, SlaveVerify
<1>7. CASE \/ SlaveClearCurrentBootFlag \/ SlaveError \/ SlavePowerLoss
           \/ SlaveTornWrite \/ SlaveTornErase
  BY <1>3, <1>7 DEF SlaveClearCurrentBootFlag, SlaveError, SlavePowerLoss, SlaveTornWrite,
                    SlaveTornErase, ResetSlave
<1>8. CASE SlaveRetry
  BY <1>3, <1>8 DEF SlaveRetry
<1>9. CASE SlaveVersionReqAgain \/ SlaveStartReqAgain \/ SlaveDataAgain
  BY <1>4, <1>9 DEF SlaveVersionReqAgain, SlaveStartReqAgain, SlaveDataAgain, SlaveAnswersAgain
<1>10. CASE SlaveVersionReq \/ SlaveStartReq
  BY <1>4, <1>10 DEF SlaveVersionReq, SlaveStartReq, SlaveAnswers
<1>11. CASE SlaveData
  BY <1>4, <1>11 DEF SlaveData
<1>12. CASE SlaveEndReq
  BY <1>3, <1>4, <1>12 DEF SlaveEndReq, SlaveAnswers
<1> QED
  BY <1>5, <1>6, <1>7, <1>8, <1>9, <1>10, <1>11, <1>12 DEF SlaveStep, SlavePoll

\* What such a step leaves of the invariant.
LEMMA SlaveWire ==
  ASSUME TypeOK, OneEventPerOperation, CleanInv, SlaveStep
  PROVE  /\ m' = m
         /\ WireInv'
         /\ \A img \in Image : Sender(img) => Sender(img)'
<1>1. m' = m
  BY DEF SlaveStep
<1> QED
  BY <1>1, SlaveTakes DEF CleanInv, WireInv, Sender

\* The next block is the next one of the transfer's image.
LEMMA NextBlock ==
  ASSUME TypeOK, CleanInv, EraseCovers, SlaveNextBlock
  PROVE  /\ s.State = "DATA_READY" /\ HasFrame("slave")
         /\ Got("slave").blk = s.BlockNum + 1 /\ WriteIndex = s.BlockNum + 1
         /\ WriteIndex <= ErasedBlocks /\ WriteIndex \in Cells
         /\ \E img \in Image :
              /\ Session(img) /\ Sender(img)
              /\ s.BlockNum + 1 <= NumBlocks(img)
              /\ Received = Block(img, s.BlockNum + 1)
              /\ Got("slave").len - 3 = BlockLen(img, s.BlockNum + 1)
<1> DEFINE f == Got("slave")
           n == s.BlockNum + 1
<1>1. /\ s.State = "DATA_READY" /\ HasFrame("slave") /\ f.kind = "DATA" /\ f.blk = n
      /\ s.BlockNum \in Nat
  BY SlaveTyped DEF SlaveNextBlock, SlaveGot, SlaveTook
<1>2. PICK img \in Image : Session(img) /\ Sender(img)
  BY <1>1 DEF CleanInv, SessionInv, Receiving
<1>3. f.img = img /\ f = DataFrame(img, n) /\ n \in 1 .. NumBlocks(img)
  BY <1>1, <1>2 DEF CleanInv, WireInv, Sender
<1>4. BlockLen(img, n) \in Int /\ f.len = BlockLen(img, n) + 3
  BY <1>3, BlockLengths DEF DataFrame
<1>5. f.len - 3 = BlockLen(img, n)
  BY <1>4
<1>6. Received = Block(img, n)
  BY <1>1, <1>3, <1>5, Zenon DEF Received, Block
<1>7. NumBlocks(img) \in Nat /\ n <= ErasedBlocks /\ n \in Cells
  BY <1>1, <1>3, NumBlocksPositive, SlaveAssumption DEF EraseCovers, Cells
<1>8. WriteIndex = n
  <2>1. s.TotalBinSize = s.BlockNum * 48
    BY <1>1, <1>2, <1>3, <1>7 DEF Session, BlockSize
  <2>2. (s.BlockNum * 48) \div 48 = s.BlockNum
    BY <1>1
  <2>3. n = 1 => s.BlockNum = 0
    BY <1>1
  <2> QED
    BY <1>1, <2>1, <2>2 DEF WriteIndex, BlockSize
<1> QED
  BY <1>1, <1>2, <1>3, <1>5, <1>6, <1>7, <1>8

\* No step of the slave writes beyond the sectors an erase covers.
LEMMA SlaveReach ==
  ASSUME TypeOK, CleanInv, EraseCovers, SlaveStep
  PROVE  ReachInv'
<1>1. flash \in [Bank -> BankType] /\ s.bank \in Bank /\ ReachInv
  BY DEF TypeOK, SlaveTypeOK, BankType, CleanInv
<1>2. CASE flash' = flash
  BY <1>1, <1>2 DEF ReachInv
<1>3. ASSUME NEW b \in Bank, NEW bk, flash' = [flash EXCEPT ![b] = bk],
             \A i \in Cells : i > ErasedBlocks => bk.cell[i] = Erased
      PROVE  ReachInv'
  BY <1>1, <1>3 DEF ReachInv
<1>4. ASSUME NEW b \in Bank, NEW n \in Nat, flash' = [flash EXCEPT ![b] = EraseCells(@, n)]
      PROVE  ReachInv'
  BY <1>1, <1>3, <1>4 DEF EraseCells, ReachInv
<1>5. ASSUME NEW b \in Bank, NEW bk, flash' = [flash EXCEPT ![b] = bk],
             bk.cell = flash[b].cell
      PROVE  ReachInv'
  BY <1>1, <1>3, <1>5 DEF ReachInv
<1>6. 1 - s.bank \in Bank /\ ErasedBlocks \in Nat
  BY <1>1, SlaveAssumption DEF Bank
<1>7. CASE OTA_SlaveInit
  <2>1. flash' = [flash EXCEPT ![IF flash[0].flag = "set" THEN 1 ELSE 0] = EraseCells(@, ErasedBlocks)]
    BY <1>7 DEF OTA_SlaveInit, OTA_FlashErase
  <2> QED
    BY <1>4, <1>6, <2>1 DEF Bank
<1>8. CASE SlaveError
  <2>1. flash' = [flash EXCEPT ![s.bank] = EraseCells(@, ErasedBlocks)]
    BY <1>8 DEF SlaveError, OTA_FlashErase
  <2> QED
    BY <1>1, <1>4, <1>6, <2>1
<1>9. CASE SlaveTornErase
  <2>1. PICK b \in Bank, n \in 1 .. (ErasedBlocks - 1) :
          flash' = [flash EXCEPT ![b] = EraseCells(@, n)]
    BY <1>1, <1>9 DEF SlaveTornErase, Bank
  <2>2. n \in Nat
    BY <1>6
  <2> QED
    BY <1>4, <2>1, <2>2
<1>10. CASE SlaveSetNextBootFlag
  <2>1. flash' = [flash EXCEPT ![s.bank] = SetFlag(@)] /\ SetFlag(flash[s.bank]).cell = flash[s.bank].cell
    BY <1>1, <1>10 DEF SlaveSetNextBootFlag, SetFlag, BankType
  <2> QED
    BY <1>1, <1>5, <2>1
<1>11. CASE SlaveClearCurrentBootFlag
  <2>1. /\ flash' = [flash EXCEPT ![1 - s.bank] = ClearFlag(@)]
        /\ ClearFlag(flash[1 - s.bank]).cell = flash[1 - s.bank].cell
    BY <1>1, <1>6, <1>11 DEF SlaveClearCurrentBootFlag, ClearFlag, BankType
  <2> QED
    BY <1>1, <1>5, <1>6, <2>1
<1>12. CASE SlaveData
  <2>1. WriteIndex \in Cells /\ WriteIndex <= ErasedBlocks
    BY <1>12, NextBlock DEF SlaveData
  <2> DEFINE bk == WriteCell(flash[s.bank], WriteIndex, Received)
  <2>2. flash' = [flash EXCEPT ![s.bank] = bk]
    BY <1>12 DEF SlaveData
  <2>3. \A i \in Cells : i > ErasedBlocks => bk.cell[i] = flash[s.bank].cell[i]
    BY <1>1, <1>6, <2>1 DEF WriteCell, BankType, Cells
  <2> HIDE DEF bk
  <2> QED
    BY <1>1, <1>3, <2>2, <2>3 DEF ReachInv
<1>13. CASE SlaveTornWrite
  <2>1. WriteIndex \in Cells /\ WriteIndex <= ErasedBlocks
    BY <1>13, NextBlock DEF SlaveTornWrite
  <2> DEFINE bk == [flash[s.bank] EXCEPT !.cell[WriteIndex] =
                      IF @ = Received THEN @ ELSE Garbage]
  <2>2. flash' = [flash EXCEPT ![s.bank] = bk]
    BY <1>1, <1>13 DEF SlaveTornWrite
  <2>3. \A i \in Cells : i > ErasedBlocks => bk.cell[i] = flash[s.bank].cell[i]
    BY <1>1, <1>6, <2>1 DEF BankType, Cells
  <2> HIDE DEF bk
  <2> QED
    BY <1>1, <1>3, <2>2, <2>3 DEF ReachInv
<1>14. CASE \/ SlaveBoot \/ SlaveIdle \/ SlaveVersionReq \/ SlaveVersionReqAgain \/ SlaveStartReq
            \/ SlaveStartReqAgain \/ SlaveDataAgain \/ SlaveEndReq \/ SlaveRetry \/ SlaveVerify
            \/ SlaveDeadline \/ SlavePowerLoss
  BY <1>2, <1>14 DEF SlaveBoot, SlaveIdle, SlaveVersionReq, SlaveVersionReqAgain, SlaveStartReq,
       SlaveStartReqAgain, SlaveDataAgain, SlaveEndReq, SlaveRetry, SlaveVerify, SlaveDeadline,
       SlavePowerLoss, SlaveAnswers, SlaveAnswersAgain
<1> QED
  BY <1>7, <1>8, <1>9, <1>10, <1>11, <1>12, <1>13, <1>14 DEF SlaveStep, SlavePoll

\* A step out of the transfer, or to one of the states that are in none.
LEMMA SlaveElsewhere ==
  ASSUME TypeOK, OneEventPerOperation, CleanInv, EraseCovers, SlaveStep,
         s'.State \in {"OFF", "ERROR", "SET_FLAG", "CLEAR_FLAG"}
  PROVE  CleanInv'
<1>1. StartInv' /\ SessionInv'
  BY DEF StartInv, WriteAreaErased, SessionInv, Receiving
<1> QED
  BY <1>1, SlaveWire, SlaveReach DEF CleanInv

\* A step that leaves the transfer where it is.
LEMMA SlaveKeeps ==
  ASSUME TypeOK, OneEventPerOperation, CleanInv, EraseCovers, SlaveStep, flash' = flash,
         s'.bank = s.bank, s'.BlockNum = s.BlockNum, s'.MaxBlockNum = s.MaxBlockNum,
         s'.TotalBinSize = s.TotalBinSize, s'.PktCRC = s.PktCRC,
         \/ s'.State = s.State
         \/ s.State = "IDLE" /\ s'.State = "FW_VERSION_READY"
         \/ s.State = "FW_VERSION_READY" /\ s'.State = "START_READY"
         \/ s.State = "END_READY" /\ s'.State = "END"
  PROVE  CleanInv'
<1>1. StartInv'
  BY DEF CleanInv, StartInv, WriteAreaErased
<1>2. SessionInv'
  <2> SUFFICES ASSUME s'.State \in Receiving
               PROVE  \E img \in Image : Session(img)' /\ Sender(img)'
    BY DEF SessionInv
  <2>1. s.State \in Receiving /\ (s'.State = "DATA_READY" <=> s.State = "DATA_READY")
    BY DEF Receiving
  <2>2. PICK img \in Image : Session(img) /\ Sender(img)
    BY <2>1 DEF CleanInv, SessionInv
  <2>3. Session(img)'
    BY <2>1, <2>2 DEF Session
  <2> QED
    BY <2>2, <2>3, SlaveWire
<1> QED
  BY <1>1, <1>2, SlaveWire, SlaveReach DEF CleanInv

\* The erase of a session leaves the whole bank blank.
LEMMA SlaveErases ==
  ASSUME TypeOK, OneEventPerOperation, CleanInv, EraseCovers, SlaveStep, OTA_SlaveInit
  PROVE  CleanInv'
<1> DEFINE target == IF flash[0].flag = "set" THEN 1 ELSE 0
<1>1. /\ target \in Bank /\ flash \in [Bank -> BankType] /\ ErasedBlocks \in Nat /\ ErasedBlocks > 0
      /\ s \in [State: SlaveStates, run: Bank, bank: Bank, BlockNum: Nat,
               MaxBlockNum: Nat, TotalBinSize: Int, PktCRC: Seq(Piece),
               RetryTimes: 0..OTA_RETRY_MAX, tx: Frame, len: Int, rxArg: Nat]
  BY SlaveAssumption DEF TypeOK, SlaveTypeOK, BankType, Bank
<1> HIDE DEF target
<1>2. /\ s.State = "APP" /\ s'.State = "IDLE" /\ s'.bank = target
      /\ s'.TotalBinSize = s.TotalBinSize
      /\ flash' = [flash EXCEPT ![target] = OTA_FlashErase(@)]
  BY <1>1 DEF OTA_SlaveInit, target
<1>3. OTA_FlashErase(flash[target]) = Blank
  <2>1. \A i \in Cells : i > ErasedBlocks => flash[target].cell[i] = Erased
    BY <1>1 DEF CleanInv, ReachInv
  <2>2. [i \in Cells |-> IF i <= ErasedBlocks THEN Erased ELSE flash[target].cell[i]]
          = [i \in Cells |-> Erased]
    BY <1>1, <2>1 DEF Cells
  <2> QED
    BY <1>1, <2>2 DEF OTA_FlashErase, EraseCells, Blank
<1>4. flash'[s'.bank] = Blank
  BY <1>1, <1>2, <1>3
<1>5. StartInv' /\ SessionInv'
  <2>1. Blank' = Blank
    OBVIOUS
  <2> QED
    BY <1>2, <1>4, <2>1 DEF CleanInv, StartInv, WriteAreaErased, SessionInv, Receiving
<1> QED
  BY <1>5, SlaveWire, SlaveReach DEF CleanInv

\* A master underway has an image.
LEMMA UnderwayImage ==
  ASSUME MasterHasImage, m.State \in Underway
  PROVE  m.img \in Image
BY DEF MasterHasImage, Underway

\* The start of a transfer.
LEMMA SlaveBegins ==
  ASSUME TypeOK, MasterHasImage, OneEventPerOperation, SInv, CleanInv, EraseCovers,
         SlaveStep, SlaveStartReq
  PROVE  CleanInv'
<1> DEFINE f == Got("slave")
           max == RxArg(s.rxArg, f)
<1>1. s \in [State: SlaveStates, run: Bank, bank: Bank, BlockNum: Nat,
             MaxBlockNum: Nat, TotalBinSize: Int, PktCRC: Seq(Piece),
             RetryTimes: 0..OTA_RETRY_MAX, tx: Frame, len: Int, rxArg: Nat]
  BY DEF TypeOK, SlaveTypeOK
<1>2. /\ s.State = "START_READY" /\ HasFrame("slave") /\ f.kind = "START_REQ"
      /\ SlaveAnswers("DATA_READY", max, BareCmdFrame(s.tx, "START_RSP"), f)
  BY DEF SlaveStartReq, SlaveGot, SlaveTook
<1> HIDE DEF max
<1>3. /\ s'.State = "DATA_READY" /\ s'.MaxBlockNum = max /\ s'.bank = s.bank
      /\ s'.BlockNum = s.BlockNum /\ s'.PktCRC = s.PktCRC
      /\ s'.TotalBinSize = s.TotalBinSize /\ flash' = flash
  BY <1>1, <1>2 DEF SlaveAnswers
<1>4. /\ s.BlockNum = 0 /\ s.PktCRC = <<>> /\ s.TotalBinSize = 0 /\ flash[s.bank] = Blank
  BY <1>2 DEF SInv, AnswerInv, CleanInv, StartInv, WriteAreaErased
<1>5. PICK img \in Image : max = NumBlocks(img) /\ (m.State \in Underway => m.img = img)
  <2>1. PICK old \in Image : f.len = 4 /\ f.arg = NumBlocks(old)
    BY <1>2 DEF CleanInv, WireInv
  <2>2. max = f.arg
    BY <1>2, <2>1 DEF max, RxArg, ValueEnd
  <2>3. CASE m.State \in Underway
    <3>1. m.State = "START_RSP_WAIT" /\ f.arg = NumBlocks(m.img)
      BY <1>2, <2>3, TakenRequest DEF Underway
    <3> QED
      BY <2>2, <2>3, <3>1, UnderwayImage
  <2>4. CASE m.State \notin Underway
    BY <2>1, <2>2, <2>4
  <2> QED
    BY <2>3, <2>4
<1>6. NumBlocks(img) \in Nat /\ NumBlocks(img) >= 1
  BY NumBlocksPositive
<1>7. Session(img)'
  <2>1. \A i \in Cells : flash[s.bank].cell[i] = Erased
    BY <1>4 DEF Blank
  <2>2. \A i \in Cells : ~(i <= 0)
    BY SlaveAssumption DEF Cells
  <2>3. s'.BlockNum = 0 /\ s'.PktCRC = <<>> /\ s'.TotalBinSize = 0 /\ 0 * BlockSize = 0
    BY <1>3, <1>4 DEF BlockSize
  <2> QED
    BY <1>3, <1>5, <1>6, <2>1, <2>2, <2>3 DEF Session
<1>8. Sender(img)'
  <2>1. ~HasFrame("slave")' /\ m' = m
    BY <1>2, SentFrames DEF SlaveAnswers, SentFrame, TypeOK, Node, SlaveStep
  <2> QED
    BY <1>5, <2>1 DEF Sender
<1>9. StartInv' /\ SessionInv'
  BY <1>3, <1>7, <1>8 DEF StartInv, WriteAreaErased, SessionInv
<1> QED
  BY <1>9, SlaveWire, SlaveReach DEF CleanInv

\* The next block written, counted and added to the CRC.
LEMMA SlaveReceives ==
  ASSUME TypeOK, OneEventPerOperation, CleanInv, EraseCovers, SlaveStep, SlaveData
  PROVE  CleanInv'
<1> DEFINE f == Got("slave")
           n == s.BlockNum + 1
<1>1. /\ s \in [State: SlaveStates, run: Bank, bank: Bank, BlockNum: Nat,
               MaxBlockNum: Nat, TotalBinSize: Int, PktCRC: Seq(Piece),
               RetryTimes: 0..OTA_RETRY_MAX, tx: Frame, len: Int, rxArg: Nat]
      /\ flash \in [Bank -> BankType] /\ s.bank \in Bank /\ s.BlockNum \in Nat
      /\ s.PktCRC \in Seq(Piece)
  BY DEF TypeOK, SlaveTypeOK, BankType
<1>2. /\ SlaveNextBlock /\ s.State = "DATA_READY" /\ HasFrame("slave") /\ f.blk = n
      /\ WriteIndex = n /\ n \in Cells
  BY NextBlock DEF SlaveData
<1>3. PICK img \in Image :
        /\ Session(img) /\ Sender(img) /\ n <= NumBlocks(img)
        /\ Received = Block(img, n) /\ f.len - 3 = BlockLen(img, n)
  BY <1>2, NextBlock
<1>4. /\ s'.State = IF n = s.MaxBlockNum THEN "END_READY" ELSE "DATA_READY"
      /\ s'.BlockNum = n /\ s'.MaxBlockNum = s.MaxBlockNum /\ s'.bank = s.bank
      /\ s'.TotalBinSize = s.TotalBinSize + f.len - 3
      /\ s'.PktCRC = Append(s.PktCRC, Block(img, n))
      /\ flash' = [flash EXCEPT ![s.bank] = WriteCell(@, n, Block(img, n))]
  BY <1>1, <1>2, <1>3 DEF SlaveData
<1>5. /\ NumBlocks(img) \in Nat /\ n \in 1 .. NumBlocks(img)
      /\ f.len \in Int /\ s.BlockNum < NumBlocks(img)
  BY <1>1, <1>2, <1>3, NumBlocksPositive, WaitingFrame DEF Node
<1>6. /\ s.MaxBlockNum = NumBlocks(img) /\ s.TotalBinSize = s.BlockNum * BlockSize
      /\ Len(s.PktCRC) = s.BlockNum
      /\ \A i \in 1 .. s.BlockNum : s.PktCRC[i] = Block(img, i)
      /\ \A i \in Cells : flash[s.bank].cell[i] = IF i <= s.BlockNum THEN Block(img, i)
                                                                     ELSE Erased
  BY <1>3, <1>5 DEF Session
<1>7. s'.TotalBinSize = IF n < NumBlocks(img) THEN n * BlockSize ELSE BinSize[img]
  <2>1. /\ BlockLen(img, n) \in Int
        /\ (n - 1) * BlockSize + BlockLen(img, n) =
              IF n < NumBlocks(img) THEN n * BlockSize ELSE BinSize[img]
    BY <1>5, BlockLengths
  <2>2. n - 1 = s.BlockNum
    BY <1>1
  <2>3. s'.TotalBinSize = s.BlockNum * BlockSize + BlockLen(img, n)
    <3>1. s'.TotalBinSize = s.TotalBinSize + BlockLen(img, n)
      BY <1>1, <1>3, <1>4, <1>5
    <3> QED
      BY <1>6, <3>1
  <2> QED
    BY <2>1, <2>2, <2>3
<1>8. Len(s'.PktCRC) = n /\ \A i \in 1 .. n : s'.PktCRC[i] = Block(img, i)
  BY <1>1, <1>4, <1>6
<1>9. \A i \in Cells : flash'[s'.bank].cell[i] = IF i <= n THEN Block(img, i) ELSE Erased
  <2>1. flash[s.bank].cell[n] = Erased
    BY <1>1, <1>2, <1>6
  <2>2. flash[s.bank] \in BankType
    BY <1>1
  <2>3. /\ WriteCell(flash[s.bank], n, Block(img, n)).cell[n] = Block(img, n)
        /\ \A i \in Cells \ {n} :
             WriteCell(flash[s.bank], n, Block(img, n)).cell[i] = flash[s.bank].cell[i]
    BY <1>2, <2>1, <2>2 DEF WriteCell, BankType
  <2>4. flash'[s'.bank] = WriteCell(flash[s.bank], n, Block(img, n))
    BY <1>1, <1>4
  <2>5. \A i \in Cells \ {n} : i <= n <=> i <= s.BlockNum
    BY <1>1 DEF Cells
  <2> QED
    BY <1>1, <1>6, <2>3, <2>4, <2>5
<1>10. Session(img)'
  BY <1>4, <1>5, <1>6, <1>7, <1>8, <1>9 DEF Session
<1>11. StartInv' /\ SessionInv'
  BY <1>3, <1>4, <1>10, SlaveWire DEF StartInv, WriteAreaErased, SessionInv
<1> QED
  BY <1>11, SlaveWire, SlaveReach DEF CleanInv

\* Every step of the slave.
LEMMA SlaveClean ==
  ASSUME TypeOK, MasterHasImage, OneEventPerOperation, SInv, CleanInv, EraseCovers, SlaveStep
  PROVE  CleanInv'
<1>1. s \in [State: SlaveStates, run: Bank, bank: Bank, BlockNum: Nat,
             MaxBlockNum: Nat, TotalBinSize: Int, PktCRC: Seq(Piece),
             RetryTimes: 0..OTA_RETRY_MAX, tx: Frame, len: Int, rxArg: Nat]
  BY DEF TypeOK, SlaveTypeOK
<1>2. CASE SlaveBoot
  <2>1. /\ s' = [SlaveOff EXCEPT !.State = "APP", !.run = BootBank] /\ flash' = flash
    BY <1>2 DEF SlaveBoot
  <2>2. s'.State = "APP" /\ s'.TotalBinSize = 0
    BY <2>1 DEF SlaveOff
  <2>3. StartInv' /\ SessionInv'
    BY <2>2 DEF StartInv, WriteAreaErased, SessionInv, Receiving
  <2> QED
    BY <2>3, SlaveWire, SlaveReach DEF CleanInv
<1>3. CASE OTA_SlaveInit
  BY <1>3, SlaveErases
<1>4. CASE SlaveIdle \/ SlaveVersionReqAgain \/ SlaveStartReqAgain \/ SlaveDataAgain
  <2>1. /\ flash' = flash /\ s'.bank = s.bank /\ s'.BlockNum = s.BlockNum
        /\ s'.MaxBlockNum = s.MaxBlockNum /\ s'.TotalBinSize = s.TotalBinSize
        /\ s'.PktCRC = s.PktCRC
        /\ s'.State = s.State \/ (s.State = "IDLE" /\ s'.State = "FW_VERSION_READY")
    BY <1>1, <1>4 DEF SlaveIdle, SlaveVersionReqAgain, SlaveStartReqAgain, SlaveDataAgain,
                      SlaveAnswersAgain
  <2> QED
    BY <2>1, SlaveKeeps
<1>5. CASE SlaveVersionReq
  <2>1. /\ flash' = flash /\ s'.bank = s.bank /\ s'.BlockNum = s.BlockNum
        /\ s'.MaxBlockNum = s.MaxBlockNum /\ s'.TotalBinSize = s.TotalBinSize
        /\ s'.PktCRC = s.PktCRC
        /\ s.State = "FW_VERSION_READY" /\ s'.State = "START_READY"
    BY <1>1, <1>5 DEF SlaveVersionReq, SlaveGot, SlaveAnswers
  <2> QED
    BY <2>1, SlaveKeeps
<1>6. CASE SlaveStartReq
  BY <1>6, SlaveBegins
<1>7. CASE SlaveData
  BY <1>7, SlaveReceives
<1>8. CASE SlaveEndReq
  <2>1. /\ flash' = flash /\ s'.bank = s.bank /\ s'.BlockNum = s.BlockNum
        /\ s'.MaxBlockNum = s.MaxBlockNum /\ s'.TotalBinSize = s.TotalBinSize
        /\ s'.PktCRC = s.PktCRC
        /\ s'.State = "ERROR" \/ (s.State = "END_READY" /\ s'.State = "END")
    BY <1>1, <1>8 DEF SlaveEndReq, SlaveGot, SlaveAnswers
  <2> QED
    BY <2>1, SlaveKeeps, SlaveElsewhere
<1>9. CASE SlaveRetry
  <2>1. /\ flash' = flash /\ s'.bank = s.bank /\ s'.BlockNum = s.BlockNum
        /\ s'.MaxBlockNum = s.MaxBlockNum /\ s'.TotalBinSize = s.TotalBinSize
        /\ s'.PktCRC = s.PktCRC
        /\ s'.State = "ERROR" \/ s'.State = s.State
    BY <1>1, <1>9 DEF SlaveRetry
  <2> QED
    BY <2>1, SlaveKeeps, SlaveElsewhere
<1>10. CASE SlaveDeadline \/ SlaveVerify \/ SlaveSetNextBootFlag
  <2>1. s'.State \in {"ERROR", "SET_FLAG", "CLEAR_FLAG"}
    BY <1>1, <1>10 DEF SlaveDeadline, SlaveVerify, SlaveSetNextBootFlag
  <2> QED
    BY <2>1, SlaveElsewhere
<1>11. CASE \/ SlaveClearCurrentBootFlag \/ SlaveError \/ SlavePowerLoss
            \/ SlaveTornWrite \/ SlaveTornErase
  <2>1. s' = SlaveOff
    BY <1>11 DEF SlaveClearCurrentBootFlag, SlaveError, SlavePowerLoss, SlaveTornWrite,
                 SlaveTornErase, ResetSlave
  <2>2. s'.State = "OFF"
    BY <2>1 DEF SlaveOff
  <2> QED
    BY <2>2, SlaveElsewhere
<1> QED
  BY <1>2, <1>3, <1>4, <1>5, <1>6, <1>7, <1>8, <1>9, <1>10, <1>11 DEF SlaveStep, SlavePoll

-----------------------------------------------------------------------------
(***************************************************************************)
(* The theorem.                                                            *)
(***************************************************************************)
LEMMA InitCleanInv == EraseCovers /\ Init => CleanInv
<1> SUFFICES ASSUME EraseCovers, Init PROVE CleanInv
  OBVIOUS
<1>1. s.State = "OFF" /\ ~HasFrame("slave")
  BY DEF Init, SlaveOff, AirInit, HasFrame, Node
<1>2. PICK img \in Image : flash = [b \in Bank |-> IF b = 0 THEN Installed(img) ELSE Blank]
  BY DEF Init
<1>3. NumBlocks(img) \in Nat /\ NumBlocks(img) <= ErasedBlocks
  BY NumBlocksPositive DEF EraseCovers
<1>4. \A i \in Cells : i > ErasedBlocks => /\ Installed(img).cell[i] = Erased
                                          /\ Blank.cell[i] = Erased
  BY <1>3, SlaveAssumption DEF Installed, Blank, Cells
<1>5. ReachInv
  BY <1>2, <1>4 DEF ReachInv
<1> QED
  BY <1>1, <1>5 DEF CleanInv, WireInv, StartInv, WriteAreaErased, SessionInv, Receiving

LEMMA NextCleanInv ==
  ASSUME EraseCovers, TypeOK, MasterHasImage, OneEventPerOperation, SInv, CleanInv, [Next]_vars
  PROVE  CleanInv'
<1>1. CASE MasterStep
  BY <1>1, MasterClean
<1>2. CASE SlaveStep
  BY <1>2, SlaveClean
<1>3. ASSUME m' = m, s' = s, flash' = flash,
             HasFrame("slave")' => HasFrame("slave") /\ Got("slave")' = Got("slave")
      PROVE  CleanInv'
  <2>1. WireInv' /\ ReachInv' /\ StartInv'
    BY <1>3 DEF CleanInv, WireInv, ReachInv, StartInv, WriteAreaErased
  <2>2. \A img \in Image : Session(img) /\ Sender(img) => Session(img)' /\ Sender(img)'
    BY <1>3 DEF Session, Sender
  <2>3. SessionInv'
    BY <1>3, <2>2 DEF CleanInv, SessionInv
  <2> QED
    BY <2>1, <2>3 DEF CleanInv
<1>4. CASE \E n \in Node : TimeOut(n)
  <2>1. PICK n \in Node : TimeOut(n)
    BY <1>4
  <2>2. NoNewFrame(n) /\ m' = m /\ s' = s /\ flash' = flash
    BY <2>1, NoFrames DEF TimeOut, TypeOK
  <2> QED
    BY <1>3, <2>2 DEF NoNewFrame, Node, Peer
<1>5. CASE UNCHANGED vars
  BY <1>3, <1>5 DEF vars, air, HasFrame, Got
<1> QED
  BY <1>1, <1>2, <1>4, <1>5 DEF Next

\* What the END state finds in the bank is what it received, one whole image.
LEMMA EndMatches ==
  ASSUME TypeOK, CleanInv, s.State = "END"
  PROVE  CrcMatches
<1>1. PICK img \in Image : Session(img)
  BY DEF CleanInv, SessionInv, Receiving
<1>2. NumBlocks(img) \in Nat /\ NumBlocks(img) <= BankBlocks /\ s.BlockNum \in Nat
  BY NumBlocksPositive, SlaveAssumption, SlaveTyped
<1>3. s.BlockNum = NumBlocks(img) /\ s.TotalBinSize = BinSize[img]
  BY <1>1, <1>2 DEF Session
<1>4. \A i \in 1 .. NumBlocks(img) : /\ flash[s.bank].cell[i] = Block(img, i)
                                     /\ s.PktCRC[i] = Block(img, i)
  BY <1>1, <1>2, <1>3, SlaveAssumption DEF Session, Cells
<1>5. Len(s.PktCRC) = NumBlocks(img)
  BY <1>1, <1>3 DEF Session
<1>6. FlashAsReceived
  BY <1>4, <1>5 DEF FlashAsReceived
<1>7. Holds(flash[s.bank], img)
  BY <1>4 DEF Holds
<1> QED
  BY <1>3, <1>6, <1>7 DEF CrcMatches

\* The CRC check of the END state passes.
LEMMA EndPasses ==
  ASSUME TypeOK, CleanInv, s.State = "END", [Next]_vars
  PROVE  s'.State # "ERROR"
<1>1. s \in [State: SlaveStates, run: Bank, bank: Bank, BlockNum: Nat,
             MaxBlockNum: Nat, TotalBinSize: Int, PktCRC: Seq(Piece),
             RetryTimes: 0..OTA_RETRY_MAX, tx: Frame, len: Int, rxArg: Nat]
  BY DEF TypeOK, SlaveTypeOK
<1>2. CASE s' = s
  BY <1>2
<1>3. CASE SlaveVerify
  BY <1>1, <1>3, EndMatches DEF SlaveVerify
<1>4. CASE SlavePowerLoss
  BY <1>4 DEF SlavePowerLoss, ResetSlave, SlaveOff
<1>5. SlaveStep => SlaveVerify \/ SlavePowerLoss
  BY DEF SlaveStep, SlavePoll, SlaveBoot, OTA_SlaveInit, SlaveIdle, SlaveVersionReq,
         SlaveVersionReqAgain, SlaveStartReq, SlaveStartReqAgain, SlaveDataAgain, SlaveData,
         SlaveEndReq, SlaveRetry, SlaveSetNextBootFlag, SlaveClearCurrentBootFlag, SlaveError,
         SlaveDeadline, SlaveTornWrite, SlaveTornErase, SlaveNextBlock, SlaveGot, SlaveListens
<1> QED
  BY <1>2, <1>3, <1>4, <1>5 DEF Next, MasterStep, TimeOut, vars

\* As far as an erase covers the images, every transfer begins in a blank area,
\* and whatever frames were lost, damaged or repeated, whichever device was
\* restarted when, a bank that was filled passes the CRC check (ota.c:439, 744).
THEOREM TransfersClean == ASSUME EraseCovers PROVE Spec => CleanTransfer
<1>1. IInv => TypeOK /\ MasterHasImage
  BY DEF IInv
<1>2. Init => CleanInv
  BY InitCleanInv
<1>3. IInv /\ OneEventPerOperation /\ SInv /\ CleanInv /\ [Next]_vars => CleanInv'
  BY <1>1, NextCleanInv
<1>4. IInv /\ CleanInv /\ CleanInv' /\ [Next]_vars =>
        [WriteAreaErased' /\ (s.State = "END" => s'.State # "ERROR")]_vars
  BY <1>1, EndPasses DEF CleanInv, StartInv
<1> QED
  BY <1>2, <1>3, <1>4, AlwaysIInv, OneEvent, AlwaysSInv, PTL DEF Spec, CleanTransfer
=============================================================================
