------------------------------ MODULE OtaMaster ------------------------------
(***************************************************************************)
(* The master of a 2.4G firmware update: OTA_MasterInit and the state      *)
(* machine OTA_MasterStart, polled by the main loop (ota.c, app.c).        *)
(* Every poll pops at most one message; a poll that pops nothing and whose *)
(* deadline has not passed changes nothing and is no action here.          *)
(***************************************************************************)
EXTENDS OtaAir

VARIABLE m     \* MasterCtrl, TxFrame, Len and the kept bytes of RxFrame

MasterWaits == {"FW_VER_WAIT", "START_RSP_WAIT", "DATA_ACK_WAIT",
                "END_RSP_WAIT"}
MasterStates == {"OFF", "IDLE", "END", "ERROR"} \cup MasterWaits

MasterTypeOK ==
  m \in [State: MasterStates, img: Image \cup {NoImage}, BlockNum: Nat,
         RetryTimes: 0..OTA_RETRY_MAX, FinishFlag: BOOLEAN,
         tx: Frame, len: Int, rxArg: Nat]

MasterOff ==
  [State |-> "OFF", img |-> NoImage, BlockNum |-> 0, RetryTimes |-> 0,
   FinishFlag |-> FALSE, tx |-> NoFrame, len |-> 0, rxArg |-> 0]

\* The answer each waiting state accepts; everything else costs a retry.
Awaits(f) ==
  \/ m.State = "FW_VER_WAIT" /\ f.kind = "VERSION_RSP"
  \/ m.State = "START_RSP_WAIT" /\ f.kind = "START_RSP"
  \/ m.State = "DATA_ACK_WAIT" /\ f.kind = "ACK" /\ f.blk = m.BlockNum
  \/ m.State = "END_RSP_WAIT" /\ f.kind = "END_RSP"

MasterAnswered == HasFrame("master") /\ Awaits(Got("master"))

\* RetryTimes = 0, the new frame built in TxFrame, its length in Len, sent.
MasterSends(state, block, finish, frame, arg) ==
  /\ m' = [m EXCEPT !.State = state, !.BlockNum = block, !.FinishFlag = finish,
                    !.RetryTimes = 0, !.tx = frame, !.len = frame.len,
                    !.rxArg = arg]
  /\ Transmit("master", Popped("master"), frame)

-----------------------------------------------------------------------------
MasterInit ==
  /\ m.State = "OFF"
  /\ \E img \in Image : m' = [MasterOff EXCEPT !.State = "IDLE", !.img = img]
  /\ ResetAir("master")

MasterIdle ==
  /\ m.State = "IDLE"
  /\ MasterSends("FW_VER_WAIT", m.BlockNum, m.FinishFlag,
                 BareCmdFrame(m.tx, "VERSION_REQ"), m.rxArg)

\* state_tick is more than OTA_DURATION (5 s) ago; the popped message is lost.
MasterDeadline ==
  /\ m.State \in MasterWaits
  /\ m' = [m EXCEPT !.State = "ERROR"]
  /\ Quiet(Popped("master"))

MasterVersionRsp ==
  LET f == Got("master")
      version == RxArg(m.rxArg, f)
  IN  /\ m.State = "FW_VER_WAIT" /\ MasterAnswered
      /\ \/ /\ version < Version[m.img]
            /\ MasterSends("START_RSP_WAIT", m.BlockNum, m.FinishFlag,
                           CmdFrame("START_REQ", NumBlocks(m.img), 2), version)
         \/ /\ version >= Version[m.img]
            /\ m' = [m EXCEPT !.State = "ERROR", !.RetryTimes = 0,
                              !.len = f.len, !.rxArg = version]
            /\ Quiet(Popped("master"))

\* OTA_BuildDataFrame marks the block that leaves at most 48 bytes as the last.
MasterSendsBlock ==
  LET last == m.FinishFlag \/ BinSize[m.img] - m.BlockNum * BlockSize <= BlockSize
  IN  MasterSends("DATA_ACK_WAIT", m.BlockNum + 1, last,
                  DataFrame(m.img, m.BlockNum + 1),
                  RxArg(m.rxArg, Got("master")))

MasterStartRsp ==
  /\ m.State = "START_RSP_WAIT" /\ MasterAnswered
  /\ MasterSendsBlock

MasterDataAck ==
  /\ m.State = "DATA_ACK_WAIT" /\ MasterAnswered
  /\ \/ ~m.FinishFlag /\ MasterSendsBlock
     \/ /\ m.FinishFlag
        /\ MasterSends("END_RSP_WAIT", m.BlockNum, m.FinishFlag,
                       CmdFrame("END_REQ", BinSize[m.img], 4),
                       RxArg(m.rxArg, Got("master")))

MasterEndRsp ==
  /\ m.State = "END_RSP_WAIT" /\ MasterAnswered
  /\ m' = [m EXCEPT !.State = "END", !.RetryTimes = 0, !.len = Got("master").len,
                    !.rxArg = RxArg(m.rxArg, Got("master"))]
  /\ Quiet(Popped("master"))

\* A master that does not count its retries.
EndlessRetry ==
  /\ m.State \in MasterWaits
  /\ queue["master"] # <<>> /\ ~MasterAnswered
  /\ UNCHANGED m
  /\ Transmit("master", Popped("master"), m.tx)

\* Any other message: TxFrame again, with whatever length Len now holds (a
\* received frame has overwritten it), until the retries are used up.
MasterRetry ==
  LET len == IF HasFrame("master") THEN Got("master").len ELSE m.len
      arg == IF HasFrame("master") THEN RxArg(m.rxArg, Got("master")) ELSE m.rxArg
  IN  /\ m.State \in MasterWaits
      /\ queue["master"] # <<>> /\ ~MasterAnswered
      /\ \/ /\ RetriesLeft(m.RetryTimes)
            /\ m' = [m EXCEPT !.RetryTimes = @ + 1, !.len = len, !.rxArg = arg]
            /\ Transmit("master", Popped("master"), [m.tx EXCEPT !.len = len])
         \/ /\ ~RetriesLeft(m.RetryTimes)
            /\ m' = [m EXCEPT !.State = "ERROR", !.len = len, !.rxArg = arg]
            /\ Quiet(Popped("master"))

\* END and ERROR both restart the device.
MasterReboot ==
  /\ m.State \in {"END", "ERROR"}
  /\ m' = MasterOff
  /\ ResetAir("master")

MasterPowerLoss ==
  /\ m.State # "OFF"
  /\ m' = MasterOff
  /\ ResetAir("master")

MasterPoll ==
  \/ MasterIdle
  \/ MasterVersionRsp
  \/ MasterStartRsp
  \/ MasterDataAck
  \/ MasterEndRsp
  \/ MasterRetry
  \/ MasterReboot
=============================================================================
