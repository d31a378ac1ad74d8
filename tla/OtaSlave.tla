------------------------------- MODULE OtaSlave -------------------------------
(***************************************************************************)
(* The slave of a 2.4G firmware update: its two flash banks, the choice of *)
(* the bank to write (app.c), OTA_SlaveInit and the state machine          *)
(* OTA_SlaveStart (ota.c).  The final state is split at every flash write, *)
(* because power may fail between two of them.                             *)
(***************************************************************************)
EXTENDS OtaAir

CONSTANTS
  BankBlocks,    \* 48-byte cells of a bank
  ErasedBlocks   \* cells within the 15 sectors OTA_FlashErase erases (1280)

ASSUME SlaveAssumption ==
  /\ BankBlocks \in Nat /\ ErasedBlocks \in 1..BankBlocks
  /\ \A img \in Image : NumBlocks(img) <= BankBlocks

Bank == {0, 1}               \* at address 0 and at OTA_SLAVE_BIN_ADDR
Cells == 1..BankBlocks
Erased == <<>>               \* all bytes 0xff
Garbage == <<"torn">>        \* anything but a whole block written on 0xff
Piece == Image \X Nat \X Int
Flag == {"erased", "set", "cleared"}    \* bytes 8..11: 0xff.., KNLT, 00..

VARIABLES
  flash,       \* [Bank -> boot flag and cells]
  s            \* SlaveCtrl, TxFrame, Len, kept bytes of RxFrame, running bank

SlaveListens == {"FW_VERSION_READY", "START_READY", "DATA_READY", "END_READY"}
SlaveStates == {"OFF", "APP", "IDLE", "END", "SET_FLAG", "CLEAR_FLAG", "ERROR"}
                 \cup SlaveListens

SlaveTypeOK ==
  /\ flash \in [Bank -> [flag: Flag,
                         cell: [Cells -> Piece \cup {Erased, Garbage}]]]
  /\ s \in [State: SlaveStates, run: Bank, bank: Bank, BlockNum: Nat,
            MaxBlockNum: Nat, TotalBinSize: Int, PktCRC: Seq(Piece),
            RetryTimes: 0..OTA_RETRY_MAX, tx: Frame, len: Int, rxArg: Nat]

SlaveOff ==
  [State |-> "OFF", run |-> 0, bank |-> 0, BlockNum |-> 0, MaxBlockNum |-> 0,
   TotalBinSize |-> 0, PktCRC |-> <<>>, RetryTimes |-> 0, tx |-> NoFrame,
   len |-> 0, rxArg |-> 0]

Blank == [flag |-> "erased", cell |-> [i \in Cells |-> Erased]]

Installed(img) ==
  [flag |-> "set",
   cell |-> [i \in Cells |-> IF i <= NumBlocks(img) THEN Block(img, i) ELSE Erased]]

\* Every block of img, and nothing of another image before its end.
Holds(bk, img) == \A i \in 1..NumBlocks(img) : bk.cell[i] = Block(img, i)

\* The boot ROM starts the bank at address 0 if its flag is set, else the other.
Bootable == {b \in Bank : flash[b].flag = "set"}
BootBank == IF 0 \in Bootable THEN 0 ELSE 1

-----------------------------------------------------------------------------
(***************************************************************************)
(* Flash writes can only turn ones into zeros: writing over anything but   *)
(* an erased cell or the same bytes leaves neither the old nor the new.    *)
(***************************************************************************)
WriteWithFlag(bk, i, piece) ==     \* a first block with its boot flag
  [bk EXCEPT !.cell[i] = piece, !.flag = IF i = 1 THEN "set" ELSE @]
WriteCell(bk, i, piece) ==
  [bk EXCEPT !.cell[i] = IF @ \in {Erased, piece} THEN piece ELSE Garbage]

SetFlag(bk) == [bk EXCEPT !.flag = IF @ = "cleared" THEN @ ELSE "set"]
ClearFlag(bk) == [bk EXCEPT !.flag = "cleared"]

\* An erase of nothing but the boot flag.
EraseFlagOnly(bk) == [bk EXCEPT !.flag = "erased"]

\* OTA_FlashErase, of which the first n cells are done.
EraseCells(bk, n) ==
  [flag |-> IF n > 0 THEN "erased" ELSE bk.flag,
   cell |-> [i \in Cells |-> IF i <= n THEN Erased ELSE bk.cell[i]]]
OTA_FlashErase(bk) == EraseCells(bk, ErasedBlocks)

ResetSlave ==
  /\ s' = SlaveOff
  /\ ResetAir("slave")

\* Which frames the state takes; everything else costs a retry.
Takes(f) ==
  \/ s.State = "FW_VERSION_READY" /\ f.kind = "VERSION_REQ"
  \/ s.State = "START_READY" /\ f.kind \in {"VERSION_REQ", "START_REQ"}
  \/ s.State = "DATA_READY" /\ f.kind = "START_REQ"
  \/ s.State = "DATA_READY" /\ f.kind = "DATA"
                            /\ f.blk \in {s.BlockNum, s.BlockNum + 1}
  \/ s.State = "END_READY" /\ f.kind = "DATA" /\ f.blk = s.BlockNum
  \/ s.State = "END_READY" /\ f.kind = "END_REQ"

SlaveTook == HasFrame("slave") /\ Takes(Got("slave"))

SlaveGot(state, kind) ==
  s.State = state /\ SlaveTook /\ Got("slave").kind = kind

-----------------------------------------------------------------------------
SlaveBoot ==
  /\ s.State = "OFF" /\ Bootable # {}
  /\ s' = [SlaveOff EXCEPT !.State = "APP", !.run = BootBank]
  /\ UNCHANGED <<flash, air>>

\* The button: app.c picks the bank, OTA_SlaveInit erases it.
OTA_SlaveInit ==
  LET target == IF flash[0].flag = "set" THEN 1 ELSE 0
  IN  /\ s.State = "APP"
      /\ s' = [s EXCEPT !.State = "IDLE", !.bank = target]
      /\ flash' = [flash EXCEPT ![target] = OTA_FlashErase(@)]
      /\ UNCHANGED air

SlaveIdle ==
  /\ s.State = "IDLE"
  /\ s' = [s EXCEPT !.State = "FW_VERSION_READY"]
  /\ Listen("slave", Popped("slave"))
  /\ UNCHANGED flash

\* A slave without a deadline in START_READY.
NoStartDeadline ==
  /\ s.State \in SlaveListens \ {"START_READY"}
  /\ s' = [s EXCEPT !.State = "ERROR"]
  /\ Quiet(Popped("slave"))
  /\ UNCHANGED flash

\* state_tick is more than OTA_DURATION (5 s) ago; the popped message is lost.
SlaveDeadline ==
  /\ s.State \in SlaveListens
  /\ s' = [s EXCEPT !.State = "ERROR"]
  /\ Quiet(Popped("slave"))
  /\ UNCHANGED flash

\* A known request in a new state: a new TxFrame, its length in Len.
SlaveAnswers(state, max, frame, f) ==
  /\ s' = [s EXCEPT !.State = state, !.MaxBlockNum = max, !.RetryTimes = 0,
                    !.tx = frame, !.len = frame.len, !.rxArg = RxArg(@, f)]
  /\ Transmit("slave", Popped("slave"), frame)
  /\ UNCHANGED flash

\* A repeated request: TxFrame again, with the length of the received frame.
SlaveAnswersAgain(f) ==
  /\ s' = [s EXCEPT !.RetryTimes = 0, !.len = f.len, !.rxArg = RxArg(@, f)]
  /\ Transmit("slave", Popped("slave"), [s.tx EXCEPT !.len = f.len])
  /\ UNCHANGED flash

\* The version is a constant of the firmware that runs.
RunningVersion == Version[flash[s.run].cell[1][1]]

SlaveVersionReq ==
  /\ SlaveGot("FW_VERSION_READY", "VERSION_REQ")
  /\ SlaveAnswers("START_READY", s.MaxBlockNum,
                  CmdFrame("VERSION_RSP", RunningVersion, 2), Got("slave"))

SlaveVersionReqAgain ==
  /\ SlaveGot("START_READY", "VERSION_REQ")
  /\ SlaveAnswersAgain(Got("slave"))

SlaveStartReq ==
  /\ SlaveGot("START_READY", "START_REQ")
  /\ SlaveAnswers("DATA_READY", RxArg(s.rxArg, Got("slave")),
                  BareCmdFrame(s.tx, "START_RSP"), Got("slave"))

SlaveStartReqAgain ==
  /\ SlaveGot("DATA_READY", "START_REQ")
  /\ SlaveAnswersAgain(Got("slave"))

SlaveDataAgain ==
  /\ SlaveGot("DATA_READY", "DATA") \/ SlaveGot("END_READY", "DATA")
  /\ Got("slave").blk = s.BlockNum
  /\ SlaveAnswersAgain(Got("slave"))

\* A repeated block taken for the next one.
RepeatIsNext == SlaveGot("DATA_READY", "DATA")

\* The next block: written to flash where the bytes so far end (the first one
\* without its boot flag), counted, added to the CRC, acknowledged.
SlaveNextBlock ==
  SlaveGot("DATA_READY", "DATA") /\ Got("slave").blk = s.BlockNum + 1

Received == <<Got("slave").img, Got("slave").blk, Got("slave").len - 3>>

WriteIndex ==
  IF Got("slave").blk = 1 THEN 1 ELSE s.TotalBinSize \div BlockSize + 1

SlaveData ==
  LET f == Got("slave")
      ack == AckFrame(f.blk)
  IN  /\ SlaveNextBlock
      /\ flash' = [flash EXCEPT ![s.bank] = WriteCell(@, WriteIndex, Received)]
      /\ s' = [s EXCEPT !.State = IF f.blk = s.MaxBlockNum THEN "END_READY" ELSE @,
                        !.BlockNum = f.blk, !.TotalBinSize = @ + f.len - 3,
                        !.PktCRC = Append(@, Received), !.RetryTimes = 0,
                        !.tx = ack, !.len = f.len, !.rxArg = RxArg(@, f)]
      /\ Transmit("slave", Popped("slave"), ack)

SlaveEndReq ==
  LET f == Got("slave")
      size == RxArg(s.rxArg, f)
  IN  /\ SlaveGot("END_READY", "END_REQ")
      /\ \/ /\ size = s.TotalBinSize
            /\ SlaveAnswers("END", s.MaxBlockNum, BareCmdFrame(s.tx, "END_RSP"), f)
         \/ /\ size # s.TotalBinSize
            /\ s' = [s EXCEPT !.State = "ERROR", !.RetryTimes = 0,
                              !.len = f.len, !.rxArg = size]
            /\ Quiet(Popped("slave"))
            /\ UNCHANGED flash

\* A slave that repeats its last answer instead of listening.
RetryAnswers ==
  /\ s.State \in SlaveListens
  /\ queue["slave"] # <<>> /\ ~SlaveTook
  /\ IF RetriesLeft(s.RetryTimes)
       THEN /\ s' = [s EXCEPT !.RetryTimes = @ + 1]
            /\ Transmit("slave", Popped("slave"), s.tx)
       ELSE s' = [s EXCEPT !.State = "ERROR"] /\ Quiet(Popped("slave"))
  /\ UNCHANGED flash

\* Any other message: listen again until the retries are used up.
SlaveRetry ==
  LET len == IF HasFrame("slave") THEN Got("slave").len ELSE s.len
      arg == IF HasFrame("slave") THEN RxArg(s.rxArg, Got("slave")) ELSE s.rxArg
  IN  /\ s.State \in SlaveListens
      /\ queue["slave"] # <<>> /\ ~SlaveTook
      /\ \/ /\ RetriesLeft(s.RetryTimes)
            /\ s' = [s EXCEPT !.RetryTimes = @ + 1, !.len = len, !.rxArg = arg]
            /\ Listen("slave", Popped("slave"))
         \/ /\ ~RetriesLeft(s.RetryTimes)
            /\ s' = [s EXCEPT !.State = "ERROR", !.len = len, !.rxArg = arg]
            /\ Quiet(Popped("slave"))
      /\ UNCHANGED flash

-----------------------------------------------------------------------------
(***************************************************************************)
(* The END state.  CRCs are ideal: the CRC of the flash equals that of the *)
(* received bytes only if the bytes are equal, and equals the one stored   *)
(* in the image's tail only if the bytes are one whole image.              *)
(***************************************************************************)
FlashAsReceived ==
  \A i \in 1..Len(s.PktCRC) : flash[s.bank].cell[i] = s.PktCRC[i]

NoCrcCheck == TRUE
CrcMatches ==
  /\ FlashAsReceived
  /\ \E img \in Image : /\ BinSize[img] = s.TotalBinSize
                        /\ Holds(flash[s.bank], img)

SlaveVerify ==
  /\ s.State = "END"
  /\ s' = [s EXCEPT !.State = IF CrcMatches THEN "SET_FLAG" ELSE "ERROR"]
  /\ Quiet(Popped("slave"))
  /\ UNCHANGED flash

\* The current flag cleared first.
ClearFlagFirst ==
  /\ s.State = "SET_FLAG"
  /\ s' = [s EXCEPT !.State = "CLEAR_FLAG"]
  /\ flash' = [flash EXCEPT ![1 - s.bank] = ClearFlag(@)]
  /\ UNCHANGED air

SlaveSetNextBootFlag ==
  /\ s.State = "SET_FLAG"
  /\ s' = [s EXCEPT !.State = "CLEAR_FLAG"]
  /\ flash' = [flash EXCEPT ![s.bank] = SetFlag(@)]
  /\ UNCHANGED air

\* The last step, then the device restarts.
SlaveClearCurrentBootFlag ==
  /\ s.State = "CLEAR_FLAG"
  /\ flash' = [flash EXCEPT ![1 - s.bank] = ClearFlag(@)]
  /\ ResetSlave

SlaveError ==
  /\ s.State = "ERROR"
  /\ flash' = [flash EXCEPT ![s.bank] = OTA_FlashErase(@)]
  /\ ResetSlave

-----------------------------------------------------------------------------
(***************************************************************************)
(* Power may fail anywhere: between two steps, within the page write of a  *)
(* block, within an erase that has done its first n cells.                 *)
(***************************************************************************)
SlavePowerLoss ==
  /\ s.State # "OFF"
  /\ ResetSlave
  /\ UNCHANGED flash

SlaveTornWrite ==
  /\ SlaveNextBlock
  /\ flash' = [flash EXCEPT ![s.bank].cell[WriteIndex] =
                 IF @ = Received THEN @ ELSE Garbage]
  /\ ResetSlave

SlaveTornErase ==
  /\ s.State \in {"APP", "ERROR"}
  /\ LET bank == IF s.State = "ERROR" THEN s.bank
                 ELSE IF flash[0].flag = "set" THEN 1 ELSE 0
     IN  \E n \in 1..(ErasedBlocks - 1) :
           flash' = [flash EXCEPT ![bank] = EraseCells(@, n)]
  /\ ResetSlave

SlavePoll ==
  \/ SlaveIdle
  \/ SlaveVersionReq
  \/ SlaveVersionReqAgain
  \/ SlaveStartReq
  \/ SlaveStartReqAgain
  \/ SlaveDataAgain
  \/ SlaveData
  \/ SlaveEndReq
  \/ SlaveRetry
  \/ SlaveVerify
  \/ SlaveSetNextBootFlag
  \/ SlaveClearCurrentBootFlag
  \/ SlaveError
=============================================================================
