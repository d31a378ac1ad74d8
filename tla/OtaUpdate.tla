------------------------------- MODULE OtaUpdate -------------------------------
(***************************************************************************)
(* A firmware update over 2.4G: OtaMaster and OtaSlave over OtaAir, either *)
(* of which may lose power at any time.                                    *)
(***************************************************************************)
EXTENDS OtaMaster, OtaSlave

vars == <<air, m, s, flash>>

\* Factory state: one image at address 0, the other bank blank, both off.
Init ==
  /\ AirInit
  /\ m = MasterOff
  /\ s = SlaveOff
  /\ \E img \in Image :
       flash = [b \in Bank |-> IF b = 0 THEN Installed(img) ELSE Blank]

MasterStep ==
  /\ \/ MasterInit
     \/ MasterPoll
     \/ MasterDeadline
     \/ MasterPowerLoss
  /\ UNCHANGED <<s, flash>>

SlaveStep ==
  /\ \/ SlaveBoot
     \/ OTA_SlaveInit
     \/ SlavePoll
     \/ SlaveDeadline
     \/ SlavePowerLoss
     \/ SlaveTornWrite
     \/ SlaveTornErase
  /\ UNCHANGED m

TimeOut(n) == RxTimeOut(n) /\ UNCHANGED <<m, s, flash>>

Next ==
  \/ MasterStep
  \/ SlaveStep
  \/ \E n \in Node : TimeOut(n)

Spec == Init /\ [][Next]_vars

\* The main loops poll for ever, a listening radio times out, and the clock
\* passes the slave's deadline.  Nothing is assumed of the master's deadline.
FairSpec ==
  /\ Spec
  /\ WF_vars(MasterPoll /\ UNCHANGED <<s, flash>>)
  /\ WF_vars(SlavePoll /\ UNCHANGED m)
  /\ WF_vars(SlaveDeadline /\ UNCHANGED m)
  /\ \A n \in Node : WF_vars(TimeOut(n))

TypeOK == AirTypeOK /\ MasterTypeOK /\ SlaveTypeOK

-----------------------------------------------------------------------------
\* At every moment, power loss included, the boot ROM finds a bank to start
\* and that bank holds one whole image (boot flags, ota.c:752-763).
NeverBricked ==
  /\ Bootable # {}
  /\ \E img \in Image : Holds(flash[BootBank], img)

\* The single-shot radio keeps at most one message in each queue, and none
\* while an operation is pending: an interrupt never pushes while the main
\* loop pops (ota.c:56-79), and the four receive buffers are never reused
\* before they are read (mac.c:124-126).
OneEventPerOperation ==
  \A n \in Node : Len(queue[n]) <= (IF radio[n] = "rx" THEN 0 ELSE 1)

\* Len is overwritten by every received frame (ota.c:193, 240, 278, 323), yet
\* the master never repeats a request shorter than it was built.
RequestsWhole ==
  m.State \in MasterWaits => m.len >= m.tx.len

\* Stop-and-wait: while both are in the transfer, the slave is at the block the
\* master sent last or the one before, and all it has are blocks of that image.
InStep ==
  /\ m.State \in {"DATA_ACK_WAIT", "END_RSP_WAIT"}
  /\ s.State \in {"DATA_READY", "END_READY", "END", "SET_FLAG", "CLEAR_FLAG"}
  => /\ s.BlockNum \in {m.BlockNum - 1, m.BlockNum}
     /\ Len(s.PktCRC) = s.BlockNum
     /\ \A i \in 1..s.BlockNum : s.PktCRC[i] = Block(m.img, i)
     /\ m.State = "END_RSP_WAIT" => s.BlockNum = NumBlocks(m.img)
     /\ s.State # "DATA_READY" => s.BlockNum = NumBlocks(m.img)

\* The address range the slave writes is blank when a transfer begins, as
\* ota.c:455 says of OTA_FlashErase: "erase the OTA write area".
WriteAreaErased ==
  s.State \in {"IDLE", "FW_VERSION_READY", "START_READY"}
    => flash[s.bank] = Blank

\* The erase at the start of a session reaches as far as the images do.
EraseCovers == \A img \in Image : NumBlocks(img) <= ErasedBlocks

\* Under EraseCovers: every transfer begins in a blank area (ota.c:455), and
\* whatever was lost, repeated or restarted, a bank is never assembled from two
\* images or with a hole: it passes the CRC check of the END state (ota.c:744).
CleanTransfer ==
  [][WriteAreaErased' /\ (s.State = "END" => s'.State # "ERROR")]_vars

\* The version check ("compare the received version with that of OTA_bin",
\* ota.c:200) lets a device start only a newer image than it ran.
OnlyNewer ==
  [][BootBank' # BootBank =>
       Version[flash[BootBank].cell[1][1]] < Version[flash'[BootBank'].cell[1][1]]]_vars

\* The master's retries alone end each session of it (ota.c:219-225).
MasterEnds == m.State \in MasterWaits ~> m.State \notin MasterWaits

\* The slave, whose retries every repeated request resets, ends its session by
\* its deadline (ota.c:471, 508, 556, 643).
SlaveEnds == s.State \in SlaveListens ~> s.State \notin SlaveListens

\* The image a bank holds whole, if any.
ImageIn(bk) == IF \E img \in Image : Holds(bk, img) THEN bk.cell[1][1] ELSE NoImage

\* The image the boot ROM starts, and a checked one whose flag is yet to decide.
Started == IF Bootable = {} THEN NoImage ELSE ImageIn(flash[BootBank])
Staging == \/ s.State = "SET_FLAG"
           \/ s.State = "CLEAR_FLAG" /\ BootBank # s.bank

AtomicDevice ==
  INSTANCE AtomicUpdate WITH
    active <- Started,
    staged <- IF Staging THEN ImageIn(flash[s.bank]) ELSE NoImage

\* The device starts the old image or a whole, checked new one, at every moment:
\* the flag writes of the END state (ota.c:752-763) switch it in one step.
ImplementsAtomicUpdate == AtomicDevice!Spec
=============================================================================
