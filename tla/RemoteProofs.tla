---------------------------- MODULE RemoteProofs ----------------------------
(***************************************************************************)
(* Proofs about the remote control's program: what flash protection        *)
(* promises, for every set of chips that satisfies the assumptions and for *)
(* any number of failed and torn writes, and then what holds of the        *)
(* program's parts together.                                               *)
(***************************************************************************)
EXTENDS MCRemote, TLAPS

\* What a settled device has in its protection bits, and how it came there.
IInv ==
  /\ TypeOK
  /\ op # "off" => prot = flash_protection_init(chip, boot)
  /\ op \in {"unlock", "relock", "lock"} => ~ prot.init_err
  /\ op = "unlock" => session
  /\ op = "off" => ~ session
  /\ op \in {"relock", "lock"} => ~ session
  /\ Settled => flash_get_lock_block = IF session THEN {} ELSE prot.cmd

\* The locked area depends on the protection bits alone.
LEMMA LockedByBits ==
  ASSUME NEW c \in Chip, NEW s
  PROVE  Locked(c, s) = Locked(c, s \cap c.bp)
<1>1. CASE c.bp = BpWide
  <2>1. \A i \in {2, 3, 4, 5, 6, 14} : (i \in s) = (i \in s \cap c.bp)
    BY <1>1 DEF BpWide
  <2>2. Bp(s) = Bp(s \cap c.bp)
    BY <2>1 DEF Bp
  <2>3. /\ (6 \in s) = (6 \in s \cap c.bp)
        /\ (5 \in s) = (5 \in s \cap c.bp)
        /\ (14 \in s) = (14 \in s \cap c.bp)
    BY <2>1
  <2>4. WideLocked(c.size, s) = WideLocked(c.size, s \cap c.bp)
    BY <2>2, <2>3, Zenon DEF WideLocked
  <2>5. QED
    BY <1>1, <2>4 DEF Locked
<1>2. CASE c.bp = BpNarrow
  <2>1. \A i \in {2, 3, 4} : (i \in s) = (i \in s \cap c.bp)
    BY <1>2 DEF BpNarrow
  <2>2. Bp(s) = Bp(s \cap c.bp)
    BY <2>1 DEF Bp
  <2>3. NarrowLocked(c.size, s) = NarrowLocked(c.size, s \cap c.bp)
    BY <2>2, Zenon DEF NarrowLocked
  <2>4. 14 \in BpWide /\ 14 \notin BpNarrow
    BY DEF BpNarrow, BpWide
  <2>5. QED
    BY <1>2, <2>3, <2>4 DEF Locked
<1>3. QED
  BY <1>1, <1>2, ChipAssumption

\* Without protection bits nothing is locked.
LEMMA NoBitsNothing ==
  ASSUME NEW c \in Chip
  PROVE  Locked(c, {}) = Nothing
<1>1. Bp({}) = 0
  BY DEF Bp
<1>2. NarrowLocked(c.size, {}) = Nothing
  BY <1>1 DEF NarrowLocked, NarrowArea
<1>3. WideLocked(c.size, {}) = Nothing
  BY <1>1 DEF WideLocked, WideArea
<1>4. QED
  BY <1>2, <1>3 DEF Locked

\* What flash_protection_init leaves in RAM.
LEMMA InitType ==
  ASSUME NEW c \in Chip, NEW b \in Boot
  PROVE  flash_protection_init(c, b) \in [init_err : BOOLEAN, cmd : SUBSET c.bp]
<1>1. CASE c.mid \in Handled
  BY <1>1, ChipAssumption, LayoutAssumption DEF flash_protection_init, Code
<1>2. CASE c.mid \notin Handled
  BY <1>2 DEF flash_protection_init
<1>3. QED
  BY <1>1, <1>2

LEMMA CodeInBits ==
  ASSUME NEW c \in Chip, NEW k \in DOMAIN c.low
  PROVE  Code(c, k) \in SUBSET c.bp
BY ChipAssumption DEF Code

LEMMA InitIInv == Init => IInv
<1>1. SUFFICES ASSUME Init PROVE IInv
  OBVIOUS
<1>2. sr \in SUBSET (chip.bp \cup Other)
  <2>1. PICK low \in {{}} \cup {Code(chip, k) : k \in DOMAIN chip.low}, o \in SUBSET Other :
          sr = low \cup o
    BY <1>1 DEF Init
  <2>2. chip \in Chip
    BY <1>1 DEF Init
  <2>3. low \in SUBSET chip.bp
    BY <2>1, <2>2, CodeInBits
  <2>4. QED
    BY <2>1, <2>3
<1>3. prot \in [init_err : BOOLEAN, cmd : SUBSET chip.bp] /\ tries \in 0..3
  BY <1>1 DEF Init, NoLock
<1>5. session \in BOOLEAN /\ gaveUp \in BOOLEAN
  BY <1>1, Zenon DEF Init
<1>4. TypeOK
  BY <1>1, <1>2, <1>3, <1>5 DEF Init, TypeOK
<1>6. QED
  BY <1>1, <1>4 DEF Init, IInv, Settled

\* The turn of a loop: the register's other bits stay, and it settles on what is wanted.
LEMMA WriteStep ==
  ASSUME TypeOK, NEW data \in SUBSET chip.bp, flash_write_status_mid(data, chip.bp)
  PROVE  /\ sr' \in SUBSET (chip.bp \cup Other)
         /\ sr' \ chip.bp = sr \ chip.bp
BY DEF TypeOK, flash_write_status_mid, Written

LEMMA NextIInv == IInv /\ [Next]_vars => IInv'
<1>1. SUFFICES ASSUME IInv, [Next]_vars PROVE IInv'
  OBVIOUS
<1>t. TypeOK
  BY <1>1 DEF IInv
<1>2. CASE UnlockTurn
  <2>1. /\ sr' \in SUBSET (chip.bp \cup Other)
        /\ UNCHANGED <<chip, boot, prot, session>>
    BY <1>2, <1>t, WriteStep DEF UnlockTurn, flash_unlock_mid
  <2>2. op' \in {"idle", "unlock", "relock", "lock"} /\ tries' \in 0..2
    BY <1>2, <1>t DEF UnlockTurn, Turn, TypeOK
  <2>b. gaveUp' \in BOOLEAN
    BY <1>2, Zenon DEF UnlockTurn, Turn
  <2>3. TypeOK'
    BY <2>1, <2>2, <2>b, <1>t, Zenon DEF TypeOK
  <2>4. /\ op = "unlock" => op' \in {"unlock", "idle"} /\ session
        /\ op = "relock" => op' \in {"relock", "lock"} /\ ~ session
        /\ op \in {"unlock", "relock"} /\ ~ prot.init_err
    BY <1>1, <1>2 DEF UnlockTurn, Turn, IInv
  <2>5. Settled' => (flash_get_lock_block = {})' /\ session'
    <3>1. ASSUME Settled' PROVE op = "unlock" /\ (sr \cap chip.bp = {})'
      BY <1>2, <2>1, <2>4, <3>1 DEF UnlockTurn, Turn, Settled
    <3>2. QED
      BY <2>1, <2>4, <3>1 DEF flash_get_lock_block
  <2>6. QED
    BY <1>1, <2>1, <2>3, <2>4, <2>5 DEF IInv
<1>3. CASE LockTurn
  <2>0. prot.cmd \in SUBSET chip.bp
    BY <1>t DEF TypeOK
  <2>1. /\ sr' \in SUBSET (chip.bp \cup Other)
        /\ UNCHANGED <<chip, boot, prot, session>>
    BY <1>3, <1>t, <2>0, WriteStep DEF LockTurn, flash_lock_mid
  <2>2. op' \in {"idle", "lock"} /\ tries' \in 0..2
    BY <1>3, <1>t DEF LockTurn, Turn, TypeOK
  <2>b. gaveUp' \in BOOLEAN
    BY <1>3, Zenon DEF LockTurn, Turn
  <2>3. TypeOK'
    BY <2>1, <2>2, <2>b, <1>t, Zenon DEF TypeOK
  <2>4. op = "lock" /\ ~ session /\ ~ prot.init_err
    BY <1>1, <1>3 DEF LockTurn, IInv
  <2>5. Settled' => (flash_get_lock_block = prot.cmd)'
    BY <1>3, <2>1, <2>4 DEF LockTurn, Turn, Settled, flash_get_lock_block
  <2>6. QED
    BY <1>1, <2>1, <2>2, <2>3, <2>4, <2>5 DEF IInv
<1>4. CASE PowerOn
  <2>1. /\ prot' = flash_protection_init(chip, boot)
        /\ UNCHANGED <<chip, boot, sr, session>>
        /\ prot' \in [init_err : BOOLEAN, cmd : SUBSET chip.bp]
    BY <1>4, <1>t, InitType DEF PowerOn, TypeOK
  <2>2. /\ op' \in {"idle", "relock", "lock"}
        /\ prot'.init_err => op' = "idle"
        /\ tries' = 0 /\ gaveUp' = FALSE
    BY <1>4 DEF PowerOn, StartLock, LockFrom
  <2>b. gaveUp' \in BOOLEAN
    BY <2>2, Zenon
  <2>3. TypeOK'
    BY <2>1, <2>2, <2>b, <1>t DEF TypeOK
  <2>4. ~ session
    BY <1>1, <1>4 DEF IInv, PowerOn
  <2>5. QED
    BY <1>4, <2>1, <2>2, <2>3, <2>4
       DEF IInv, PowerOn, StartLock, LockFrom, Settled, flash_get_lock_block
<1>5. CASE Begin
  <2>a. op' \in {"idle", "unlock"} /\ tries' \in 0..2
    BY <1>5 DEF Begin, StartUnlock
  <2>b. session' \in BOOLEAN /\ gaveUp' \in BOOLEAN
    BY <1>5, Zenon DEF Begin, StartUnlock
  <2>1. TypeOK'
    BY <1>5, <1>t, <2>a, <2>b DEF Begin, TypeOK
  <2>2. QED
    BY <1>1, <1>5, <2>1 DEF IInv, Begin, StartUnlock, Settled, flash_get_lock_block
<1>6. CASE End
  <2>a. op' \in {"idle", "relock", "lock"} /\ tries' \in 0..2
    BY <1>6 DEF End, StartLock, LockFrom
  <2>b. session' \in BOOLEAN /\ gaveUp' \in BOOLEAN
    BY <1>6, Zenon DEF End, StartLock
  <2>1. TypeOK'
    BY <1>6, <1>t, <2>a, <2>b DEF End, TypeOK
  <2>2. QED
    BY <1>1, <1>6, <2>1 DEF IInv, End, StartLock, LockFrom, Settled, flash_get_lock_block
<1>7. CASE PowerLoss \/ TornWrite
  <2>1. Off
    BY <1>7 DEF PowerLoss, TornWrite
  <2>2. sr' \in SUBSET (chip.bp \cup Other)
    BY <1>7, <1>t DEF PowerLoss, TornWrite, Written, TypeOK
  <2>a. prot' \in [init_err : BOOLEAN, cmd : SUBSET chip.bp]' /\ tries' \in 0..2
    BY <2>1 DEF Off, NoLock
  <2>b. session' \in BOOLEAN /\ gaveUp' \in BOOLEAN
    BY <2>1, Zenon DEF Off
  <2>3. TypeOK'
    BY <2>1, <2>2, <2>a, <2>b, <1>t DEF Off, TypeOK
  <2>4. QED
    BY <2>1, <2>3 DEF IInv, Off, Settled
<1>8. CASE UNCHANGED vars
  BY <1>1, <1>8 DEF IInv, TypeOK, Settled, flash_get_lock_block, vars
<1>9. QED
  BY <1>1, <1>2, <1>3, <1>4, <1>5, <1>6, <1>7, <1>8 DEF Next

LEMMA IInvHolds == Spec => []IInv
<1>1. QED
  BY InitIInv, NextIInv, PTL DEF Spec

-----------------------------------------------------------------------------
\* The variables keep their types.
THEOREM TypeCorrect == Spec => []TypeOK
BY IInvHolds, PTL DEF IInv

\* No lock or unlock, complete, failed or torn, changes a bit beyond the
\* protection bits.
THEOREM BitsKept == Spec => OtherBitsKept
<1>1. ASSUME TypeOK, [Next]_vars
      PROVE  [sr' \ chip.bp = sr \ chip.bp]_vars
  <2>1. CASE UnlockTurn
    BY <1>1, <2>1, WriteStep DEF UnlockTurn, flash_unlock_mid
  <2>2. CASE LockTurn
    <3>1. prot.cmd \in SUBSET chip.bp
      BY <1>1 DEF TypeOK
    <3>2. QED
      BY <1>1, <2>2, <3>1, WriteStep DEF LockTurn, flash_lock_mid
  <2>3. CASE PowerOn \/ Begin \/ End \/ PowerLoss
    BY <2>3 DEF PowerOn, Begin, End, PowerLoss
  <2>4. CASE TornWrite
    <3>1. prot.cmd \in SUBSET chip.bp
      BY <1>1 DEF TypeOK
    <3>2. QED
      BY <2>4, <3>1 DEF TornWrite, Written
  <2>5. CASE UNCHANGED vars
    BY <2>5
  <2>6. QED
    BY <1>1, <2>1, <2>2, <2>3, <2>4, <2>5 DEF Next
<1>2. QED
  BY <1>1, TypeCorrect, PTL DEF Spec, OtherBitsKept

\* An update whose unlock did not fail three times finds nothing locked.
THEOREM UpdatesLand == Spec => []UpdateLands
<1>1. ASSUME IInv PROVE UpdateLands
  <2>1. SUFFICES ASSUME Settled, session PROVE Area = Nothing
    BY DEF UpdateLands
  <2>2. chip \in Chip /\ sr \cap chip.bp = {}
    BY <1>1, <2>1 DEF IInv, TypeOK, flash_get_lock_block
  <2>3. QED
    BY <2>2, LockedByBits, NoBitsNothing DEF Area
<1>2. QED
  BY <1>1, IInvHolds, PTL

\* What a settled device has locked outside an update: the low area of the size
\* that flash_prot.c chose for the chip and the layout.
LEMMA SettledArea ==
  ASSUME IInv, Settled, ~ session
  PROVE  LET size == FlashLockSize(chip, app_lockBlock(chip, boot))
         IN size # NoSize /\ chip.mid \in Handled /\ Area = <<0, size>>
<1> DEFINE size == FlashLockSize(chip, app_lockBlock(chip, boot))
<1>1. /\ chip \in Chip /\ boot \in Boot
      /\ prot = flash_protection_init(chip, boot)
      /\ sr \cap chip.bp = prot.cmd
  BY DEF IInv, TypeOK, Settled, flash_get_lock_block
<1>2. size # NoSize /\ chip.mid \in Handled /\ prot.cmd = chip.low[size]
  BY <1>1 DEF Settled, flash_protection_init, Code
<1>3. size \in DOMAIN chip.low
  BY <1>1, <1>2, LayoutAssumption
<1>4. Locked(chip, chip.low[size]) = <<0, size>>
  BY <1>1, <1>3, ChipAssumption
<1>5. QED
  BY <1>1, <1>2, <1>4, LockedByBits DEF Area

\* Outside updates both firmware slots are locked, save the top 64K.
THEOREM FirmwareIsGuarded == Spec => []FirmwareGuarded
<1>1. ASSUME IInv PROVE FirmwareGuarded
  <2>1. SUFFICES ASSUME Settled, ~ session
                 PROVE  Covers(Area, 0, AtMost(2 * boot, chip.size - 64))
    BY DEF FirmwareGuarded
  <2>2. /\ boot \in {128, 256, 512} /\ chip.size \in {512, 1024, 2048}
        /\ FlashLockSize(chip, app_lockBlock(chip, boot)) # NoSize
        /\ Area = <<0, FlashLockSize(chip, app_lockBlock(chip, boot))>>
    BY <1>1, <2>1, SettledArea, LayoutAssumption DEF IInv, TypeOK
  <2>3. QED
    BY <2>2 DEF FlashLockSize, app_lockBlock, NoSize, Covers, AtMost
<1>2. QED
  BY <1>1, IInvHolds, PTL

\* Whenever a call is over, the top 64K of the chip can be written.
THEOREM SystemDataIsWritable == Spec => []SystemDataWritable
<1>1. ASSUME IInv PROVE SystemDataWritable
  <2>1. SUFFICES ASSUME Settled
                 PROVE  ~ Touches(Area, chip.size - 64, chip.size)
    BY DEF SystemDataWritable
  <2>2. CASE session
    <3>1. /\ chip \in Chip /\ boot \in Boot
          /\ prot = flash_protection_init(chip, boot)
          /\ sr \cap chip.bp = {}
      BY <1>1, <2>1, <2>2 DEF IInv, TypeOK, Settled, flash_get_lock_block
    <3>2. Area = <<0, 0>>
      BY <3>1, LockedByBits, NoBitsNothing DEF Area, Nothing
    <3>3. chip.mid \in Handled
      BY <2>1, <3>1 DEF Settled, flash_protection_init
    <3>4. chip.size \in {512, 1024, 2048}
      BY <3>1, <3>3, LayoutAssumption
    <3>5. QED
      BY <3>2, <3>4 DEF Touches
  <2>3. CASE ~ session
    <3>1. /\ boot \in {128, 256, 512} /\ chip.size \in {512, 1024, 2048}
          /\ FlashLockSize(chip, app_lockBlock(chip, boot)) # NoSize
          /\ Area = <<0, FlashLockSize(chip, app_lockBlock(chip, boot))>>
      BY <1>1, <2>1, <2>3, SettledArea, LayoutAssumption DEF IInv, TypeOK
    <3>2. QED
      BY <3>1 DEF FlashLockSize, app_lockBlock, NoSize, Touches
  <2>4. QED
    BY <2>2, <2>3
<1>2. QED
  BY <1>1, IInvHolds, PTL

-----------------------------------------------------------------------------
(***************************************************************************)
(* The voice of the dongle among the other parts: what RemotePartProofs    *)
(* shows of it alone holds while the other parts move.                     *)
(***************************************************************************)
RunP == INSTANCE RemotePartProofs WITH
  F <- 3, W <- 8, RESET <- 1, Steady <- TRUE, mic_wptr <- audio_mic_wptr,
  dec_wptr <- audio_dec_wptr, dec_rptr <- audio_dec_rptr,
  abuf_mic <- audio_abuf_mic, abuf_dec <- audio_abuf_dec,
  abuf_reset <- audio_abuf_reset, start <- audio_start,
  buffer_empty <- audio_buffer_empty, n_usb_iso <- audio_n_usb_iso,
  pc <- audio_pc, played <- audio_played,
  KeyboardKeys <- {"k"}, ConsumerKeys <- {}, Voice <- "v", Mode <- "m",
  NoKey <- "none", MaxHeld <- 2, TxFifo <- 1, FastScan <- FALSE,
  Patient <- FALSE, MaxDrops <- 1, Configs <- LedConfigs, Forever <- 9, Width <- 4, MaxLate <- 5,
  Drive <- 2, Scan <- 2, Modifier <- {<<1, 0>>}, Repeatable <- {<<0, 0>>, <<0, 1>>}, Fn <- {},
  KB_RETURN_KEY_MAX <- 2, KB_RM_GHOST_KEY_EN <- TRUE, KB_REPEAT_KEY_ENABLE <- TRUE,
  Interval <- 2, Status <- ScanLoop,
  Codes <- {"n", "m"}, Switch <- "s", Power <- "p", NoCode <- "none", Learned <- FALSE,
  Rollover <- TRUE, Cycle <- 3, Gaps <- {8, 9}, Threshold <- 6, End <- 12, CHECK <- 2, MIN <- 2,
  MAX <- 6, MaxBurst <- 4, MaxStarts <- 2

LEMMA AudioConstants == RunP!DongleAudioAssumption
BY DEF RunP!DongleAudioAssumption

\* RunP and Audio are one module with the same constants and variables.
LEMMA AudioInit == Audio!Init => RunP!Init
BY DEF Audio!Init, RunP!Init, Audio!None, RunP!None, Audio!Slot, RunP!Slot

LEMMA AudioNext == Audio!Next => RunP!Next
BY DEF Audio!Next, RunP!Next, Audio!abuf_mic_add, RunP!abuf_mic_add, Audio!abuf_init,
       RunP!abuf_init, Audio!Discard, RunP!Discard, Audio!abuf_mic_dec,
       RunP!abuf_mic_dec, Audio!Decoded, RunP!Decoded, Audio!Usb, RunP!Usb,
       Audio!UsbLate, RunP!UsbLate, Audio!abuf_dec_usb, RunP!abuf_dec_usb, Audio!Ahead,
       RunP!Ahead, Audio!Playing, RunP!Playing, Audio!num_mic, RunP!num_mic,
       Audio!num_dec, RunP!num_dec, Audio!RoomToDecode, RunP!RoomToDecode, Audio!Enough,
       RunP!Enough, Audio!Wrap, RunP!Wrap, Audio!Half, RunP!Half, Audio!Advance,
       RunP!Advance, Audio!MayPlay, RunP!MayPlay

LEMMA AudioProperties ==
  RunP!TypeOK /\ RunP!PlaysDecoded /\ RunP!FramesInOrder /\ RunP!DecodedFits => SoundRight
<1>1. RunP!TypeOK => Audio!TypeOK
  BY DEF Audio!TypeOK, RunP!TypeOK, Audio!Counter, RunP!Counter, Audio!Slot, RunP!Slot,
         Audio!None, RunP!None
<1>2. RunP!PlaysDecoded => Audio!PlaysDecoded
  BY DEF Audio!PlaysDecoded, RunP!PlaysDecoded
<1>3. RunP!FramesInOrder => Audio!FramesInOrder
  BY DEF Audio!FramesInOrder, RunP!FramesInOrder, Audio!Slot, RunP!Slot
<1>4. RunP!DecodedFits => Audio!DecodedFits
  BY DEF Audio!DecodedFits, RunP!DecodedFits, Audio!num_dec, RunP!num_dec, Audio!Ahead,
         RunP!Ahead, Audio!Playing, RunP!Playing
<1> QED
  BY <1>1, <1>2, <1>3, <1>4 DEF SoundRight

LEMMA AudioSteps == ASSUME [MCNext]_all_vars PROVE [RunP!Next]_(RunP!vars)
<1>1. CASE AudioMoves
  BY <1>1, AudioNext DEF AudioMoves
<1>2. CASE ~ AudioMoves
  <2>1. UNCHANGED audio_vars
    BY <1>2 DEF MCNext, all_vars, ProtMoves, RcMoves, CalmMoves, KeyboardMoves, RingMoves,
                WokenMoves, IrKeysMoves, IrCodeMoves, LearningMoves, LedMoves, MicMoves, CodecMoves
  <2> QED
    BY <2>1 DEF audio_vars, RunP!vars
<1> QED
  BY <1>1, <1>2

\* With the other parts around it, the dongle plays what it decoded, each frame once and in order,
\* and never has more of them than its ring holds; RemotePartProofs at the run's constants.
THEOREM DongleSoundRight == MCSpec => []SoundRight
<1>1. MCInit => RunP!Init
  BY AudioInit DEF MCInit
<1>2. [MCNext]_all_vars => [RunP!Next]_(RunP!vars)
  BY AudioSteps
<1>3. MCSpec => RunP!Spec
  BY <1>1, <1>2, PTL DEF MCSpec, RunP!Spec
<1>4. RunP!Spec => []RunP!TypeOK
  BY AudioConstants, RunP!TypeCorrect
<1>5. RunP!Spec => []RunP!PlaysDecoded
  BY AudioConstants, RunP!PlaysWhatWasDecoded
<1>6. RunP!Spec => []RunP!FramesInOrder
  BY AudioConstants, RunP!DecodedInOrder
<1>7. RunP!Spec => []RunP!DecodedFits
  BY AudioConstants, RunP!NeverTooMany
<1> QED
  BY <1>3, <1>4, <1>5, <1>6, <1>7, AudioProperties, PTL

-----------------------------------------------------------------------------
(***************************************************************************)
(* The remote among the other parts, at the constants of RunP and, with one *)
(* key at a time and a user who waits, of CalmP.                           *)
(***************************************************************************)
CalmP == INSTANCE RemotePartProofs WITH
  F <- 3, W <- 8, RESET <- 1, Steady <- TRUE, mic_wptr <- audio_mic_wptr,
  dec_wptr <- audio_dec_wptr, dec_rptr <- audio_dec_rptr,
  abuf_mic <- audio_abuf_mic, abuf_dec <- audio_abuf_dec,
  abuf_reset <- audio_abuf_reset, start <- audio_start,
  buffer_empty <- audio_buffer_empty, n_usb_iso <- audio_n_usb_iso,
  pc <- audio_pc, played <- audio_played,
  KeyboardKeys <- {"k"}, ConsumerKeys <- {"c"}, Voice <- "v", Mode <- "m",
  NoKey <- "none", MaxHeld <- 1, TxFifo <- 2, FastScan <- FALSE,
  Patient <- TRUE, MaxDrops <- 1, Configs <- LedConfigs, Forever <- 9, Width <- 4, MaxLate <- 5,
  Drive <- 1, Scan <- 1, Modifier <- {}, Repeatable <- {<<0, 0>>}, Fn <- {},
  KB_RETURN_KEY_MAX <- 2, KB_RM_GHOST_KEY_EN <- FALSE, KB_REPEAT_KEY_ENABLE <- FALSE,
  Interval <- 2, Status <- ScanAny,
  Codes <- {"n", "m"}, Switch <- "s", Power <- "p", NoCode <- "none", Learned <- TRUE,
  Rollover <- FALSE, Cycle <- 3, Gaps <- {8, 9}, Threshold <- 6, End <- 12, CHECK <- 2, MIN <- 2,
  MAX <- 6, MaxBurst <- 4, MaxStarts <- 2

LEMMA RcConstants == RunP!Rc!BleRemoteAssumption /\ CalmP!Rc!BleRemoteAssumption
BY DEF RunP!Rc!BleRemoteAssumption, CalmP!Rc!BleRemoteAssumption, RunP!Rc!Keys, CalmP!Rc!Keys

LEMMA RcCardinalityIs == ASSUME NEW S PROVE Rc!Cardinality(S) = RunP!Rc!Cardinality(S)
BY DEF Rc!Cardinality, RunP!Rc!Cardinality

LEMMA RcKeysAre == Rc!Keys = RunP!Rc!Keys
BY DEF Rc!Keys, RunP!Rc!Keys

LEMMA RcNext == Rc!Next => RunP!Rc!Next
BY RcCardinalityIs
   DEF Rc!Init, RunP!Rc!Init, Rc!NothingDown, RunP!Rc!NothingDown, Rc!Types,
       RunP!Rc!Types, Rc!Next, RunP!Rc!Next, Rc!Scan, RunP!Rc!Scan, Rc!ScanChange,
       RunP!Rc!ScanChange, Rc!ScanCached, RunP!Rc!ScanCached, Rc!ManualRelease,
       RunP!Rc!ManualRelease, Rc!VoiceStarts, RunP!Rc!VoiceStarts, Rc!key_change_proc,
       RunP!Rc!key_change_proc, Rc!KeyPressed, RunP!Rc!KeyPressed, Rc!TwoKeys,
       RunP!Rc!TwoKeys, Rc!KeyReleased, RunP!Rc!KeyReleased, Rc!Push, RunP!Rc!Push,
       Rc!Connect, RunP!Rc!Connect, Rc!LinkEnds, RunP!Rc!LinkEnds, Rc!LinkDrops,
       RunP!Rc!LinkDrops, Rc!Terminated, RunP!Rc!Terminated, Rc!ReportSent,
       RunP!Rc!ReportSent, Rc!blt_pm_proc, RunP!Rc!blt_pm_proc, Rc!CancelTerminate,
       RunP!Rc!CancelTerminate, Rc!SleepAfterLink, RunP!Rc!SleepAfterLink,
       Rc!SleepAfterAdv, RunP!Rc!SleepAfterAdv, Rc!TerminateLink, RunP!Rc!TerminateLink,
       Rc!DeepSleep, RunP!Rc!DeepSleep, Rc!UserTask, RunP!Rc!UserTask, Rc!Wake,
       RunP!Rc!Wake, Rc!LedEnds, RunP!Rc!LedEnds, Rc!Minute, RunP!Rc!Minute, Rc!User,
       RunP!Rc!User, Rc!Keys, RunP!Rc!Keys, Rc!keyVars, RunP!Rc!keyVars, Rc!linkVars,
       RunP!Rc!linkVars, Rc!backVars, RunP!Rc!backVars

LEMMA CalmCardinalityIs == ASSUME NEW S PROVE Calm!Cardinality(S) = CalmP!Rc!Cardinality(S)
BY DEF Calm!Cardinality, CalmP!Rc!Cardinality

LEMMA CalmKeysAre == Calm!Keys = CalmP!Rc!Keys
BY DEF Calm!Keys, CalmP!Rc!Keys

LEMMA CalmNext == Calm!Next => CalmP!Rc!Next
BY CalmCardinalityIs
   DEF Calm!Init, CalmP!Rc!Init, Calm!NothingDown, CalmP!Rc!NothingDown, Calm!Types,
       CalmP!Rc!Types, Calm!Next, CalmP!Rc!Next, Calm!Scan, CalmP!Rc!Scan,
       Calm!ScanChange, CalmP!Rc!ScanChange, Calm!ScanCached, CalmP!Rc!ScanCached,
       Calm!ManualRelease, CalmP!Rc!ManualRelease, Calm!VoiceStarts, CalmP!Rc!VoiceStarts,
       Calm!key_change_proc, CalmP!Rc!key_change_proc, Calm!KeyPressed,
       CalmP!Rc!KeyPressed, Calm!TwoKeys, CalmP!Rc!TwoKeys, Calm!KeyReleased,
       CalmP!Rc!KeyReleased, Calm!Push, CalmP!Rc!Push, Calm!Connect, CalmP!Rc!Connect,
       Calm!LinkEnds, CalmP!Rc!LinkEnds, Calm!LinkDrops, CalmP!Rc!LinkDrops,
       Calm!Terminated, CalmP!Rc!Terminated, Calm!ReportSent, CalmP!Rc!ReportSent,
       Calm!blt_pm_proc, CalmP!Rc!blt_pm_proc, Calm!CancelTerminate,
       CalmP!Rc!CancelTerminate, Calm!SleepAfterLink, CalmP!Rc!SleepAfterLink,
       Calm!SleepAfterAdv, CalmP!Rc!SleepAfterAdv, Calm!TerminateLink,
       CalmP!Rc!TerminateLink, Calm!DeepSleep, CalmP!Rc!DeepSleep, Calm!UserTask,
       CalmP!Rc!UserTask, Calm!Wake, CalmP!Rc!Wake, Calm!LedEnds, CalmP!Rc!LedEnds,
       Calm!Minute, CalmP!Rc!Minute, Calm!User, CalmP!Rc!User, Calm!Keys, CalmP!Rc!Keys,
       Calm!keyVars, CalmP!Rc!keyVars, Calm!linkVars, CalmP!Rc!linkVars, Calm!backVars,
       CalmP!Rc!backVars

LEMMA RcInit == MCInit => RunP!Rc!Init /\ CalmP!Rc!Init
BY DEF MCInit, Rc!Init, RunP!Rc!Init, CalmP!Rc!Init, Rc!NothingDown, RunP!Rc!NothingDown,
       CalmP!Rc!NothingDown, Rc!Types, RunP!Rc!Types, CalmP!Rc!Types

RemoteInv ==
  /\ part = "remote" => RunP!RcInv /\ RunP!KeyInv /\ RunP!MicInv
  /\ part = "remote_calm" => CalmP!RcInv /\ CalmP!CalmInv

LEMMA RcSteps ==
  ASSUME [MCNext]_all_vars
  PROVE  /\ part' = part
         /\ part = "remote" => [RunP!Rc!Next]_(RunP!Rc!vars)
         /\ part = "remote_calm" => [CalmP!Rc!Next]_(CalmP!Rc!vars)
<1> USE DEF ProtMoves, RcMoves, CalmMoves, KeyboardMoves, RingMoves, WokenMoves, IrKeysMoves,
            IrCodeMoves, LearningMoves, LedMoves, MicMoves, AudioMoves, CodecMoves
<1>1. part' = part
  BY DEF MCNext, all_vars
<1>2. ASSUME part = "remote" PROVE [RunP!Rc!Next]_(RunP!Rc!vars)
  <2>1. RcMoves \/ UNCHANGED rc_vars
    BY <1>2 DEF MCNext, all_vars
  <2> QED
    BY <2>1, RcNext DEF rc_vars, RunP!Rc!vars, RunP!Rc!keyVars, RunP!Rc!linkVars, RunP!Rc!backVars
<1>3. ASSUME part = "remote_calm" PROVE [CalmP!Rc!Next]_(CalmP!Rc!vars)
  <2>1. CalmMoves \/ UNCHANGED rc_vars
    BY <1>3 DEF MCNext, all_vars
  <2> QED
    BY <2>1, CalmNext
       DEF rc_vars, CalmP!Rc!vars, CalmP!Rc!keyVars, CalmP!Rc!linkVars, CalmP!Rc!backVars
<1> QED
  BY <1>1, <1>2, <1>3

LEMMA RemoteInvInit == MCInit => RemoteInv
<1> SUFFICES ASSUME MCInit PROVE RemoteInv
  OBVIOUS
<1>1. RunP!RcInv /\ RunP!KeyInv /\ RunP!MicInv
  BY RcInit, RcConstants, RunP!RcInitInv, RunP!RcStart
<1>2. CalmP!RcInv /\ CalmP!CalmInv
  BY RcInit, RcConstants, CalmP!RcInitInv, CalmP!RcStart
<1> QED
  BY <1>1, <1>2 DEF RemoteInv

LEMMA RemoteInvStep == RemoteInv /\ [MCNext]_all_vars => RemoteInv'
<1> SUFFICES ASSUME RemoteInv, [MCNext]_all_vars PROVE RemoteInv'
  OBVIOUS
<1>1. CASE part = "remote"
  <2>1. RunP!RcInv /\ RunP!KeyInv /\ RunP!MicInv /\ [RunP!Rc!Next]_(RunP!Rc!vars)
    BY <1>1, RcSteps DEF RemoteInv
  <2>2. RunP!RcInv'
    BY <2>1, RcConstants, RunP!RcStep
  <2>3. RunP!KeyInv'
    BY <2>1, RcConstants, RunP!KeyStep
  <2>4. RunP!MicInv'
    BY <2>1, RcConstants, RunP!MicStep
  <2> QED
    BY <1>1, <2>2, <2>3, <2>4, RcSteps DEF RemoteInv
<1>2. CASE part = "remote_calm"
  <2>1. CalmP!RcInv /\ CalmP!CalmInv /\ [CalmP!Rc!Next]_(CalmP!Rc!vars)
    BY <1>2, RcSteps DEF RemoteInv
  <2>2. CalmP!RcInv'
    BY <2>1, RcConstants, CalmP!RcStep
  <2>3. CalmP!CalmInv'
    BY <2>1, RcConstants, CalmP!CalmStep
  <2> QED
    BY <1>2, <2>2, <2>3, RcSteps DEF RemoteInv
<1> QED
  BY <1>1, <1>2, RcSteps DEF RemoteInv

LEMMA RemoteInvRight == RemoteInv => RemoteRight
<1>1. ASSUME RunP!RcInv, RunP!KeyInv, RunP!MicInv
      PROVE  Rc!TypeOK /\ Rc!KeyStateRight /\ Rc!MicWhileHeld /\ Rc!NeverMute
  <2>1. RunP!Rc!TypeOK
    BY <1>1 DEF RunP!RcInv
  <2>2. Rc!TypeOK
    BY <2>1, RcCardinalityIs, RcKeysAre
       DEF Rc!TypeOK, RunP!Rc!TypeOK, Rc!Types, RunP!Rc!Types, Rc!Report, RunP!Rc!Report
  <2>3. RunP!Rc!NeverMute
    BY <1>1, RunP!RcInvNeverMute
  <2> QED
    BY <1>1, <2>2, <2>3
       DEF RunP!KeyInv, RunP!MicInv, Rc!KeyStateRight, RunP!Rc!KeyStateRight, Rc!MicWhileHeld,
           RunP!Rc!MicWhileHeld, Rc!NeverMute, RunP!Rc!NeverMute
<1>2. ASSUME CalmP!RcInv, CalmP!CalmInv PROVE Calm!TypeOK /\ Calm!NoStuckKey
  <2>1. CalmP!Rc!TypeOK
    BY <1>2 DEF CalmP!RcInv
  <2>2. Calm!TypeOK
    BY <2>1, CalmCardinalityIs, CalmKeysAre
       DEF Calm!TypeOK, CalmP!Rc!TypeOK, Calm!Types, CalmP!Rc!Types, Calm!Report, CalmP!Rc!Report
  <2>3. CalmP!Rc!NoStuckKey
    BY <1>2, CalmP!CalmInvNoStuckKey
  <2> QED
    BY <2>2, <2>3 DEF Calm!NoStuckKey, CalmP!Rc!NoStuckKey, Calm!NothingDown,
                      CalmP!Rc!NothingDown, Calm!Types, CalmP!Rc!Types
<1> QED
  BY <1>1, <1>2 DEF RemoteInv, RemoteRight

\* With the other parts around it, what keeps the remote awake follows the keys, the microphone is
\* on only over a link and with a key down, the remote can be reached, and with a user who lets each
\* key be reported none stays down at the host.
THEOREM RemoteKeysRight == MCSpec => []RemoteRight
BY RemoteInvInit, RemoteInvStep, RemoteInvRight, PTL DEF MCSpec

-----------------------------------------------------------------------------
(***************************************************************************)
(* The LED among the other parts.                                          *)
(***************************************************************************)
LEMMA LampConstants == RunP!Lamp!LedEventsAssumption /\ RunP!Lamp!TimesFit
BY DEF RunP!Lamp!LedEventsAssumption, RunP!Lamp!TimesFit, LedConfigs

\* RunP!Lamp and Led are one module with the same constants and variables.
LEMMA LampDefinitions ==
  /\ Led!busy <=> RunP!Lamp!busy
  /\ Led!PowerOn = RunP!Lamp!PowerOn
  /\ \A c : /\ Led!Length(c) = RunP!Lamp!Length(c) /\ Led!Flashes(c) = RunP!Lamp!Flashes(c)
            /\ Led!Pattern(c) = RunP!Lamp!Pattern(c) /\ (Led!Refused(c) <=> RunP!Lamp!Refused(c))
  /\ \A t : Led!After(t) = RunP!Lamp!After(t)
<1>1. Led!busy <=> RunP!Lamp!busy
  BY DEF Led!busy, RunP!Lamp!busy
<1>2. Led!PowerOn = RunP!Lamp!PowerOn
  BY DEF Led!PowerOn, RunP!Lamp!PowerOn
<1>3. ASSUME NEW c PROVE Led!Length(c) = RunP!Lamp!Length(c)
  BY DEF Led!Length, RunP!Lamp!Length
<1>4. ASSUME NEW c PROVE Led!Flashes(c) = RunP!Lamp!Flashes(c)
  BY DEF Led!Flashes, RunP!Lamp!Flashes
<1>5. ASSUME NEW c PROVE Led!Pattern(c) = RunP!Lamp!Pattern(c)
  BY DEF Led!Pattern, RunP!Lamp!Pattern
<1>6. ASSUME NEW c PROVE Led!Refused(c) <=> RunP!Lamp!Refused(c)
  BY <1>1 DEF Led!Refused, RunP!Lamp!Refused
<1>7. ASSUME NEW t PROVE Led!After(t) = RunP!Lamp!After(t)
  BY DEF Led!After, RunP!Lamp!After
<1> QED
  BY <1>1, <1>2, <1>3, <1>4, <1>5, <1>6, <1>7

LEMMA LampNext == Led!Next => RunP!Lamp!Next
<1>1. ASSUME NEW c, Led!device_led_setup(c) PROVE RunP!Lamp!device_led_setup(c)
  BY <1>1, LampDefinitions DEF Led!device_led_setup, RunP!Lamp!device_led_setup
<1>2. Led!led_proc => RunP!Lamp!led_proc
  BY LampDefinitions DEF Led!led_proc, RunP!Lamp!led_proc, Led!SwitchOn, RunP!Lamp!SwitchOn,
       Led!SwitchOff, RunP!Lamp!SwitchOff
<1>3. Led!Tick => RunP!Lamp!Tick
  BY LampDefinitions DEF Led!Tick, RunP!Lamp!Tick
<1> QED
  BY <1>1, <1>2, <1>3 DEF Led!Next, RunP!Lamp!Next

LEMMA LampInit == Led!Init => RunP!Lamp!Init
BY LampDefinitions DEF Led!Init, RunP!Lamp!Init

LEMMA LampSteps == ASSUME [MCNext]_all_vars PROVE [RunP!Lamp!Next]_(RunP!Lamp!vars)
<1>1. CASE LedMoves
  BY <1>1, LampNext DEF LedMoves
<1>2. CASE ~ LedMoves
  <2>1. UNCHANGED led_vars
    BY <1>2 DEF MCNext, all_vars, ProtMoves, RcMoves, CalmMoves, KeyboardMoves, RingMoves,
                WokenMoves, IrKeysMoves, IrCodeMoves, LearningMoves, MicMoves, AudioMoves, CodecMoves
  <2> QED
    BY <2>1 DEF led_vars, RunP!Lamp!vars
<1> QED
  BY <1>1, <1>2

LEMMA LampProperties ==
  RunP!Lamp!TypeOK /\ RunP!Lamp!ShoneAsAsked /\ RunP!Lamp!NoDrift
    => Led!TypeOK /\ Led!ShoneAsAsked /\ Led!NoDrift
BY LampDefinitions
   DEF Led!TypeOK, RunP!Lamp!TypeOK, Led!ShoneAsAsked, RunP!Lamp!ShoneAsAsked, Led!NoDrift,
       RunP!Lamp!NoDrift

\* With the other parts around it, an event of the LED shines as often and as long as it says, gives
\* way only to one of higher priority, and is not late by more than the main loop's last delay.
THEOREM LedEventsRight == MCSpec => LedRight
<1>1. MCInit => RunP!Lamp!Init
  BY LampInit DEF MCInit
<1>2. [MCNext]_all_vars => [RunP!Lamp!Next]_(RunP!Lamp!vars)
  BY LampSteps
<1>3. MCSpec => RunP!Lamp!Spec
  BY <1>1, <1>2, PTL DEF MCSpec, RunP!Lamp!Spec
<1>4. RunP!Lamp!Spec => []RunP!Lamp!TypeOK
  BY LampConstants, RunP!LedTypeCorrect
<1>5. RunP!Lamp!Spec => []RunP!Lamp!ShoneAsAsked
  BY LampConstants, RunP!LedShinesAsAsked
<1>6. RunP!Lamp!Spec => []RunP!Lamp!NoDrift
  BY LampConstants, RunP!LedDoesNotDrift
<1>7. RunP!Lamp!Spec => RunP!Lamp!Protected
  BY LampConstants, RunP!LedProtectsEvents
<1>8. [led_age' < led_age /\ led_age < RunP!Lamp!Length(led_event)
         => led_event'.priority > led_event.priority]_(RunP!Lamp!vars)
      => [led_age' < led_age /\ led_age < Led!Length(led_event)
         => led_event'.priority > led_event.priority]_(Led!vars)
  BY LampDefinitions DEF RunP!Lamp!vars, Led!vars
<1>9. RunP!Lamp!Protected => Led!Protected
  BY <1>8, PTL DEF RunP!Lamp!Protected, Led!Protected
<1> QED
  BY <1>3, <1>4, <1>5, <1>6, <1>7, <1>9, LampProperties, PTL DEF LedRight

-----------------------------------------------------------------------------
(***************************************************************************)
(* The key scan among the other parts: with repeats and ghost keys at the   *)
(* constants of RunP, as a ring read by any caller at those of CalmP, and   *)
(* after deep sleep at those of WokenP.                                    *)
(***************************************************************************)
WokenP == INSTANCE RemotePartProofs WITH
  F <- 3, W <- 8, RESET <- 1, Steady <- TRUE, mic_wptr <- audio_mic_wptr,
  dec_wptr <- audio_dec_wptr, dec_rptr <- audio_dec_rptr,
  abuf_mic <- audio_abuf_mic, abuf_dec <- audio_abuf_dec,
  abuf_reset <- audio_abuf_reset, start <- audio_start,
  buffer_empty <- audio_buffer_empty, n_usb_iso <- audio_n_usb_iso,
  pc <- audio_pc, played <- audio_played,
  KeyboardKeys <- {"k"}, ConsumerKeys <- {}, Voice <- "v", Mode <- "m",
  NoKey <- "none", MaxHeld <- 2, TxFifo <- 1, FastScan <- FALSE,
  Patient <- FALSE, MaxDrops <- 1, Configs <- LedConfigs, Forever <- 9, Width <- 4, MaxLate <- 5,
  Drive <- 3, Scan <- 2, Modifier <- {<<1, 0>>}, Repeatable <- {<<0, 0>>, <<0, 1>>}, Fn <- {},
  KB_RETURN_KEY_MAX <- 2, KB_RM_GHOST_KEY_EN <- TRUE, KB_REPEAT_KEY_ENABLE <- FALSE,
  Interval <- 2, Status <- ScanWoken,
  Codes <- {"n", "m"}, Switch <- "s", Power <- "p", NoCode <- "none", Learned <- FALSE,
  Rollover <- TRUE, Cycle <- 3, Gaps <- {8, 9}, Threshold <- 6, End <- 12, CHECK <- 2, MIN <- 2,
  MAX <- 6, MaxBurst <- 4, MaxStarts <- 2

LEMMA PadAssumptions ==
  RunP!Pad!KeyScanAssumption /\ CalmP!Pad!KeyScanAssumption /\ WokenP!Pad!KeyScanAssumption
<1>1. RunP!Pad!KeyScanAssumption
  BY DEF RunP!Pad!KeyScanAssumption, RunP!Pad!Key, RunP!Pad!Row, RunP!Pad!Col, ScanLoop
<1>2. CalmP!Pad!KeyScanAssumption
  <2>1. ScanAny \subseteq [poweron : BOOLEAN, invalid : BOOLEAN, read : BOOLEAN]
    BY Zenon DEF ScanAny
  <2> QED
    BY <2>1 DEF CalmP!Pad!KeyScanAssumption, CalmP!Pad!Key, CalmP!Pad!Row, CalmP!Pad!Col
<1>3. WokenP!Pad!KeyScanAssumption
  BY DEF WokenP!Pad!KeyScanAssumption, WokenP!Pad!Key, WokenP!Pad!Row, WokenP!Pad!Col, ScanWoken
<1> QED
  BY <1>1, <1>2, <1>3

LEMMA KeyboardNext == Keyboard!Next => RunP!Pad!Next
BY DEF Keyboard!Row, RunP!Pad!Row, Keyboard!Col, RunP!Pad!Col, Keyboard!Key, RunP!Pad!Key,
       Keyboard!Matrix, RunP!Pad!Matrix, Keyboard!Cols, RunP!Pad!Cols, Keyboard!Linked,
       RunP!Pad!Linked, Keyboard!Join, RunP!Pad!Join, Keyboard!PressOrRelease,
       RunP!Pad!PressOrRelease, Keyboard!Mix, RunP!Pad!Mix, Keyboard!MixFinal,
       RunP!Pad!MixFinal, Keyboard!kb_rmv_ghost_key, RunP!Pad!kb_rmv_ghost_key,
       Keyboard!Filter, RunP!Pad!Filter, Keyboard!Hold, RunP!Pad!Hold, Keyboard!Elapsed,
       RunP!Pad!Elapsed, Keyboard!RepeatTimer, RunP!Pad!RepeatTimer, Keyboard!Push,
       RunP!Pad!Push, Keyboard!Pop, RunP!Pad!Pop, Keyboard!Before, RunP!Pad!Before,
       Keyboard!Plain, RunP!Pad!Plain, Keyboard!Seen, RunP!Pad!Seen, Keyboard!Remapped,
       RunP!Pad!Remapped, Keyboard!FnSeen, RunP!Pad!FnSeen, Keyboard!RepeatKey,
       RunP!Pad!RepeatKey, Keyboard!NoEvent, RunP!Pad!NoEvent, Keyboard!kb_scan_idle,
       RunP!Pad!kb_scan_idle, Keyboard!Scanned, RunP!Pad!Scanned, Keyboard!kb_scan_key_value,
       RunP!Pad!kb_scan_key_value, Keyboard!kb_scan_key, RunP!Pad!kb_scan_key, Keyboard!Next,
       RunP!Pad!Next, Keyboard!Cardinality, RunP!Pad!Cardinality

LEMMA RingNext == Ring!Next => CalmP!Pad!Next
BY DEF Ring!Row, CalmP!Pad!Row, Ring!Col, CalmP!Pad!Col, Ring!Key, CalmP!Pad!Key, Ring!Matrix,
       CalmP!Pad!Matrix, Ring!Cols, CalmP!Pad!Cols, Ring!Linked, CalmP!Pad!Linked, Ring!Join,
       CalmP!Pad!Join, Ring!PressOrRelease, CalmP!Pad!PressOrRelease, Ring!Mix, CalmP!Pad!Mix,
       Ring!MixFinal, CalmP!Pad!MixFinal, Ring!kb_rmv_ghost_key, CalmP!Pad!kb_rmv_ghost_key,
       Ring!Filter, CalmP!Pad!Filter, Ring!Hold, CalmP!Pad!Hold, Ring!Elapsed,
       CalmP!Pad!Elapsed, Ring!RepeatTimer, CalmP!Pad!RepeatTimer, Ring!Push, CalmP!Pad!Push,
       Ring!Pop, CalmP!Pad!Pop, Ring!Before, CalmP!Pad!Before, Ring!Plain, CalmP!Pad!Plain,
       Ring!Seen, CalmP!Pad!Seen, Ring!Remapped, CalmP!Pad!Remapped, Ring!FnSeen,
       CalmP!Pad!FnSeen, Ring!RepeatKey, CalmP!Pad!RepeatKey, Ring!NoEvent, CalmP!Pad!NoEvent,
       Ring!kb_scan_idle, CalmP!Pad!kb_scan_idle, Ring!Scanned, CalmP!Pad!Scanned,
       Ring!kb_scan_key_value, CalmP!Pad!kb_scan_key_value, Ring!kb_scan_key,
       CalmP!Pad!kb_scan_key, Ring!Next, CalmP!Pad!Next, Ring!Cardinality, CalmP!Pad!Cardinality

LEMMA WokenNext == Woken!Next => WokenP!Pad!Next
BY DEF Woken!Row, WokenP!Pad!Row, Woken!Col, WokenP!Pad!Col, Woken!Key, WokenP!Pad!Key,
       Woken!Matrix, WokenP!Pad!Matrix, Woken!Cols, WokenP!Pad!Cols, Woken!Linked,
       WokenP!Pad!Linked, Woken!Join, WokenP!Pad!Join, Woken!PressOrRelease,
       WokenP!Pad!PressOrRelease, Woken!Mix, WokenP!Pad!Mix, Woken!MixFinal,
       WokenP!Pad!MixFinal, Woken!kb_rmv_ghost_key, WokenP!Pad!kb_rmv_ghost_key, Woken!Filter,
       WokenP!Pad!Filter, Woken!Hold, WokenP!Pad!Hold, Woken!Elapsed, WokenP!Pad!Elapsed,
       Woken!RepeatTimer, WokenP!Pad!RepeatTimer, Woken!Push, WokenP!Pad!Push, Woken!Pop,
       WokenP!Pad!Pop, Woken!Before, WokenP!Pad!Before, Woken!Plain, WokenP!Pad!Plain,
       Woken!Seen, WokenP!Pad!Seen, Woken!Remapped, WokenP!Pad!Remapped, Woken!FnSeen,
       WokenP!Pad!FnSeen, Woken!RepeatKey, WokenP!Pad!RepeatKey, Woken!NoEvent,
       WokenP!Pad!NoEvent, Woken!kb_scan_idle, WokenP!Pad!kb_scan_idle, Woken!Scanned,
       WokenP!Pad!Scanned, Woken!kb_scan_key_value, WokenP!Pad!kb_scan_key_value,
       Woken!kb_scan_key, WokenP!Pad!kb_scan_key, Woken!Next, WokenP!Pad!Next,
       Woken!Cardinality, WokenP!Pad!Cardinality

LEMMA PadInit == MCInit => RunP!Pad!Init /\ CalmP!Pad!Init /\ WokenP!Pad!Init
BY DEF MCInit, Keyboard!Init, RunP!Pad!Init, CalmP!Pad!Init, WokenP!Pad!Init

LEMMA KeyTypesAre ==
  /\ RunP!Pad!TypeOK => Keyboard!TypeOK
  /\ CalmP!Pad!TypeOK => Ring!TypeOK
<1>1. RunP!Pad!TypeOK => Keyboard!TypeOK
  BY DEF RunP!Pad!TypeOK, Keyboard!TypeOK, RunP!Pad!Matrix, Keyboard!Matrix, RunP!Pad!Key,
         Keyboard!Key, RunP!Pad!Row, Keyboard!Row, RunP!Pad!Col, Keyboard!Col
<1>2. CalmP!Pad!TypeOK => Ring!TypeOK
  BY DEF CalmP!Pad!TypeOK, Ring!TypeOK, CalmP!Pad!Matrix, Ring!Matrix, CalmP!Pad!Key, Ring!Key,
         CalmP!Pad!Row, Ring!Row, CalmP!Pad!Col, Ring!Col
<1> QED
  BY <1>1, <1>2

LEMMA KeySteps ==
  ASSUME [MCNext]_all_vars
  PROVE  /\ part' = part
         /\ part = "keys" => [RunP!Pad!Next]_(RunP!Pad!vars)
         /\ part = "keys_ring" => [CalmP!Pad!Next]_(CalmP!Pad!vars)
         /\ part = "keys_woken" => [WokenP!Pad!Next]_(WokenP!Pad!vars)
         /\ part \notin {"keys", "keys_ring", "keys_woken"} => UNCHANGED key_vars
<1> USE DEF ProtMoves, RcMoves, CalmMoves, KeyboardMoves, RingMoves, WokenMoves, IrKeysMoves,
            IrCodeMoves, LearningMoves, LedMoves, MicMoves, AudioMoves, CodecMoves
<1>1. part' = part
  BY DEF MCNext, all_vars
<1>2. ASSUME part = "keys" PROVE [RunP!Pad!Next]_(RunP!Pad!vars)
  <2>1. KeyboardMoves \/ UNCHANGED key_vars
    BY <1>2 DEF MCNext, all_vars
  <2> QED
    BY <2>1, KeyboardNext DEF key_vars, RunP!Pad!vars
<1>3. ASSUME part = "keys_ring" PROVE [CalmP!Pad!Next]_(CalmP!Pad!vars)
  <2>1. RingMoves \/ UNCHANGED key_vars
    BY <1>3 DEF MCNext, all_vars
  <2> QED
    BY <2>1, RingNext DEF key_vars, CalmP!Pad!vars
<1>4. ASSUME part = "keys_woken" PROVE [WokenP!Pad!Next]_(WokenP!Pad!vars)
  <2>1. WokenMoves \/ UNCHANGED key_vars
    BY <1>4 DEF MCNext, all_vars
  <2> QED
    BY <2>1, WokenNext DEF key_vars, WokenP!Pad!vars
<1>5. ASSUME part \notin {"keys", "keys_ring", "keys_woken"} PROVE UNCHANGED key_vars
  BY <1>5 DEF MCNext, all_vars
<1> QED
  BY <1>1, <1>2, <1>3, <1>4, <1>5

KeysInv ==
  /\ part = "keys" => RunP!PadInv /\ RunP!RestInv /\ RunP!RepeatInv
  /\ part = "keys_ring" => CalmP!PadInv
  /\ part = "keys_woken" => WokenP!PadInv

LEMMA KeyboardReads == RunP!Reads
BY DEF RunP!Reads, ScanLoop

LEMMA KeysInvInit == MCInit => KeysInv
<1> SUFFICES ASSUME MCInit PROVE KeysInv
  OBVIOUS
<1>1. RunP!PadInv /\ RunP!RestInv /\ RunP!RepeatInv
  BY PadInit, PadAssumptions, RunP!PadStart, RunP!RestStart
<1>2. CalmP!PadInv
  BY PadInit, PadAssumptions, CalmP!PadStart
<1>3. WokenP!PadInv
  BY PadInit, PadAssumptions, WokenP!PadStart
<1> QED
  BY <1>1, <1>2, <1>3 DEF KeysInv

LEMMA KeysInvStep == KeysInv /\ [MCNext]_all_vars => KeysInv'
<1> SUFFICES ASSUME KeysInv, [MCNext]_all_vars PROVE KeysInv'
  OBVIOUS
<1>1. CASE part = "keys"
  <2>1. RunP!PadInv /\ RunP!RestInv /\ RunP!RepeatInv /\ [RunP!Pad!Next]_(RunP!Pad!vars)
    BY <1>1, KeySteps DEF KeysInv
  <2>2. RunP!PadInv'
    BY <2>1, PadAssumptions, RunP!PadStep
  <2>3. RunP!RestInv'
    BY <2>1, PadAssumptions, KeyboardReads, RunP!RestStep
  <2>4. RunP!RepeatInv'
    BY <2>1, PadAssumptions, KeyboardReads, RunP!RepeatStep
  <2> QED
    BY <1>1, <2>2, <2>3, <2>4, KeySteps DEF KeysInv
<1>2. CASE part = "keys_ring"
  <2>1. CalmP!PadInv /\ [CalmP!Pad!Next]_(CalmP!Pad!vars)
    BY <1>2, KeySteps DEF KeysInv
  <2>2. CalmP!PadInv'
    BY <2>1, PadAssumptions, CalmP!PadStep
  <2> QED
    BY <1>2, <2>2, KeySteps DEF KeysInv
<1>3. CASE part = "keys_woken"
  <2>1. WokenP!PadInv /\ [WokenP!Pad!Next]_(WokenP!Pad!vars)
    BY <1>3, KeySteps DEF KeysInv
  <2>2. WokenP!PadInv'
    BY <2>1, PadAssumptions, WokenP!PadStep
  <2> QED
    BY <1>3, <2>2, KeySteps DEF KeysInv
<1> QED
  BY <1>1, <1>2, <1>3, KeySteps DEF KeysInv

LEMMA KeysInvStates ==
  KeysInv => /\ part = "keys" => Keyboard!TypeOK /\ Keyboard!Debounced /\ Keyboard!ReleasedWhenIdle
             /\ part \in {"keys", "keys_ring"} => Keyboard!NewestKept
             /\ part = "keys_ring" => Ring!TypeOK
<1> SUFFICES ASSUME KeysInv
             PROVE  /\ part = "keys" => Keyboard!TypeOK /\ Keyboard!Debounced /\ Keyboard!ReleasedWhenIdle
                    /\ part \in {"keys", "keys_ring"} => Keyboard!NewestKept
                    /\ part = "keys_ring" => Ring!TypeOK
  OBVIOUS
<1>1. ASSUME part = "keys"
      PROVE  Keyboard!TypeOK /\ Keyboard!Debounced /\ Keyboard!ReleasedWhenIdle /\ Keyboard!NewestKept
  <2>1. RunP!PadInv /\ RunP!RestInv
    BY <1>1 DEF KeysInv
  <2>2. RunP!Pad!ReleasedWhenIdle
    BY <2>1, RunP!RestShown
  <2>3. RunP!Pad!TypeOK /\ RunP!Pad!Debounced /\ RunP!Pad!NewestKept
    BY <2>1 DEF RunP!PadInv
  <2> QED
    BY <2>2, <2>3, KeyTypesAre
       DEF Keyboard!Debounced, RunP!Pad!Debounced, Keyboard!NewestKept, RunP!Pad!NewestKept,
           Keyboard!ReleasedWhenIdle, RunP!Pad!ReleasedWhenIdle
<1>2. ASSUME part = "keys_ring" PROVE Keyboard!NewestKept /\ Ring!TypeOK
  <2>1. CalmP!Pad!TypeOK /\ CalmP!Pad!NewestKept
    BY <1>2 DEF KeysInv, CalmP!PadInv
  <2> QED
    BY <2>1, KeyTypesAre DEF Keyboard!NewestKept, CalmP!Pad!NewestKept
<1> QED
  BY <1>1, <1>2

LEMMA KeysInvSteps ==
  ASSUME KeysInv, [MCNext]_all_vars
  PROVE  /\ key_scan'.last \ key_scan.last \subseteq key_pressed \/ UNCHANGED key_vars
         /\ key_rep'.age = 0 /\ key_rep.age # 0 /\ key_scan'.last = key_scan.last
              => \E k \in {<<0, 0>>, <<0, 1>>} : Keyboard!Plain(key_scan.last) = {k}
<1>1. CASE part = "keys"
  <2>1. RunP!PadInv /\ RunP!RestInv /\ RunP!RepeatInv /\ [RunP!Pad!Next]_(RunP!Pad!vars)
    BY <1>1, KeySteps DEF KeysInv
  <2>2. key_scan'.last \ key_scan.last \subseteq key_pressed
    BY <2>1, PadAssumptions, RunP!PadNoGhost
  <2>3. key_rep'.age = 0 /\ key_rep.age # 0 /\ key_scan'.last = key_scan.last
          => \E k \in {<<0, 0>>, <<0, 1>>} : RunP!Pad!Plain(key_scan.last) = {k}
    BY <2>1, PadAssumptions, KeyboardReads, RunP!RepeatStep
  <2>4. \A m : RunP!Pad!Plain(m) = Keyboard!Plain(m)
    BY DEF RunP!Pad!Plain, Keyboard!Plain
  <2> QED
    BY <2>2, <2>3, <2>4
<1>2. CASE part = "keys_ring"
  <2>1. CalmP!PadInv /\ [CalmP!Pad!Next]_(CalmP!Pad!vars)
    BY <1>2, KeySteps DEF KeysInv
  <2>2. key_scan'.last \ key_scan.last \subseteq key_pressed
    BY <2>1, PadAssumptions, CalmP!PadNoGhost
  <2>3. key_rep' = key_rep
    BY <2>1, PadAssumptions, CalmP!PadNeverRepeats
  <2> QED
    BY <2>2, <2>3
<1>3. CASE part = "keys_woken"
  <2>1. WokenP!PadInv /\ [WokenP!Pad!Next]_(WokenP!Pad!vars)
    BY <1>3, KeySteps DEF KeysInv
  <2>2. key_scan'.last \ key_scan.last \subseteq key_pressed
    BY <2>1, PadAssumptions, WokenP!PadNoGhost
  <2>3. key_rep' = key_rep
    BY <2>1, PadAssumptions, WokenP!PadNeverRepeats
  <2> QED
    BY <2>2, <2>3
<1>4. CASE part \notin {"keys", "keys_ring", "keys_woken"}
  BY <1>4, KeySteps DEF key_vars
<1> QED
  BY <1>1, <1>2, <1>3, <1>4

\* With the other parts around it, the key scan shows what two scans agreed on, loses no newest
\* matrix, reports a release before it stops, shows no ghost key, and repeats a single key only.
THEOREM KeyScanRight == MCSpec => KeysRight
<1>1. MCSpec => []KeysInv
  BY KeysInvInit, KeysInvStep, PTL DEF MCSpec
<1>2. KeysInv /\ [MCNext]_all_vars
        => [TRUE => key_scan'.last \ key_scan.last \subseteq key_pressed]_(Keyboard!vars)
  BY KeysInvSteps DEF key_vars, Keyboard!vars
<1>3. KeysInv /\ [MCNext]_all_vars
        => [key_rep'.age = 0 /\ key_rep.age # 0 /\ key_scan'.last = key_scan.last
              => \E k \in {<<0, 0>>, <<0, 1>>} : Keyboard!Plain(key_scan.last) = {k}]_(Keyboard!vars)
  BY KeysInvSteps
<1>4. MCSpec => Keyboard!NoGhostKey
  BY <1>1, <1>2, PTL DEF MCSpec, Keyboard!NoGhostKey
<1>5. MCSpec => Keyboard!RepeatsHeldKey
  BY <1>1, <1>3, PTL DEF MCSpec, Keyboard!RepeatsHeldKey
<1> QED
  BY <1>1, <1>4, <1>5, KeysInvStates, PTL DEF KeysRight

-----------------------------------------------------------------------------
(***************************************************************************)
(* Infrared among the other parts: keys pressed together without a learned  *)
(* code at the constants of RunP, one at a time with a code at those of    *)
(* CalmP, and the learning at those of RunP.                               *)
(***************************************************************************)
LEMMA InfraredAssumptions ==
  /\ RunP!Beam!IrSendAssumption /\ CalmP!Beam!IrSendAssumption /\ RunP!Ear!IrLearnAssumption
<1>1. RunP!Beam!IrSendAssumption
  BY DEF RunP!Beam!IrSendAssumption
<1>2. CalmP!Beam!IrSendAssumption
  BY DEF CalmP!Beam!IrSendAssumption
<1>3. RunP!Ear!IrLearnAssumption
  BY DEF RunP!Ear!IrLearnAssumption
<1> QED
  BY <1>1, <1>2, <1>3

LEMMA IrKeysNext == IrKeys!Next => RunP!Beam!Next
BY DEF IrKeys!Keys, RunP!Beam!Keys, IrKeys!Wave, RunP!Beam!Wave, IrKeys!Silence,
       RunP!Beam!Silence, IrKeys!OffAir, RunP!Beam!OffAir, IrKeys!Idle, RunP!Beam!Idle,
       IrKeys!Send, RunP!Beam!Send, IrKeys!AllSent, RunP!Beam!AllSent, IrKeys!Released,
       RunP!Beam!Released, IrKeys!ir_send_release, RunP!Beam!ir_send_release,
       IrKeys!rc_ir_irq_prc, RunP!Beam!rc_ir_irq_prc, IrKeys!Press, RunP!Beam!Press,
       IrKeys!LiftKey, RunP!Beam!LiftKey, IrKeys!Check, RunP!Beam!Check, IrKeys!rc_ir_init,
       RunP!Beam!rc_ir_init, IrKeys!StartNec, RunP!Beam!StartNec, IrKeys!ir_nec_send,
       RunP!Beam!ir_nec_send, IrKeys!SendLearned, RunP!Beam!SendLearned, IrKeys!OneKey,
       RunP!Beam!OneKey, IrKeys!NoKeyDown, RunP!Beam!NoKeyDown, IrKeys!key_change_proc,
       RunP!Beam!key_change_proc, IrKeys!Sleep, RunP!Beam!Sleep, IrKeys!Next, RunP!Beam!Next,
       IrKeys!keyVars, RunP!Beam!keyVars, IrKeys!pwmVars, RunP!Beam!pwmVars,
       IrKeys!Cardinality, RunP!Beam!Cardinality

LEMMA IrCodeNext == IrCode!Next => CalmP!Beam!Next
BY DEF IrCode!Keys, CalmP!Beam!Keys, IrCode!Wave, CalmP!Beam!Wave, IrCode!Silence,
       CalmP!Beam!Silence, IrCode!OffAir, CalmP!Beam!OffAir, IrCode!Idle, CalmP!Beam!Idle,
       IrCode!Send, CalmP!Beam!Send, IrCode!AllSent, CalmP!Beam!AllSent, IrCode!Released,
       CalmP!Beam!Released, IrCode!ir_send_release, CalmP!Beam!ir_send_release,
       IrCode!rc_ir_irq_prc, CalmP!Beam!rc_ir_irq_prc, IrCode!Press, CalmP!Beam!Press,
       IrCode!LiftKey, CalmP!Beam!LiftKey, IrCode!Check, CalmP!Beam!Check, IrCode!rc_ir_init,
       CalmP!Beam!rc_ir_init, IrCode!StartNec, CalmP!Beam!StartNec, IrCode!ir_nec_send,
       CalmP!Beam!ir_nec_send, IrCode!SendLearned, CalmP!Beam!SendLearned, IrCode!OneKey,
       CalmP!Beam!OneKey, IrCode!NoKeyDown, CalmP!Beam!NoKeyDown, IrCode!key_change_proc,
       CalmP!Beam!key_change_proc, IrCode!Sleep, CalmP!Beam!Sleep, IrCode!Next,
       CalmP!Beam!Next, IrCode!keyVars, CalmP!Beam!keyVars, IrCode!pwmVars,
       CalmP!Beam!pwmVars, IrCode!Cardinality, CalmP!Beam!Cardinality

LEMMA LearningNext == Learning!Next => RunP!Ear!Next
BY DEF Learning!Ended, RunP!Ear!Ended, Learning!Heard, RunP!Ear!Heard, Learning!Limit,
       RunP!Ear!Limit, Learning!Longer, RunP!Ear!Longer, Learning!FirstEdge,
       RunP!Ear!FirstEdge, Learning!SecondEdge, RunP!Ear!SecondEdge, Learning!Check,
       RunP!Ear!Check, Learning!Enter, RunP!Ear!Enter, Learning!StateAt, RunP!Ear!StateAt,
       Learning!CarrierEdge, RunP!Ear!CarrierEdge, Learning!BurstWhole, RunP!Ear!BurstWhole,
       Learning!GapEdge, RunP!Ear!GapEdge, Learning!LateEdge, RunP!Ear!LateEdge,
       Learning!ir_record, RunP!Ear!ir_record, Learning!GapMayCome, RunP!Ear!GapMayCome,
       Learning!Grown, RunP!Ear!Grown, Learning!Intervals, RunP!Ear!Intervals,
       Learning!SignalAfter, RunP!Ear!SignalAfter, Learning!Edge, RunP!Ear!Edge,
       Learning!Silence, RunP!Ear!Silence, Learning!StartClearing, RunP!Ear!StartClearing,
       Learning!StartCleared, RunP!Ear!StartCleared, Learning!StartWaiting,
       RunP!Ear!StartWaiting, Learning!DetectOverTime, RunP!Ear!DetectOverTime,
       Learning!DetectEnd, RunP!Ear!DetectEnd, Learning!StopOverTime, RunP!Ear!StopOverTime,
       Learning!StopEnd, RunP!Ear!StopEnd, Learning!StartEnds, RunP!Ear!StartEnds,
       Learning!ir_learn_start, RunP!Ear!ir_learn_start, Learning!ir_learn_detect,
       RunP!Ear!ir_learn_detect, Learning!Next, RunP!Ear!Next, Learning!recVars,
       RunP!Ear!recVars

LEMMA InfraredInit == MCInit => RunP!Beam!Init /\ CalmP!Beam!Init /\ RunP!Ear!Init
BY DEF MCInit, IrKeys!Init, RunP!Beam!Init, CalmP!Beam!Init, IrKeys!Idle, RunP!Beam!Idle,
       CalmP!Beam!Idle, IrKeys!Silence, RunP!Beam!Silence, CalmP!Beam!Silence, IrKeys!OffAir,
       RunP!Beam!OffAir, CalmP!Beam!OffAir, Learning!Init, RunP!Ear!Init

LEMMA InfraredSteps ==
  ASSUME [MCNext]_all_vars
  PROVE  /\ part' = part
         /\ part = "ir_keys" => [RunP!Beam!Next]_(RunP!Beam!vars)
         /\ part = "ir_code" => [CalmP!Beam!Next]_(CalmP!Beam!vars)
         /\ part \notin {"ir_keys", "ir_code"} => UNCHANGED irs_vars
         /\ [RunP!Ear!Next]_(RunP!Ear!vars)
<1> USE DEF ProtMoves, RcMoves, CalmMoves, KeyboardMoves, RingMoves, WokenMoves, IrKeysMoves,
            IrCodeMoves, LearningMoves, LedMoves, MicMoves, AudioMoves, CodecMoves
<1>1. part' = part
  BY DEF MCNext, all_vars
<1>2. ASSUME part = "ir_keys" PROVE [RunP!Beam!Next]_(RunP!Beam!vars)
  <2>1. IrKeysMoves \/ UNCHANGED irs_vars
    BY <1>2 DEF MCNext, all_vars
  <2> QED
    BY <2>1, IrKeysNext DEF irs_vars, RunP!Beam!vars, RunP!Beam!keyVars, RunP!Beam!pwmVars
<1>3. ASSUME part = "ir_code" PROVE [CalmP!Beam!Next]_(CalmP!Beam!vars)
  <2>1. IrCodeMoves \/ UNCHANGED irs_vars
    BY <1>3 DEF MCNext, all_vars
  <2> QED
    BY <2>1, IrCodeNext DEF irs_vars, CalmP!Beam!vars, CalmP!Beam!keyVars, CalmP!Beam!pwmVars
<1>4. ASSUME part \notin {"ir_keys", "ir_code"} PROVE UNCHANGED irs_vars
  BY <1>4 DEF MCNext, all_vars
<1>5. [RunP!Ear!Next]_(RunP!Ear!vars)
  <2>1. LearningMoves \/ UNCHANGED irl_vars
    BY DEF MCNext, all_vars
  <2> QED
    BY <2>1, LearningNext DEF irl_vars, RunP!Ear!vars, RunP!Ear!recVars
<1> QED
  BY <1>1, <1>2, <1>3, <1>4, <1>5

InfraredInv ==
  /\ part = "ir_keys" => RunP!BeamInv
  /\ part = "ir_code" => CalmP!BeamInv
  /\ part \notin {"ir_keys", "ir_code"} => IrKeys!NoSilentSending
  /\ RunP!EarInv

LEMMA InfraredInvInit == MCInit => InfraredInv
<1> SUFFICES ASSUME MCInit PROVE InfraredInv
  OBVIOUS
<1>1. RunP!BeamInv
  BY InfraredInit, InfraredAssumptions, RunP!BeamStart
<1>2. CalmP!BeamInv
  BY InfraredInit, InfraredAssumptions, CalmP!BeamStart
<1>3. RunP!EarInv
  BY InfraredInit, InfraredAssumptions, RunP!EarStart
<1>4. IrKeys!NoSilentSending
  BY DEF MCInit, IrKeys!Init, IrKeys!Idle, IrKeys!NoSilentSending
<1> QED
  BY <1>1, <1>2, <1>3, <1>4 DEF InfraredInv

LEMMA InfraredInvStep == InfraredInv /\ [MCNext]_all_vars => InfraredInv'
<1> SUFFICES ASSUME InfraredInv, [MCNext]_all_vars PROVE InfraredInv'
  OBVIOUS
<1>1. RunP!EarInv'
  BY InfraredSteps, InfraredAssumptions, RunP!EarStep DEF InfraredInv
<1>2. CASE part = "ir_keys"
  <2>1. RunP!BeamInv /\ [RunP!Beam!Next]_(RunP!Beam!vars)
    BY <1>2, InfraredSteps DEF InfraredInv
  <2>2. RunP!BeamInv'
    BY <2>1, InfraredAssumptions, RunP!BeamStep
  <2> QED
    BY <1>1, <1>2, <2>2, InfraredSteps DEF InfraredInv
<1>3. CASE part = "ir_code"
  <2>1. CalmP!BeamInv /\ [CalmP!Beam!Next]_(CalmP!Beam!vars)
    BY <1>3, InfraredSteps DEF InfraredInv
  <2>2. CalmP!BeamInv'
    BY <2>1, InfraredAssumptions, CalmP!BeamStep
  <2> QED
    BY <1>1, <1>3, <2>2, InfraredSteps DEF InfraredInv
<1>4. CASE part \notin {"ir_keys", "ir_code"}
  <2>1. IrKeys!NoSilentSending'
    BY <1>4, InfraredSteps DEF InfraredInv, irs_vars, IrKeys!NoSilentSending
  <2> QED
    BY <1>1, <1>4, <2>1, InfraredSteps DEF InfraredInv
<1> QED
  BY <1>2, <1>3, <1>4

\* RunP!Beam and IrKeys, CalmP!Beam and IrCode, RunP!Ear and Learning are one module each.
LEMMA InfraredPropertiesAre ==
  /\ RunP!Beam!TypeOK /\ RunP!Beam!NoSilentSending => IrKeys!TypeOK /\ IrKeys!NoSilentSending
  /\ CalmP!Beam!TypeOK /\ CalmP!Beam!SendsHeld /\ CalmP!Beam!StopsWithKeys /\ CalmP!Beam!NoSilentSending
       => IrCode!TypeOK /\ IrCode!SendsHeld /\ IrCode!StopsWithKeys /\ IrKeys!NoSilentSending
  /\ RunP!Ear!TypeOK /\ RunP!Ear!LearnedRight => Learning!TypeOK /\ Learning!LearnedRight
<1>1. /\ RunP!Beam!TypeOK => IrKeys!TypeOK
      /\ RunP!Beam!NoSilentSending => IrKeys!NoSilentSending
  BY DEF RunP!Beam!TypeOK, IrKeys!TypeOK, RunP!Beam!Keys, IrKeys!Keys, RunP!Beam!Wave,
       IrKeys!Wave, RunP!Beam!Silence, IrKeys!Silence, RunP!Beam!NoSilentSending, IrKeys!NoSilentSending,
       RunP!Beam!OffAir, IrKeys!OffAir
<1>2. /\ CalmP!Beam!TypeOK => IrCode!TypeOK
      /\ CalmP!Beam!SendsHeld => IrCode!SendsHeld
      /\ CalmP!Beam!StopsWithKeys => IrCode!StopsWithKeys
  BY DEF CalmP!Beam!SendsHeld, IrCode!SendsHeld, CalmP!Beam!TypeOK, IrCode!TypeOK, CalmP!Beam!Keys, IrCode!Keys, CalmP!Beam!Wave,
       IrCode!Wave, CalmP!Beam!Silence, IrCode!Silence, CalmP!Beam!StopsWithKeys,
       IrCode!StopsWithKeys
<1>3. CalmP!Beam!NoSilentSending => IrKeys!NoSilentSending
  BY DEF CalmP!Beam!NoSilentSending, IrKeys!NoSilentSending, CalmP!Beam!OffAir,
       IrKeys!OffAir, CalmP!Beam!Silence, IrKeys!Silence
<1>4. RunP!Ear!TypeOK => Learning!TypeOK
  BY DEF RunP!Ear!TypeOK, Learning!TypeOK, RunP!Ear!Ended, Learning!Ended, RunP!Ear!Heard,
       Learning!Heard
<1>5. RunP!Ear!LearnedRight => Learning!LearnedRight
  BY DEF RunP!Ear!LearnedRight, Learning!LearnedRight, RunP!Ear!Section, Learning!Section
<1> QED
  BY <1>1, <1>2, <1>3, <1>4, <1>5

LEMMA InfraredStates ==
  InfraredInv => /\ part = "ir_keys" => IrKeys!TypeOK
                 /\ part = "ir_code" => IrCode!TypeOK /\ IrCode!SendsHeld /\ IrCode!StopsWithKeys
                 /\ IrKeys!NoSilentSending
                 /\ Learning!TypeOK /\ Learning!LearnedRight
<1> SUFFICES ASSUME InfraredInv
             PROVE  /\ part = "ir_keys" => IrKeys!TypeOK
                    /\ part = "ir_code" => IrCode!TypeOK /\ IrCode!SendsHeld /\ IrCode!StopsWithKeys
                    /\ IrKeys!NoSilentSending
                    /\ Learning!TypeOK /\ Learning!LearnedRight
  OBVIOUS
<1>1. Learning!TypeOK /\ Learning!LearnedRight
  BY InfraredPropertiesAre DEF InfraredInv, RunP!EarInv, RunP!EarType
<1>2. part = "ir_keys" => IrKeys!TypeOK /\ IrKeys!NoSilentSending
  BY InfraredPropertiesAre, RunP!BeamShows DEF InfraredInv
<1>3. part = "ir_code" => IrCode!TypeOK /\ IrCode!SendsHeld /\ IrCode!StopsWithKeys /\ IrKeys!NoSilentSending
  BY InfraredPropertiesAre, CalmP!BeamShows DEF InfraredInv
<1> QED
  BY <1>1, <1>2, <1>3 DEF InfraredInv

LEMMA InfraredPress ==
  ASSUME InfraredInv, [MCNext]_all_vars, part = "ir_code"
  PROVE  IrCode!PressSends
<1>1. CalmP!BeamInv /\ [CalmP!Beam!Next]_(CalmP!Beam!vars)
  BY InfraredSteps DEF InfraredInv
<1>2. CalmP!Beam!PressSends
  BY <1>1, InfraredAssumptions, CalmP!BeamPress
<1> QED
  BY <1>2 DEF CalmP!Beam!PressSends, IrCode!PressSends

\* With the other parts around it, the infrared LED sends the code of a key only while that key is down
\* and repeats stop with it when keys go down one at a time, each press of a code key is sent, nothing is
\* sent in silence, and a code that was learned is the one that came in.
THEOREM InfraredIsRight == MCSpec => InfraredRight
<1>1. MCSpec => []InfraredInv
  BY InfraredInvInit, InfraredInvStep, PTL DEF MCSpec
<1>2. InfraredInv /\ [MCNext]_all_vars => [part = "ir_code" => IrCode!PressSends]_irs_vars
  BY InfraredPress
<1>3. MCSpec => [][part = "ir_code" => IrCode!PressSends]_irs_vars
  BY <1>1, <1>2, PTL DEF MCSpec
<1> QED
  BY <1>1, <1>3, InfraredStates, PTL DEF InfraredRight
=============================================================================
