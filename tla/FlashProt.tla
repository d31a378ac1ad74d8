------------------------------- MODULE FlashProt -------------------------------
(***************************************************************************)
(* Write protection of the internal flash (flash_prot.c, the chip drivers  *)
(* and app_flash_protection_operation, as the 2.4G OTA demo and the BLE     *)
(* samples use them).  The status register outlives a power loss; a write  *)
(* of it may fail, and one that is cut off leaves any mix of old and new.  *)
(***************************************************************************)
EXTENDS FlashChips

CONSTANTS
  Chip,      \* the chips a board may carry, of FlashChips
  Boot,      \* addresses of the second firmware slot, KB (multiBootAddress)
  Other      \* status bits beside the protection bits that may be 1 (QE, OTP, SRP)

ASSUME ChipAssumption ==
  \A c \in Chip :
    /\ c.bp \in {BpWide, BpNarrow} /\ c.bp \cap Other = {}
    /\ \A k \in DOMAIN c.low :
         c.low[k] \subseteq c.bp /\ Locked(c, c.low[k]) = <<0, k>>

VARIABLES
  chip, boot,  \* the device: its chip and the second slot of its firmware
  sr,          \* status register
  prot,        \* RAM: [init_err, cmd] of blc_flashProt and flash_lockBlock_cmd
  op,          \* the call in progress: off, idle, unlock, or flash_lock's two loops
  tries,       \* i of the loop
  session,     \* between a BEGIN event and its END
  gaveUp       \* the last unlock or lock loop ended by its count

vars == <<chip, boot, sr, prot, op, tries, session, gaveUp>>
NoLock == [init_err |-> FALSE, cmd |-> {}]
Code(c, k) == c.low[k]

TypeOK ==
  /\ chip \in Chip /\ boot \in Boot
  /\ sr \in SUBSET (chip.bp \cup Other)
  /\ prot \in [init_err : BOOLEAN, cmd : SUBSET chip.bp]
  /\ op \in {"off", "idle", "unlock", "relock", "lock"}
  /\ tries \in 0..2 /\ session \in BOOLEAN /\ gaveUp \in BOOLEAN

\* A chip left by an earlier firmware, which may have locked another size.
Init ==
  /\ chip \in Chip /\ boot \in Boot
  /\ \E low \in {{}} \cup {Code(chip, k) : k \in DOMAIN chip.low}, o \in SUBSET Other :
       sr = low \cup o
  /\ prot = NoLock /\ op = "off" /\ tries = 0
  /\ session = FALSE /\ gaveUp = FALSE

-----------------------------------------------------------------------------
(* What to lock.                                                           *)

\* flash_protection_init has no case for the other mids.
Handled == {"13325e", "0113325e", "14325e", "0114325e", "136085",
            "1360c8", "146085", "1460c8", "1471cd", "156085"}

NoSize == 0

\* The size app_flash_protection_operation asks for: both firmware slots.
\* A second slot at 512K is for 827x only, with 1M or more.
app_lockBlock(c, b) ==
  CASE b = 128                   -> 256
    [] b = 256                   -> 512
    [] b = 512 /\ c.size >= 1024 -> 1024
    [] OTHER                     -> NoSize

\* flash_change_app_lock_block_to_flash_lock_block: the size locked for it.
\* A 1M chip with three protection bits has no code for less than 768K.
FlashLockSize(c, ask) ==
  CASE ask = NoSize                                     -> NoSize
    [] c.size = 512 /\ ask = 256                        -> 256
    [] c.size = 512 /\ ask = 512                        -> 448
    [] c.size = 1024 /\ ask = 1024                      -> 960
    [] c.size = 1024 /\ c.bp = BpNarrow /\ ask < 1024   -> 768
    [] c.size = 1024 /\ c.bp = BpWide /\ ask < 1024     -> ask
    [] c.size = 2048                                    -> ask
    [] OTHER                                            -> NoSize

\* The header of every handled chip has the codes that flash_prot.c asks for.
ASSUME LayoutAssumption ==
  /\ Boot \subseteq {128, 256, 512}
  /\ \A c \in Chip : c.mid \in Handled =>
       /\ c.size \in {512, 1024, 2048}
       /\ \A b \in Boot :
            FlashLockSize(c, app_lockBlock(c, b)) \in DOMAIN c.low \cup {NoSize}

flash_protection_init(c, b) ==
  LET size == IF c.mid \in Handled THEN FlashLockSize(c, app_lockBlock(c, b)) ELSE NoSize
  IN [init_err |-> size = NoSize, cmd |-> IF size = NoSize THEN {} ELSE Code(c, size)]

-----------------------------------------------------------------------------
(* The chip drivers.                                                       *)

flash_get_lock_block == sr \cap chip.bp

\* What flash_write_status_mid writes: only the bits of the mask change.
Written(data, mask) == data \cup (sr \ mask)

\* Refused for bits beyond the mask; the register is left alone when it agrees.
flash_write_status_mid(data, mask) ==
  IF ~ (data \subseteq mask) \/ data = sr \cap mask
    THEN UNCHANGED sr
    ELSE sr' \in {sr, Written(data, mask)}   \* it may fail

flash_lock_mid(data) == flash_write_status_mid(data, chip.bp)
flash_unlock_mid     == flash_write_status_mid({}, chip.bp)

-----------------------------------------------------------------------------
(* flash_lock and flash_unlock.                                            *)

\* A mistake: any lock is taken for the one wanted.
LockFromAny(cmd) == IF flash_get_lock_block = {} THEN "lock" ELSE "idle"

\* Where flash_lock starts: nothing to do, in its unlock loop, or in its lock loop.
LockFrom(cmd) ==
  CASE flash_get_lock_block = cmd -> "idle"
    [] flash_get_lock_block = {}  -> "lock"
    [] OTHER                      -> "relock"

StartLock(p) ==
  /\ op' = IF p.init_err THEN "idle" ELSE LockFrom(p.cmd)
  /\ tries' = 0 /\ gaveUp' = FALSE

\* A mistake: unlocks only what this firmware locked.
StartUnlockOwn ==
  /\ op' = IF prot.init_err \/ flash_get_lock_block # prot.cmd THEN "idle" ELSE "unlock"
  /\ tries' = 0 /\ gaveUp' = FALSE

StartUnlock ==
  /\ op' = IF prot.init_err \/ flash_get_lock_block = {} THEN "idle" ELSE "unlock"
  /\ tries' = 0 /\ gaveUp' = FALSE

\* One turn of a loop that wants the register to read "want", and goes on to
\* "after" when it does or when the three turns are over.
Turn(want, after) ==
  LET ok == sr' \cap chip.bp = want
      over == tries = 2
  IN /\ op' = IF ok \/ over THEN after ELSE op
     /\ tries' = IF ok \/ over THEN 0 ELSE tries + 1
     /\ gaveUp' = (over /\ ~ ok)

UnlockTurn ==
  /\ op \in {"unlock", "relock"}
  /\ flash_unlock_mid
  /\ Turn({}, IF op = "unlock" THEN "idle" ELSE "lock")
  /\ UNCHANGED <<chip, boot, prot, session>>

LockTurn ==
  /\ op = "lock"
  /\ flash_lock_mid(prot.cmd)
  /\ Turn(prot.cmd, "idle")
  /\ UNCHANGED <<chip, boot, prot, session>>

-----------------------------------------------------------------------------
(* The events of app_flash_protection_operation, and power.                *)

PowerOn ==
  /\ op = "off"
  /\ prot' = flash_protection_init(chip, boot)
  /\ StartLock(prot')
  /\ UNCHANGED <<chip, boot, sr, session>>

\* CLEAR_OLD_FW_BEGIN or WRITE_NEW_FW_BEGIN.
Begin ==
  /\ op = "idle" /\ ~ session
  /\ session' = TRUE
  /\ StartUnlock
  /\ UNCHANGED <<chip, boot, sr, prot>>

\* CLEAR_OLD_FW_END or WRITE_NEW_FW_END.
End ==
  /\ op = "idle" /\ session
  /\ session' = FALSE
  /\ StartLock(prot)
  /\ UNCHANGED <<chip, boot, sr, prot>>

Off ==
  /\ op' = "off" /\ prot' = NoLock /\ tries' = 0
  /\ session' = FALSE /\ gaveUp' = FALSE
  /\ UNCHANGED <<chip, boot>>

PowerLoss == op # "off" /\ Off /\ UNCHANGED sr

\* Power fails while the register is written.
TornWrite ==
  /\ op \in {"unlock", "relock", "lock"}
  /\ LET new == Written(IF op = "lock" THEN prot.cmd ELSE {}, chip.bp)
     IN \E done \in SUBSET ((sr \cup new) \ (sr \cap new)) :
          sr' = (sr \ done) \cup (new \cap done)
  /\ Off

Next == UnlockTurn \/ LockTurn \/ PowerOn \/ Begin \/ End \/ PowerLoss \/ TornWrite
Spec == Init /\ [][Next]_vars

\* A loop keeps turning while there is power.
FairSpec == Spec /\ WF_vars(UnlockTurn) /\ WF_vars(LockTurn)

-----------------------------------------------------------------------------
Area == Locked(chip, sr)
Settled == op = "idle" /\ ~ prot.init_err /\ ~ gaveUp

\* Unless three writes in a row failed, no byte of the two firmware slots is
\* left writable outside an update, save the top 64K that holds system data
\* ("protect all flash area for old firmware and OTA new firmware", app.c:820).
FirmwareGuarded ==
  Settled /\ ~ session => Covers(Area, 0, AtMost(2 * boot, chip.size - 64))

\* "can not lock stack SMP data storage area" (flash_prot.c:207): whatever an
\* earlier firmware or a torn write left locked, once a call is over the top
\* 64K takes pairing data, calibration and MAC address.
SystemDataWritable ==
  Settled => ~ Touches(Area, chip.size - 64, chip.size)

\* An update finds its slots unlocked: neither its erase nor its writes are
\* silently ignored by the chip (flash_prot.c:499-517).
UpdateLands == Settled /\ session => Area = Nothing

\* Locking and unlocking never disturb the other bits of the register: the OTP
\* locks, which cannot be undone, quad enable and the register's own protection.
OtherBitsKept == [][sr' \ chip.bp = sr \ chip.bp]_vars

\* However often the chip refuses a write, no call hangs the device: the loops
\* give up after three turns.
CallsEnd == op \in {"unlock", "relock", "lock"} ~> op \in {"idle", "off"}
=============================================================================
