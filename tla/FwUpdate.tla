------------------------------- MODULE FwUpdate -------------------------------
(***************************************************************************)
(* A firmware update over UART (vendor/2p4g_feature/uart_fw_update): the   *)
(* master and the slave of fw_update.c, each a main loop that pops one      *)
(* message a turn and then runs its software timers, with interrupts that  *)
(* fill receive buffers and push messages.  Sending waits for the transmit *)
(* interrupt (fw_update_phy.c:101), so a frame reaches the other side, or  *)
(* is lost, before the sender's turn ends.                                 *)
(***************************************************************************)
EXTENDS Integers, Sequences, SequencesExt, FiniteSets

CONSTANTS
  NumBlocks,   \* blocks of an image
  Retries,     \* FW_UPDATE_RETRY_MAX
  MaxFaults,   \* frames lost or damaged, to bound the runs
  Starts,      \* how often the slave may be started
  Slots,       \* entries of timer_list
  Prompt,      \* answers come within the response time once the slave has erased
  Locked       \* no interrupt comes while the main loop is in the queue

FwUpdateAssumption ==
  /\ NumBlocks \in Nat \ {0} /\ Retries \in Nat /\ MaxFaults \in Nat
  /\ Starts \in Nat /\ Slots \in Nat \ {0}
  /\ Prompt \in BOOLEAN /\ Locked \in BOOLEAN

Node == {"master", "slave"}
Peer(n) == IF n = "master" THEN "slave" ELSE "master"
Buffers == 0..2                    \* PHY_RX_BUF_NUM
QueueLen == 4                      \* MSG_QUEUE_LEN
None == [cmd |-> "NONE", num |-> 0]
Frame(cmd, num) == [cmd |-> cmd, num |-> num]
TimedOut == [type |-> "TIMEOUT", buf |-> 0, sent |-> None]
Damaged  == [type |-> "INVALID_DATA", buf |-> 0, sent |-> None]

VARIABLES
  m, s,      \* MasterCtrl, SlaveCtrl with the last frame sent (TxFrame)
  q,         \* MsgQueue of each node; "sent" is the frame as it was received
  buf, rp,   \* PHY_RxBuf and PHY_RxPtr
  timer,     \* timer_list: the valid slots, and FW_UPDATE_rspWaitTimer
  flash,     \* the slave's two banks
  budget     \* faults and starts used

vars == <<m, s, q, buf, rp, timer, flash, budget>>

Image == {"old", "new"}
NoImage == "none"
Bank == {0, 1}
Whole(img) == [i \in 1..NumBlocks |-> <<img, i>>]
NoSlot == 0
IdleTimer == [valid |-> {}, ptr |-> NoSlot]
MasterOff == [State |-> "OFF", BlockNum |-> 0, RetryTimes |-> 0, tx |-> None]
SlaveOff  == [State |-> "OFF", BlockNum |-> 0, RetryTimes |-> 0, tx |-> None, bank |-> 0]

Init ==
  /\ m = MasterOff /\ s = SlaveOff
  /\ q = [n \in Node |-> <<>>]
  /\ buf = [n \in Node |-> [b \in Buffers |-> None]] /\ rp = [n \in Node |-> 0]
  /\ timer = [n \in Node |-> IdleTimer]
  /\ \E first \in Bank :
       flash = [b \in Bank |-> IF b = first THEN [boot |-> TRUE, data |-> Whole("old")]
                               ELSE [boot |-> FALSE, data |-> <<>>]]
  /\ budget = [faults |-> 0, starts |-> 0]

-----------------------------------------------------------------------------
(* Queue, receive interrupt and timers.                                    *)

Push(queue, msg) == IF Len(queue) < QueueLen THEN Append(queue, msg) ELSE queue

\* What the slot of an earlier message may still hold; a slot not used yet is INVALID_DATA.
Leftover ==
  {TimedOut, Damaged} \cup {[type |-> "DATA", buf |-> b, sent |-> None] : b \in Buffers}

\* Nothing keeps the interrupt out while a message is popped or the timeout pushed
\* (Locked FALSE).  The main loop then stores the Cnt it read before the interrupt
\* and the message is lost; or it has moved ReadPtr and not yet read Cnt, and the
\* message lies one slot behind the one that is counted.
PushedByIrq(queue, msg) ==
  {Push(queue, msg)} \cup
  IF Locked \/ queue = <<>> THEN {} ELSE {queue} \cup {Push(queue, old) : old \in Leftover}

\* The timeout takes the slot of the frame that came in between, or is lost to it.
PushedByTimer(queue) ==
  {Push(queue, TimedOut)} \cup
  IF Locked \/ queue = <<>> THEN {} ELSE {queue, Append(Front(queue), TimedOut)}

\* A mistake: one buffer for every frame.
NextBufferSame(i) == i

NextBuffer(i) == (i + 1) % Cardinality(Buffers)

Listening(n) == IF n = "master" THEN m.State \notin {"OFF", "END", "ERROR"} ELSE s.State # "OFF"

\* FW_UPDATE_PHY_RxIrqHandler and FW_UPDATE_RxIrq for a frame to n: the next
\* buffer is armed, and a damaged frame becomes INVALID_DATA.
RxIrq(queues, n, f, ok) ==
  /\ buf' = [buf EXCEPT ![n][rp[n]] = f]
  /\ rp' = [rp EXCEPT ![n] = NextBuffer(@)]
  /\ \E queue \in PushedByIrq(queues[n], IF ok THEN [type |-> "DATA", buf |-> rp[n], sent |-> f]
                                        ELSE Damaged) :
       q' = [queues EXCEPT ![n] = queue]

Fault == budget.faults < MaxFaults /\ budget' = [budget EXCEPT !.faults = @ + 1]

\* FW_UPDATE_PHY_SendData by n, which has popped its message from "queues".
PHY_SendData(queues, n, f) ==
  \/ f # None /\ Listening(Peer(n)) /\ RxIrq(queues, Peer(n), f, TRUE) /\ UNCHANGED budget
  \/ f # None /\ Listening(Peer(n)) /\ RxIrq(queues, Peer(n), f, FALSE) /\ Fault
  \/ f # None /\ Listening(Peer(n)) /\ q' = queues /\ UNCHANGED <<buf, rp>> /\ Fault
  \/ (f = None \/ ~ Listening(Peer(n))) /\ q' = queues /\ UNCHANGED <<buf, rp, budget>>

\* ev_unon_timer on what FW_UPDATE_rspWaitTimer points to, fired or not.
Cancelled(t) == [valid |-> t.valid \ {t.ptr}, ptr |-> NoSlot]

\* ev_on_timer takes the first free slot; without one the device stops for good.
FreeSlots(t) == (1..Slots) \ t.valid
Started(t) ==
  IF FreeSlots(t) = {} THEN t
  ELSE LET i == CHOOSE x \in FreeSlots(t) : \A y \in FreeSlots(t) : x <= y
       IN [valid |-> t.valid \cup {i}, ptr |-> i]

SetTimer(n, what) ==
  timer' = [timer EXCEPT ![n] =
    CASE what = "restart" -> Started(Cancelled(@))
      [] what = "cancel"  -> Cancelled(@)
      [] what = "keep"    -> @]

\* An answer may be late while the slave erases, or is not coming.
Overdue ==
  \/ ~ Prompt
  \/ s.State \in {"OFF", "ERASE"}
  \/ \A n \in Node : q[n] = <<>>

\* ev_process_timer: FW_UPDATE_rspWaitTimerCb pushes the timeout and returns -1,
\* which frees the slot; FW_UPDATE_rspWaitTimer still points to it.
RspTimeout(n) ==
  /\ Overdue
  /\ \E i \in timer[n].valid :
       /\ timer' = [timer EXCEPT ![n].valid = @ \ {i}]
       /\ \E queue \in PushedByTimer(q[n]) : q' = [q EXCEPT ![n] = queue]
  /\ UNCHANGED <<m, s, buf, rp, flash, budget>>

\* The frame a message leads to: what its buffer holds when it is popped.
Received(n) == IF Head(q[n]).type = "DATA" THEN buf[n][Head(q[n]).buf] ELSE None
Popped(n) == [q EXCEPT ![n] = IF @ = <<>> THEN @ ELSE Tail(@)]

-----------------------------------------------------------------------------
(* The master: FW_UPDATE_MasterStart.                                      *)

\* What a state waits for, and what it sends when that comes.
Answer(c) ==
  CASE c.State = "FW_VER_WAIT"    -> "VERSION_RSP"
    [] c.State = "START_RSP_WAIT" -> "START_RSP"
    [] c.State = "DATA_ACK_WAIT"  -> "ACK"
    [] c.State = "END_RSP_WAIT"   -> "END_RSP"

Matches(c, f) == f.cmd = Answer(c) /\ (f.cmd = "ACK" => f.num = c.BlockNum)
NextBlock(c) ==
  [c EXCEPT !.State = "DATA_ACK_WAIT", !.BlockNum = @ + 1, !.tx = Frame("DATA", c.BlockNum + 1)]

\* The master holds "new"; the slave that reports it already is refused.
Advanced(c, f) ==
  CASE c.State = "FW_VER_WAIT" /\ f.num = 0 ->
         [c EXCEPT !.State = "START_RSP_WAIT", !.tx = Frame("START_REQ", NumBlocks)]
    [] c.State = "FW_VER_WAIT" /\ f.num = 1 -> [c EXCEPT !.State = "ERROR", !.tx = None]
    [] c.State = "START_RSP_WAIT" -> NextBlock(c)
    [] c.State = "DATA_ACK_WAIT" /\ c.BlockNum < NumBlocks -> NextBlock(c)
    [] c.State = "DATA_ACK_WAIT" /\ c.BlockNum = NumBlocks ->
         [c EXCEPT !.State = "END_RSP_WAIT", !.tx = Frame("END_REQ", NumBlocks)]
    [] c.State = "END_RSP_WAIT" -> [c EXCEPT !.State = "END", !.tx = None]

Accepted(c, f) == [Advanced(c, f) EXCEPT !.RetryTimes = 0]

Retry(c) ==
  IF c.RetryTimes = Retries THEN [c EXCEPT !.State = "ERROR", !.tx = None]
  ELSE [c EXCEPT !.RetryTimes = @ + 1]

MasterWaits == {"FW_VER_WAIT", "START_RSP_WAIT", "DATA_ACK_WAIT", "END_RSP_WAIT"}

MasterIdle ==
  /\ m.State = "IDLE"
  /\ m' = [m EXCEPT !.State = "FW_VER_WAIT", !.tx = Frame("VERSION_REQ", 0)]
  /\ PHY_SendData(Popped("master"), "master", m'.tx)
  /\ SetTimer("master", "restart")
  /\ UNCHANGED <<s, flash>>

\* Anything but the answer awaited, a timeout or a damaged frame too, is a retry.
MasterMsg ==
  /\ m.State \in MasterWaits /\ q["master"] # <<>>
  /\ LET f == Received("master")
     IN m' = IF Matches(m, f) THEN Accepted(m, f) ELSE Retry(m)
  /\ PHY_SendData(Popped("master"), "master", m'.tx)
  /\ SetTimer("master", IF m'.tx # None THEN "restart"
                        ELSE IF m'.RetryTimes = 0 THEN "cancel" ELSE "keep")
  /\ UNCHANGED <<s, flash>>

\* FW_UPDATE_DURATION is over in this state.
MasterDeadline ==
  /\ m.State \in MasterWaits /\ ~ Prompt
  /\ m' = [m EXCEPT !.State = "ERROR", !.tx = None]
  /\ q' = Popped("master")
  /\ UNCHANGED <<s, buf, rp, timer, flash, budget>>

\* The trigger: PHY_Init, MasterInit.
MasterInit ==
  /\ m.State = "OFF"
  /\ m' = [MasterOff EXCEPT !.State = "IDLE"]
  /\ UNCHANGED <<s, q, buf, rp, timer, flash, budget>>

-----------------------------------------------------------------------------
(* The slave: FW_UPDATE_SlaveStart.                                        *)

Bootable == {b \in Bank : flash[b].boot}
BootBank == IF 0 \in Bootable THEN 0 ELSE 1

OtherBank == IF flash[0].boot THEN 1 ELSE 0

\* The trigger: PHY_Init switches the receiver on, SlaveInit then erases the
\* bank that does not run; frames queue up meanwhile.
SlaveStart ==
  /\ s.State = "OFF" /\ budget.starts < Starts
  /\ s' = [SlaveOff EXCEPT !.State = "ERASE", !.bank = OtherBank]
  /\ budget' = [budget EXCEPT !.starts = @ + 1]
  /\ UNCHANGED <<m, q, buf, rp, timer, flash>>

\* FW_UPDATE_FlashErase: 15 sectors, more than the 5 s of a transfer can fill.
Erased == [boot |-> FALSE, data |-> <<>>]

SlaveInit ==
  /\ s.State = "ERASE"
  /\ s' = [s EXCEPT !.State = "IDLE"]
  /\ flash' = [flash EXCEPT ![s.bank] = Erased]
  /\ UNCHANGED <<m, q, buf, rp, timer, budget>>

\* The IDLE turn pops a message and ignores it.
SlaveIdle ==
  /\ s.State = "IDLE"
  /\ s' = [s EXCEPT !.State = "FW_VERSION_READY"]
  /\ q' = Popped("slave")
  /\ SetTimer("slave", "restart")
  /\ UNCHANGED <<m, buf, rp, flash, budget>>

Runs(img) == flash[BootBank].data = Whole(img)
\* "old" reports 0, "new" 1.
FwVersion == IF Runs("old") THEN 0 ELSE 1

Reply(c, state, f) == [c EXCEPT !.State = state, !.RetryTimes = 0, !.tx = f]

\* The frames each state answers: a request again, with the same frame, or the
\* next step.
Repeats(c, f) ==
  \/ c.State = "START_READY" /\ f.cmd = "VERSION_REQ"
  \/ c.State = "DATA_READY" /\ f.cmd = "START_REQ"
  \/ c.State \in {"DATA_READY", "END_READY"} /\ f.cmd = "DATA" /\ f.num = c.BlockNum

NextData(c, f) == c.State = "DATA_READY" /\ f.cmd = "DATA" /\ f.num = c.BlockNum + 1

Steps(c, f) ==
  \/ c.State = "FW_VERSION_READY" /\ f.cmd = "VERSION_REQ"
  \/ c.State = "START_READY" /\ f.cmd = "START_REQ"
  \/ NextData(c, f)
  \/ c.State = "END_READY" /\ f.cmd = "END_REQ"

Stepped(c, f) ==
  CASE f.cmd = "VERSION_REQ" -> Reply(c, "START_READY", Frame("VERSION_RSP", FwVersion))
    [] f.cmd = "START_REQ"   -> Reply(c, "DATA_READY", Frame("START_RSP", 0))
    [] f.cmd = "DATA"        -> [Reply(c, IF f.num = NumBlocks THEN "END_READY" ELSE "DATA_READY",
                                          Frame("ACK", f.num)) EXCEPT !.BlockNum = f.num]
    [] f.cmd = "END_REQ"     -> IF Len(flash[c.bank].data) = f.num
                                  THEN Reply(c, "END", Frame("END_RSP", 0))
                                  ELSE Reply(c, "ERROR", c.tx)

SlaveListens == {"FW_VERSION_READY", "START_READY", "DATA_READY", "END_READY"}

\* A frame it answers.
SlaveAnswer ==
  /\ s.State \in SlaveListens /\ q["slave"] # <<>>
  /\ LET f == Received("slave")
     IN /\ Repeats(s, f) \/ Steps(s, f)
        /\ s' = IF Repeats(s, f) THEN [s EXCEPT !.RetryTimes = 0] ELSE Stepped(s, f)
        /\ flash' = IF ~ Repeats(s, f) /\ NextData(s, f)
                      THEN [flash EXCEPT ![s.bank].data = Append(@, <<"new", f.num>>)]
                      ELSE flash
  /\ PHY_SendData(Popped("slave"), "slave", IF s'.State = "ERROR" THEN None ELSE s'.tx)
  /\ SetTimer("slave", IF s'.State \in {"END", "ERROR"} THEN "cancel" ELSE "restart")
  /\ UNCHANGED m

\* Anything else: listen again, without sending, until the retries are over.
SlaveIgnore ==
  /\ s.State \in SlaveListens /\ q["slave"] # <<>>
  /\ LET f == Received("slave") IN ~ (Repeats(s, f) \/ Steps(s, f))
  /\ s' = [Retry(s) EXCEPT !.tx = s.tx]
  /\ q' = Popped("slave")
  /\ SetTimer("slave", IF s'.State = "ERROR" THEN "keep" ELSE "restart")
  /\ UNCHANGED <<m, buf, rp, flash, budget>>

SlaveDeadline ==
  /\ s.State \in SlaveListens /\ ~ Prompt
  /\ s' = [s EXCEPT !.State = "ERROR"]
  /\ q' = Popped("slave")
  /\ UNCHANGED <<m, buf, rp, timer, flash, budget>>

\* The END state, split at its flash writes: the CRC of the bank against the one
\* the image ends with, the new boot flag, the old one cleared.
CrcRight == flash[s.bank].data = Whole("new")
SlaveCheck ==
  /\ s.State = "END"
  /\ s' = [s EXCEPT !.State = IF CrcRight THEN "SET_FLAG" ELSE "ERROR"]
  /\ UNCHANGED <<m, q, buf, rp, timer, flash, budget>>

\* A mistake: the old flag is cleared before the new one is written.
ClearedFirst == [flash EXCEPT ![1 - s.bank].boot = FALSE]
FlagSet == [flash EXCEPT ![s.bank].boot = TRUE]

SlaveSetFlag ==
  /\ s.State = "SET_FLAG"
  /\ flash' = FlagSet
  /\ s' = [s EXCEPT !.State = "CLEAR_FLAG"]
  /\ UNCHANGED <<m, q, buf, rp, timer, budget>>

\* The device goes down: RAM is lost, pending messages with it.
SlaveDown ==
  /\ s' = SlaveOff
  /\ q' = [q EXCEPT !["slave"] = <<>>]
  /\ timer' = [timer EXCEPT !["slave"] = IdleTimer]
  /\ buf' = [buf EXCEPT !["slave"] = [b \in Buffers |-> None]]
  /\ rp' = [rp EXCEPT !["slave"] = 0]
  /\ UNCHANGED <<m, budget>>

SlaveClearFlag ==
  /\ s.State = "CLEAR_FLAG"
  /\ flash' = [flash EXCEPT ![1 - s.bank].boot = FALSE]
  /\ SlaveDown

SlaveError ==
  /\ s.State = "ERROR"
  /\ flash' = [flash EXCEPT ![s.bank] = Erased]
  /\ SlaveDown

SlavePowerLoss == s.State # "OFF" /\ ~ Prompt /\ SlaveDown /\ UNCHANGED flash

-----------------------------------------------------------------------------
MasterTurn == MasterIdle \/ MasterMsg
SlaveTurn ==
  \/ SlaveInit \/ SlaveIdle \/ SlaveAnswer \/ SlaveIgnore
  \/ SlaveCheck \/ SlaveSetFlag \/ SlaveClearFlag \/ SlaveError

Next ==
  \/ MasterInit \/ MasterTurn \/ MasterDeadline
  \/ SlaveStart \/ SlaveTurn \/ SlaveDeadline \/ SlavePowerLoss
  \/ \E n \in Node : RspTimeout(n)

Spec == Init /\ [][Next]_vars

Frames == [cmd : {"NONE", "VERSION_REQ", "VERSION_RSP", "START_REQ", "START_RSP",
                  "DATA", "ACK", "END_REQ", "END_RSP"}, num : 0..NumBlocks]
Msgs == [type : {"DATA", "INVALID_DATA", "TIMEOUT"}, buf : Buffers, sent : Frames]

TypeOK ==
  /\ m.State \in MasterWaits \cup {"OFF", "IDLE", "END", "ERROR"}
  /\ s.State \in SlaveListens \cup {"OFF", "ERASE", "IDLE", "END", "SET_FLAG",
                                    "CLEAR_FLAG", "ERROR"}
  /\ \A c \in {m, s} : c.BlockNum \in 0..NumBlocks /\ c.RetryTimes \in 0..Retries
                       /\ c.tx \in Frames
  /\ \A n \in Node :
       /\ Len(q[n]) <= QueueLen /\ \A i \in 1..Len(q[n]) : q[n][i] \in Msgs
       /\ buf[n] \in [Buffers -> Frames] /\ rp[n] \in Buffers
       /\ timer[n] \in [valid : SUBSET (1..Slots), ptr : 0..Slots]
  /\ \A b \in Bank :
       /\ flash[b].boot \in BOOLEAN /\ Len(flash[b].data) <= NumBlocks
       /\ \A i \in 1..Len(flash[b].data) : flash[b].data[i] \in Image \X (1..NumBlocks)

-----------------------------------------------------------------------------
(* Properties.                                                             *)

\* Whatever is lost and whenever power goes, the slave has a bank to boot, and
\* the one that boots holds a whole image.
NeverBricked == Bootable # {} /\ \E img \in Image : Runs(img)

\* Only the block after the last one written is written: a block acknowledged
\* late, sent again or popped out of turn is not written twice or passed over.
InOrder == s.State \in SlaveListens => flash[s.bank].data = [i \in 1..s.BlockNum |-> <<"new", i>>]

\* The buffer of a queued message still holds the frame its checksum was checked
\* on, or another copy of it (fw_update_phy.c:110: three buffers in turn, and the
\* queue of four points into them).
BuffersIntact ==
  \A n \in Node : \A i \in 1..Len(q[n]) :
    q[n][i].type = "DATA" => buf[n][q[n][i].buf] = q[n][i].sent

\* The pointer names the one timer that may run: cancelling it leaves none, and
\* a slot is always free (timer_event.c:78 stops the device otherwise).
OneTimer == \A n \in Node : timer[n].valid \subseteq {timer[n].ptr}

\* The slave may erase long enough for the master to ask again and again.  Every
\* copy is answered and every answer too many makes the master send once more,
\* to the end of the transfer: no update fails for that once the slave answered.
Answered == {"START_RSP_WAIT", "DATA_ACK_WAIT", "END_RSP_WAIT"}
NoneTooMany == m.State \in Answered => m'.State # "ERROR"
CopiesHarmless == [][NoneTooMany]_vars

Running == IF Bootable = {} THEN NoImage ELSE CHOOSE img \in Image : Runs(img)

AtomicSlave ==
  INSTANCE AtomicUpdate WITH
    active <- Running,
    staged <- IF s.State \in {"SET_FLAG", "CLEAR_FLAG"} /\ BootBank # s.bank THEN "new" ELSE NoImage

\* The slave's running image changes in one step, from the old image to the new
\* one that was checked before, from either bank and whenever power goes.
ImplementsAtomicUpdate == AtomicSlave!Spec
=============================================================================
