-------------------------------- MODULE IrSend --------------------------------
(* Infrared sending by the remote control: the keys of its infrared mode, the *)
(* NEC frames with their repeats, and codes that were learned, which all go   *)
(* out over one PWM with DMA (vendor/ble_remote/rc_ir.c, rc_ir_learn.c 231-   *)
(* 404, app_ui.c).  Interrupts are on but for a few lines, so that a pending  *)
(* one is served before the main loop goes on.                                *)
EXTENDS FiniteSets

CONSTANTS
  Codes,     \* keys with a code of their own
  Switch,    \* KEY_MODE_SWITCH
  Power,     \* IR_POWER, which sends the learned code
  NoCode,
  Learned,   \* has a code been learned?
  Rollover   \* may a key go down before the last one is up?

Keys == Codes \cup {Switch, Power}

IrSendAssumption ==
  /\ Switch # Power /\ {Switch, Power, NoCode} \cap Codes = {} /\ NoCode \notin {Switch, Power}
  /\ Learned \in BOOLEAN /\ Rollover \in BOOLEAN

VARIABLES
  down, seen,   \* the keys that are down, and those of the last scan
  mode,         \* user_key_mode: "ble" or "ir"
  keyType,      \* key_type
  irHeld,       \* ir_not_released
  hw,           \* ir_hw_initialed
  ctrl,         \* ir_send_ctrl
  pending,      \* the code ir_nec_send is about to send
  dma,          \* the buffer the PWM takes its waveform from
  buf,          \* T_dmaData_buf and ir_send_dma_data
  air,          \* what the PWM sends, and what it was started for
  done, mask    \* the interrupt at the end of a waveform

keyVars == <<down, seen, mode, keyType, irHeld>>
pwmVars == <<dma, air, done, mask>>
vars == <<keyVars, hw, ctrl, pending, buf, pwmVars>>

Wave == [kind : {"code", "repeat"}, code : Codes] \cup {[kind |-> "learned", code |-> NoCode]}
Silence == [kind |-> "silence", code |-> NoCode]
OffAir == [sent |-> Silence, asked |-> Silence]
Idle == [is_sending |-> "none", repeat |-> FALSE, last |-> NoCode]

Init ==
  /\ down = {} /\ seen = {} /\ mode = "ble" /\ keyType = "idle" /\ irHeld = FALSE
  /\ hw = FALSE /\ ctrl = Idle /\ pending = NoCode
  /\ dma = "none" /\ buf = [nec |-> Silence, learned |-> Silence]
  /\ air = OffAir /\ done = FALSE /\ mask = FALSE

-----------------------------------------------------------------------------
(* The PWM.                                                                *)

\* A waveform is put into its buffer and sending starts, from the buffer whose
\* address was set last.
Send(where, at, wave) ==
  /\ buf' = [buf EXCEPT ![where] = wave]
  /\ air' = [sent |-> IF at = where THEN wave ELSE buf[at], asked |-> wave]

AllSent ==
  /\ air # OffAir
  /\ air' = OffAir /\ done' = TRUE
  /\ UNCHANGED <<keyVars, hw, ctrl, pending, buf, dma, mask>>

\* A mistake: the code sent last is not forgotten.
ReleasedKeepsLast == [ctrl EXCEPT !.is_sending = "none"]

Released == [ctrl EXCEPT !.is_sending = "none", !.last = NoCode]

\* ir_send_release.
ir_send_release ==
  /\ ctrl' = Released
  /\ air' = IF ctrl.is_sending = "none" THEN air ELSE OffAir
  /\ done' = FALSE /\ mask' = FALSE

\* rc_ir_irq_prc: the repeats follow the code, and one group of them the other.
rc_ir_irq_prc ==
  /\ done /\ mask
  /\ \/ /\ ctrl.repeat /\ ctrl.is_sending # "none"
        /\ done' = FALSE
        /\ ctrl' = [ctrl EXCEPT !.is_sending = "repeat"]
        /\ Send("nec", dma, [kind |-> "repeat", code |-> ctrl.last])
        /\ UNCHANGED mask
     \/ /\ ctrl.repeat /\ ctrl.is_sending = "none"
        /\ done' = FALSE
        /\ UNCHANGED <<ctrl, buf, air, mask>>
     \/ ~ctrl.repeat /\ ir_send_release /\ UNCHANGED buf
  /\ UNCHANGED <<keyVars, hw, pending, dma>>

-----------------------------------------------------------------------------
(* The main loop.                                                          *)

\* The user.
Press(k) ==
  /\ k \notin down /\ Cardinality(down) \in {0, 1}
  /\ ~Rollover => down = {} /\ seen = {}
  /\ down' = down \cup {k}
  /\ UNCHANGED <<seen, mode, keyType, irHeld, hw, ctrl, pending, buf, pwmVars>>

LiftKey(k) ==
  /\ k \in down /\ (~Rollover => seen = down)
  /\ down' = down \ {k}
  /\ UNCHANGED <<seen, mode, keyType, irHeld, hw, ctrl, pending, buf, pwmVars>>

\* ir_sending_check: what was started 300 ms ago is stopped.
Check(busy) ==
  \/ busy /\ ctrl.is_sending # "none" /\ UNCHANGED <<ctrl, air>>
  \/ ~busy /\ ctrl.is_sending # "none" /\ ctrl' = [ctrl EXCEPT !.is_sending = "none"] /\ air' = OffAir
  \/ ~busy /\ ctrl.is_sending = "none" /\ UNCHANGED <<ctrl, air>>

\* rc_ir_init, the first time a key of the infrared mode is used.
rc_ir_init ==
  /\ hw' = TRUE
  /\ IF hw THEN UNCHANGED <<dma, done>> ELSE dma' = "nec" /\ done' = FALSE

\* ir_dispatch to the check in ir_nec_send; an interrupt may come after it.
StartNec(k) ==
  /\ keyType' = "ir" /\ UNCHANGED <<mode, mask, buf>>
  /\ IF irHeld THEN UNCHANGED <<irHeld, hw, ctrl, pending, dma, done, air>>
     ELSE /\ irHeld' = TRUE /\ rc_ir_init
          /\ \/ hw /\ ctrl.last = k /\ UNCHANGED <<ctrl, pending, air>>
             \/ (~hw \/ ctrl.last # k) /\ Check(TRUE) /\ UNCHANGED pending
             \/ (~hw \/ ctrl.last # k) /\ Check(FALSE) /\ pending' = k

\* The rest of ir_nec_send.
ir_nec_send ==
  /\ pending # NoCode /\ ~(done /\ mask)
  /\ pending' = NoCode
  /\ ctrl' = [is_sending |-> "data", repeat |-> TRUE, last |-> pending]
  /\ done' = FALSE /\ mask' = TRUE
  /\ Send("nec", dma, [kind |-> "code", code |-> pending])
  /\ UNCHANGED <<keyVars, hw, dma>>

\* ir_learn_send_init, ir_learn_copy_result and ir_learn_send.
SendLearned ==
  /\ dma' = "learned" /\ done' = FALSE
  /\ \/ /\ ctrl.is_sending # "none"
        /\ ctrl' = [ctrl EXCEPT !.last = NoCode] /\ UNCHANGED <<air, mask, buf>>
     \/ /\ ctrl' = [is_sending |-> "data", repeat |-> FALSE, last |-> NoCode]
        /\ mask' = TRUE
        /\ Send("learned", "learned", [kind |-> "learned", code |-> NoCode])
  /\ UNCHANGED <<mode, keyType, irHeld, hw, pending>>

OneKey(k) ==
  \/ /\ k = Switch
     /\ mode' = IF mode = "ble" THEN "ir" ELSE "ble"
     /\ UNCHANGED <<keyType, irHeld, hw, ctrl, pending, buf, pwmVars>>
  \/ k = Power /\ Learned /\ SendLearned
  \/ k = Power /\ ~Learned /\ UNCHANGED <<mode, keyType, irHeld, hw, ctrl, pending, buf, pwmVars>>
  \/ /\ k \in Codes /\ mode = "ble"
     /\ keyType' = "ble"
     /\ UNCHANGED <<mode, irHeld, hw, ctrl, pending, buf, pwmVars>>
  \/ k \in Codes /\ mode = "ir" /\ StartNec(k)

NoKeyDown ==
  IF keyType = "ir" /\ irHeld
  THEN /\ irHeld' = FALSE /\ hw' = TRUE
       /\ dma' = IF hw THEN dma ELSE "nec"
       /\ ir_send_release
       /\ UNCHANGED <<mode, keyType, pending, buf>>
  ELSE UNCHANGED <<mode, keyType, irHeld, hw, ctrl, pending, buf, pwmVars>>

\* key_change_proc.
key_change_proc ==
  /\ seen # down /\ pending = NoCode /\ ~(done /\ mask)
  /\ seen' = down /\ UNCHANGED down
  /\ \/ Cardinality(down) = 1 /\ \E k \in down : OneKey(k)
     \/ Cardinality(down) = 2 /\ UNCHANGED <<mode, keyType, irHeld, hw, ctrl, pending, buf, pwmVars>>
     \/ down = {} /\ NoKeyDown

\* Deep sleep with retention: the PWM has to be set up again.  Sending keeps the
\* remote awake (app.c 407).
Sleep ==
  /\ down = {} /\ seen = {} /\ ctrl.is_sending = "none" /\ pending = NoCode /\ ~done
  /\ hw' = FALSE /\ ctrl' = Idle /\ dma' = "none" /\ mask' = FALSE
  /\ UNCHANGED <<keyVars, pending, buf, air, done>>

Next ==
  \/ AllSent \/ rc_ir_irq_prc
  \/ \E k \in Keys : Press(k) \/ LiftKey(k)
  \/ key_change_proc \/ ir_nec_send \/ Sleep

Spec == Init /\ [][Next]_vars

TypeOK ==
  /\ down \subseteq Keys /\ seen \subseteq Keys /\ mode \in {"ble", "ir"}
  /\ keyType \in {"idle", "ble", "ir"} /\ {irHeld, hw, done, mask} \subseteq BOOLEAN
  /\ ctrl \in [is_sending : {"none", "data", "repeat"}, repeat : BOOLEAN, last : Codes \cup {NoCode}]
  /\ pending \in Codes \cup {NoCode} /\ dma \in {"none", "nec", "learned"}
  /\ {buf.nec, buf.learned, air.sent, air.asked} \subseteq Wave \cup {Silence}

-----------------------------------------------------------------------------
(* Properties.                                                             *)

\* A NEC frame goes out only while its key is down, and it is that key's: neither
\* what the PWM's buffers hold of earlier keys, nor the code sent last, nor a repeat
\* that comes with the release sends another (rc_ir.c 112-155, 187-206, 299-331;
\* app_ui.c 448-455).  With a learned code its waveform may go out instead, as the
\* address of its buffer stays set (rc_ir_learn.c 246).
SendsHeld == air.sent.kind \in {"code", "repeat"} => air.sent = air.asked /\ seen = {air.sent.code}

\* Once the keys are up nothing goes out but a learned code to its end: the
\* repeats stop with the key (app_ui.c 448-455).
StopsWithKeys == seen = {} /\ pending = NoCode => ctrl.is_sending = "none" \/ ~ctrl.repeat

\* What keeps the remote awake (app.c 407) is really going out or about to end.
NoSilentSending == ctrl.is_sending # "none" => air # OffAir \/ (done /\ mask)

\* A code key of the infrared mode is sent whenever it goes down and nothing is
\* being sent, the key sent last included (rc_ir.c 98, 194).
PressSends ==
  seen = {} /\ mode = "ir" /\ ctrl.is_sending = "none"
    => \A k \in Codes : seen' = {k} => pending' = k
=============================================================================
