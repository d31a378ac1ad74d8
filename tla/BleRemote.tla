----------------------------- MODULE BleRemote -----------------------------
(* The BLE remote control: the keys it reports to the host, the microphone  *)
(* of the voice key, and how it goes to deep sleep and comes back            *)
(* (vendor/ble_remote/app.c, app_ui.c, app_audio.c).                         *)
(*                                                                           *)
(* The main loop runs the stack, whose events change the state of the link,  *)
(* then scans the keys, then decides on sleep.  A scan may be left out, so   *)
(* the three are actions of their own.  How the matrix is scanned is the     *)
(* subject of KeyScan; here a scan finds the keys that are down.             *)
EXTENDS Naturals, Sequences, FiniteSets

CONSTANTS
  KeyboardKeys,  \* keys reported as keyboard keys
  ConsumerKeys,  \* keys reported as consumer keys
  Voice,         \* the voice key
  Mode,          \* the key that switches the mode and lets the LED shine
  NoKey,
  MaxHeld,       \* how many keys may be down at the same time
  TxFifo,        \* reports the stack holds
  FastScan,      \* DEEPBACK_FAST_KEYSCAN_ENABLE
  Patient,       \* does the user let a key be reported before the next one?
  MaxDrops       \* bound: links the host ends or that are lost

Keys == KeyboardKeys \cup ConsumerKeys \cup {Voice, Mode}

BleRemoteAssumption ==
  /\ NoKey \notin Keys /\ Voice # Mode
  /\ KeyboardKeys \cap ConsumerKeys = {} /\ {Voice, Mode} \cap (KeyboardKeys \cup ConsumerKeys) = {}
  /\ MaxHeld \in Nat \ {0} /\ TxFifo \in Nat \ {0} /\ MaxDrops \in Nat
  /\ FastScan \in BOOLEAN /\ Patient \in BOOLEAN

VARIABLES
  held,        \* the keys that are down
  seen,        \* the keys the last scan found, and scan_pin_need with them
  notReleased, \* key_not_released
  keyType,     \* key_type
  voicePress,  \* key_voice_press
  mic,         \* ui_mic_enable
  led,         \* DEVICE_LED_BUSY
  asleep,      \* in deep sleep?
  conn,        \* device_in_connection_state
  adv,         \* is advertising enabled in the controller?
  term,        \* sendTerminate_before_enterDeep
  ending,      \* has the link layer been told to terminate?
  userIdle,    \* is latest_user_event_tick a minute ago?
  advIdle,     \* is advertise_begin_tick a minute ago?
  connFlag,    \* CONN_DEEP_FLG, kept in an analog register
  back,        \* deepback_key_state: "idle", "cache" or "release"
  cache,       \* kb_event_cache
  tx,          \* reports to be sent
  host,        \* the key the host takes to be down, of each type
  drops        \* links dropped so far

keyVars == <<seen, notReleased, keyType, voicePress>>
linkVars == <<conn, adv, term, ending, userIdle, advIdle>>
backVars == <<connFlag, back, cache>>
vars == <<held, keyVars, mic, led, asleep, linkVars, backVars, tx, host, drops>>

Types == {"keyboard", "consumer"}
Report == [type : Types, key : Keys \cup {NoKey}]
NothingDown == [t \in Types |-> NoKey]

(***************************************************************************)
(* Keys.                                                                   *)
(***************************************************************************)

\* blc_gatt_pushHandleValueNotify; nobody looks at what it returns.
Push(r) == tx' = IF conn /\ Len(tx) < TxFifo THEN Append(tx, r) ELSE tx

\* One key is down.
KeyPressed(k) ==
  /\ notReleased' = TRUE
  /\ \/ /\ k = Mode
        /\ led' = TRUE
        /\ UNCHANGED <<keyType, mic, tx>> /\ voicePress' = FALSE
     \/ /\ k = Voice
        /\ mic' = FALSE
        /\ voicePress' = ~mic
        /\ UNCHANGED <<keyType, led, tx>>
     \/ /\ k \in KeyboardKeys
        /\ keyType' = "keyboard"
        /\ Push([type |-> "keyboard", key |-> k])
        /\ UNCHANGED <<mic, led>> /\ voicePress' = FALSE
     \/ /\ k \in ConsumerKeys
        /\ keyType' = "consumer"
        /\ Push([type |-> "consumer", key |-> k])
        /\ UNCHANGED <<mic, led>> /\ voicePress' = FALSE

\* Two keys are down: nothing is done.
TwoKeys ==
  /\ notReleased' = TRUE
  /\ voicePress' = FALSE
  /\ UNCHANGED <<keyType, mic, led, tx>>

\* A mistake: the microphone stays on.
KeyReleasedMic ==
  /\ notReleased' = FALSE
  /\ IF keyType \in Types THEN Push([type |-> keyType, key |-> NoKey]) ELSE UNCHANGED tx
  /\ voicePress' = FALSE
  /\ UNCHANGED <<keyType, led, mic>>

\* The branch for no key; more than two keys take it as well.
KeyReleased ==
  /\ notReleased' = FALSE
  /\ IF keyType \in Types THEN Push([type |-> keyType, key |-> NoKey]) ELSE UNCHANGED tx
  /\ voicePress' = FALSE
  /\ mic' = FALSE
  /\ UNCHANGED <<keyType, led>>

key_change_proc(event) ==
  /\ userIdle' = FALSE
  /\ \/ Cardinality(event) = 1 /\ \E k \in event : KeyPressed(k)
     \/ Cardinality(event) = 2 /\ TwoKeys
     \/ Cardinality(event) \notin {1, 2} /\ KeyReleased

\* proc_keyboard: the keys have changed.
ScanChange ==
  /\ ~asleep
  /\ seen # held
  /\ seen' = held
  /\ key_change_proc(held)
  /\ UNCHANGED <<held, asleep, conn, adv, term, ending, advIdle, backVars, host, drops>>

\* proc_keyboard, deepback_pre_proc: the key that woke the remote is reported
\* when there is a link.
ScanCached ==
  /\ ~asleep
  /\ seen = held
  /\ back = "cache"
  /\ conn
  /\ key_change_proc(cache)
  /\ back' = IF notReleased \/ Voice \in cache THEN "idle" ELSE "release"
  /\ UNCHANGED <<held, seen, asleep, conn, adv, term, ending, advIdle, connFlag, cache, host, drops>>

\* proc_keyboard, deepback_post_proc: and released 150 ms later.
ManualRelease ==
  /\ ~asleep
  /\ back = "release"
  /\ back' = "idle"
  /\ notReleased' = FALSE
  /\ Push([type |-> "keyboard", key |-> NoKey])
  /\ UNCHANGED <<held, seen, keyType, voicePress, mic, led, asleep, linkVars, connFlag, cache, host, drops>>

\* proc_keyboard, audio_state_check: the voice key is down for a second.
VoiceStarts ==
  /\ ~asleep
  /\ voicePress /\ ~mic /\ conn
  /\ voicePress' = FALSE
  /\ mic' = TRUE
  /\ UNCHANGED <<held, seen, notReleased, keyType, led, asleep, linkVars, backVars, tx, host, drops>>

(***************************************************************************)
(* The link.                                                               *)
(***************************************************************************)
\* task_connect.
Connect ==
  /\ ~asleep
  /\ ~conn /\ adv
  /\ conn' = TRUE
  /\ userIdle' = FALSE
  /\ UNCHANGED <<held, keyVars, mic, led, asleep, adv, term, ending, advIdle, backVars, tx, host, drops>>

\* A mistake: the end of the link is not what the remote waits for.
TerminatedPlain ==
  /\ conn' = FALSE /\ ending' = FALSE
  /\ UNCHANGED term
  /\ mic' = FALSE
  /\ advIdle' = FALSE
  /\ tx' = <<>> /\ host' = NothingDown
  /\ UNCHANGED <<held, keyVars, led, asleep, adv, userIdle, backVars>>

\* ble_remote_terminate.  The host takes no key to be down any more.
Terminated ==
  /\ conn' = FALSE /\ ending' = FALSE
  /\ term' = IF term = 1 THEN 2 ELSE term
  /\ mic' = FALSE
  /\ advIdle' = FALSE
  /\ tx' = <<>> /\ host' = NothingDown
  /\ UNCHANGED <<held, keyVars, led, asleep, adv, userIdle, backVars>>

\* The terminate packet of the remote is acknowledged, or its link times out.
LinkEnds == conn /\ ending /\ Terminated /\ UNCHANGED drops

\* The host ends the link, or it is lost.
LinkDrops == conn /\ drops < MaxDrops /\ drops' = drops + 1 /\ Terminated

\* The host receives a report.
ReportSent ==
  /\ conn /\ tx # <<>>
  /\ host' = [host EXCEPT ![Head(tx).type] = Head(tx).key]
  /\ tx' = Tail(tx)
  /\ UNCHANGED <<held, keyVars, mic, led, asleep, linkVars, backVars, drops>>

(***************************************************************************)
(* Sleep.                                                                  *)
(***************************************************************************)
\* user_task_flg of blt_pm_proc, without the OTA.
UserTask == seen # {} \/ notReleased \/ led

\* cpu_sleep_wakeup: what is in RAM is lost.
DeepSleep ==
  /\ asleep' = TRUE
  /\ seen' = {} /\ notReleased' = FALSE /\ keyType' = "idle" /\ voicePress' = FALSE
  /\ mic' = FALSE /\ led' = FALSE
  /\ conn' = FALSE /\ adv' = FALSE /\ term' = 0 /\ ending' = FALSE
  /\ userIdle' = FALSE /\ advIdle' = FALSE
  /\ back' = "idle" /\ cache' = {}
  /\ tx' = <<>> /\ host' = NothingDown
  /\ UNCHANGED <<held, drops>>

\* blt_pm_proc: a key is pressed again.
CancelTerminate ==
  /\ term = 1 /\ UserTask
  /\ term' = 0
  /\ adv' = TRUE
  /\ UNCHANGED <<held, keyVars, mic, led, asleep, conn, ending, userIdle, advIdle, backVars, tx, host, drops>>

\* blt_pm_proc: the link is terminated.
SleepAfterLink ==
  /\ term = 2
  /\ connFlag' = TRUE
  /\ DeepSleep

\* blt_pm_proc: a minute of advertising.
SleepAfterAdv ==
  /\ term = 0 /\ ~conn /\ adv /\ advIdle
  /\ UNCHANGED connFlag
  /\ DeepSleep

\* blt_pm_proc: a minute of a link that nobody used.
TerminateLink ==
  /\ conn /\ ~UserTask /\ userIdle
  /\ term' = 1
  /\ ending' = TRUE
  /\ adv' = FALSE
  /\ UNCHANGED <<held, keyVars, mic, led, asleep, conn, userIdle, advIdle, backVars, tx, host, drops>>

blt_pm_proc == ~asleep /\ (CancelTerminate \/ SleepAfterLink \/ SleepAfterAdv \/ TerminateLink)

\* main, deep_wakeup_proc, user_init_normal: a key wakes the remote.
Wake ==
  /\ asleep
  /\ held # {}
  /\ asleep' = FALSE
  /\ adv' = TRUE
  /\ led' = TRUE
  /\ IF FastScan /\ connFlag
     THEN seen' = held /\ notReleased' = TRUE /\ back' = "cache" /\ cache' = held
     ELSE UNCHANGED <<seen, notReleased, back, cache>>
  /\ connFlag' = (connFlag /\ ~FastScan)
  /\ UNCHANGED <<held, keyType, voicePress, mic, conn, term, ending, userIdle, advIdle, tx, host, drops>>

(***************************************************************************)
(* Time and the user.                                                      *)
(***************************************************************************)
LedEnds ==
  /\ led
  /\ led' = FALSE
  /\ UNCHANGED <<held, keyVars, mic, asleep, linkVars, backVars, tx, host, drops>>

Minute ==
  /\ ~asleep
  /\ \/ conn /\ ~userIdle /\ userIdle' = TRUE /\ UNCHANGED advIdle
     \/ ~conn /\ adv /\ ~advIdle /\ advIdle' = TRUE /\ UNCHANGED userIdle
  /\ UNCHANGED <<held, keyVars, mic, led, asleep, conn, adv, term, ending, backVars, tx, host, drops>>

\* A key goes down or up.
User ==
  /\ Patient => (asleep \/ (seen = held /\ tx = <<>>))
  /\ \/ \E k \in Keys \ held : Cardinality(held) < MaxHeld /\ held' = held \cup {k}
     \/ \E k \in held : held' = held \ {k}
  /\ UNCHANGED <<keyVars, mic, led, asleep, linkVars, backVars, tx, host, drops>>

Init ==
  /\ held = {} /\ seen = {} /\ notReleased = FALSE /\ keyType = "idle" /\ voicePress = FALSE
  /\ mic = FALSE /\ led = TRUE /\ asleep = FALSE
  /\ conn = FALSE /\ adv = TRUE /\ term = 0 /\ ending = FALSE
  /\ userIdle = FALSE /\ advIdle = FALSE
  /\ connFlag = FALSE /\ back = "idle" /\ cache = {}
  /\ tx = <<>> /\ host = NothingDown /\ drops = 0

Scan == ScanChange \/ ScanCached \/ ManualRelease \/ VoiceStarts

Next ==
  \/ Scan
  \/ Connect \/ LinkEnds \/ LinkDrops \/ ReportSent
  \/ blt_pm_proc \/ Wake
  \/ LedEnds \/ Minute \/ User

Spec == Init /\ [][Next]_vars

\* The main loop runs, time goes by, a terminate packet is acknowledged or the
\* link times out.
LiveSpec ==
  /\ Spec
  /\ WF_vars(Scan) /\ WF_vars(blt_pm_proc) /\ WF_vars(Wake)
  /\ WF_vars(LinkEnds) /\ WF_vars(LedEnds) /\ WF_vars(Minute)

(***************************************************************************)
(* Properties.                                                             *)
(***************************************************************************)
TypeOK ==
  /\ held \subseteq Keys /\ Cardinality(held) <= MaxHeld
  /\ seen \subseteq Keys /\ cache \subseteq Keys
  /\ notReleased \in BOOLEAN /\ keyType \in Types \cup {"idle"} /\ voicePress \in BOOLEAN
  /\ mic \in BOOLEAN /\ led \in BOOLEAN /\ asleep \in BOOLEAN
  /\ conn \in BOOLEAN /\ adv \in BOOLEAN /\ term \in 0 .. 2 /\ ending \in BOOLEAN
  /\ userIdle \in BOOLEAN /\ advIdle \in BOOLEAN
  /\ connFlag \in BOOLEAN /\ back \in {"idle", "cache", "release"}
  /\ tx \in Seq(Report) /\ Len(tx) <= TxFifo
  /\ host \in [Types -> Keys \cup {NoKey}]
  /\ drops \in 0 .. MaxDrops

\* key_not_released, which keeps the remote awake, is set while keys are down
\* and cleared when the last one is up (app_ui.c:326, 433).
KeyStateRight == notReleased <=> seen # {}

\* When no key is down and every report has been sent, the host takes none to
\* be down (app_ui.c:433-445).
NoStuckKey == conn /\ held = {} /\ seen = {} /\ tx = <<>> => host = NothingDown

\* The remote can always be reached: unless it sleeps or is about to, it has a
\* link or advertises (app.c:366-372).
NeverMute == ~asleep => conn \/ adv \/ term = 2

\* The microphone is on only over a link and with a key down: it is turned off
\* whatever ends first (app.c:192, app_audio.c:353).
MicWhileHeld == mic => conn /\ seen # {}

\* The remote that has told the host that it leaves does not sleep when a key
\* is pressed again (app.c:366-370).
\* The code does not keep this: see the README.
AwakeWhenPressed == [][asleep' /\ ~asleep /\ term = 2 => ~UserTask]_vars

\* A remote nobody touches goes to deep sleep and stays there, whatever the
\* state of its link.
Sleeps == <>[](held = {}) => <>[]asleep
=============================================================================
