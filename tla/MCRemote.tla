------------------------------ MODULE MCRemote ------------------------------
(* The remote control's program (vendor/ble_remote) and the voice it sends:  *)
(* flash protection, the key matrix, what the program makes of the keys, its *)
(* infrared sending and learning, its LED, the microphone with its encoder,  *)
(* the codec, and the dongle that plays the voice.  The parts share no        *)
(* variable in these models, so a property of one of them is checked while   *)
(* that part alone moves; part says which one does.                          *)
EXTENDS FlashProt

CONSTANT Parts  \* the components that run

VARIABLE part  \* the component that moves in this behaviour
VARIABLES
  rc_held, rc_seen, rc_notReleased, rc_keyType, rc_voicePress, rc_mic, rc_led,
  rc_asleep, rc_conn, rc_adv, rc_term, rc_ending, rc_userIdle, rc_advIdle,
  rc_connFlag, rc_back, rc_cache, rc_tx, rc_host, rc_drops, key_pressed,
  key_reading, key_scan, key_hold, key_buff, key_rep, key_event, key_past,
  irs_down, irs_seen, irs_mode, irs_keyType, irs_irHeld, irs_hw, irs_ctrl,
  irs_pending, irs_dma, irs_buf, irs_air, irs_done, irs_mask, irl_state,
  irl_edges, irl_inCarrier, irl_since, irl_first, irl_checks, irl_cycle,
  irl_cnt, irl_buf, irl_irq, irl_quiet, irl_pc, irl_signal, irl_starts,
  led_led, led_elapsed, led_event, led_age, led_shone, mic_mic, mic_session,
  mic_now, mic_buffer, mic_age, mic_rptr, mic_wp, mic_rp, mic_enc, mic_coded,
  mic_out, audio_mic_wptr, audio_dec_wptr, audio_dec_rptr, audio_abuf_mic,
  audio_abuf_dec, audio_abuf_reset, audio_start, audio_buffer_empty,
  audio_n_usb_iso, audio_pc, audio_played, codec_enc, codec_pkt, codec_air,
  codec_dec, codec_pcm, codec_shadow, codec_taken, codec_held, codec_lost

AllChips == {Mid1060c8, Mid11325e, Mid1160c8, Mid13325e, Mid134051, Mid1360c8,
             Mid14325e, Mid1460c8, Mid0113325e, Mid136085, Mid1360eb, Mid0114325e,
             Mid011460c8, Mid146085, Mid1471cd, Mid156085}
QeAndOtp == {9, 11}

\* The events of the remote, scaled, and two whose repeats join into one.
LedConfigs ==
  {[on |-> 2, off |-> 0, repeat |-> 1, priority |-> 0],
   [on |-> 1, off |-> 0, repeat |-> 9, priority |-> 1],
   [on |-> 0, off |-> 1, repeat |-> 9, priority |-> 1],
   [on |-> 2, off |-> 2, repeat |-> 2, priority |-> 2],
   [on |-> 1, off |-> 1, repeat |-> 4, priority |-> 2],
   [on |-> 2, off |-> 1, repeat |-> 3, priority |-> 3],
   [on |-> 0, off |-> 1, repeat |-> 2, priority |-> 0],
   [on |-> 1, off |-> 0, repeat |-> 3, priority |-> 1]}

\* kb_scan_key(0, 1), as the main loop calls it.
ScanLoop == {[poweron |-> FALSE, invalid |-> FALSE, read |-> TRUE]}
\* Callers that do not always read, or have no NUMLOCK state.
ScanAny == [poweron : {FALSE}, invalid : BOOLEAN, read : BOOLEAN]
\* kb_scan_key(KB_NUMLOCK_STATUS_POWERON, 1), after deep sleep.
ScanWoken == {[poweron |-> TRUE, invalid |-> FALSE, read |-> TRUE]}

Rc == INSTANCE BleRemote WITH
  KeyboardKeys <- {"k"}, ConsumerKeys <- {}, Voice <- "v", Mode <- "m",
  NoKey <- "none", MaxHeld <- 2, TxFifo <- 1, FastScan <- FALSE,
  Patient <- FALSE, MaxDrops <- 1, held <- rc_held, seen <- rc_seen,
  notReleased <- rc_notReleased, keyType <- rc_keyType,
  voicePress <- rc_voicePress, mic <- rc_mic, led <- rc_led,
  asleep <- rc_asleep, conn <- rc_conn, adv <- rc_adv, term <- rc_term,
  ending <- rc_ending, userIdle <- rc_userIdle, advIdle <- rc_advIdle,
  connFlag <- rc_connFlag, back <- rc_back, cache <- rc_cache, tx <- rc_tx,
  host <- rc_host, drops <- rc_drops

Calm == INSTANCE BleRemote WITH
  KeyboardKeys <- {"k"}, ConsumerKeys <- {"c"}, Voice <- "v", Mode <- "m",
  NoKey <- "none", MaxHeld <- 1, TxFifo <- 2, FastScan <- FALSE,
  Patient <- TRUE, MaxDrops <- 1, held <- rc_held, seen <- rc_seen,
  notReleased <- rc_notReleased, keyType <- rc_keyType,
  voicePress <- rc_voicePress, mic <- rc_mic, led <- rc_led,
  asleep <- rc_asleep, conn <- rc_conn, adv <- rc_adv, term <- rc_term,
  ending <- rc_ending, userIdle <- rc_userIdle, advIdle <- rc_advIdle,
  connFlag <- rc_connFlag, back <- rc_back, cache <- rc_cache, tx <- rc_tx,
  host <- rc_host, drops <- rc_drops

Keyboard == INSTANCE KeyScan WITH
  Drive <- 2, Scan <- 2, Modifier <- {<<1, 0>>},
  Repeatable <- {<<0, 0>>, <<0, 1>>}, Fn <- {}, KB_RETURN_KEY_MAX <- 2,
  KB_RM_GHOST_KEY_EN <- TRUE, KB_REPEAT_KEY_ENABLE <- TRUE, Interval <- 2,
  Status <- ScanLoop, pressed <- key_pressed, reading <- key_reading,
  scan <- key_scan, hold <- key_hold, buff <- key_buff, rep <- key_rep,
  event <- key_event, past <- key_past

Ring == INSTANCE KeyScan WITH
  Drive <- 1, Scan <- 1, Modifier <- {}, Repeatable <- {<<0, 0>>}, Fn <- {},
  KB_RETURN_KEY_MAX <- 2, KB_RM_GHOST_KEY_EN <- FALSE,
  KB_REPEAT_KEY_ENABLE <- FALSE, Interval <- 2, Status <- ScanAny,
  pressed <- key_pressed, reading <- key_reading, scan <- key_scan,
  hold <- key_hold, buff <- key_buff, rep <- key_rep, event <- key_event,
  past <- key_past

Woken == INSTANCE KeyScan WITH
  Drive <- 3, Scan <- 2, Modifier <- {<<1, 0>>},
  Repeatable <- {<<0, 0>>, <<0, 1>>}, Fn <- {}, KB_RETURN_KEY_MAX <- 2,
  KB_RM_GHOST_KEY_EN <- TRUE, KB_REPEAT_KEY_ENABLE <- FALSE, Interval <- 2,
  Status <- ScanWoken, pressed <- key_pressed, reading <- key_reading,
  scan <- key_scan, hold <- key_hold, buff <- key_buff, rep <- key_rep,
  event <- key_event, past <- key_past

IrKeys == INSTANCE IrSend WITH
  Codes <- {"n", "m"}, Switch <- "s", Power <- "p", NoCode <- "none",
  Learned <- FALSE, Rollover <- TRUE, down <- irs_down, seen <- irs_seen,
  mode <- irs_mode, keyType <- irs_keyType, irHeld <- irs_irHeld,
  hw <- irs_hw, ctrl <- irs_ctrl, pending <- irs_pending, dma <- irs_dma,
  buf <- irs_buf, air <- irs_air, done <- irs_done, mask <- irs_mask

IrCode == INSTANCE IrSend WITH
  Codes <- {"n", "m"}, Switch <- "s", Power <- "p", NoCode <- "none",
  Learned <- TRUE, Rollover <- FALSE, down <- irs_down, seen <- irs_seen,
  mode <- irs_mode, keyType <- irs_keyType, irHeld <- irs_irHeld,
  hw <- irs_hw, ctrl <- irs_ctrl, pending <- irs_pending, dma <- irs_dma,
  buf <- irs_buf, air <- irs_air, done <- irs_done, mask <- irs_mask

Learning == INSTANCE IrLearn WITH
  Cycle <- 3, Gaps <- {8, 9}, Threshold <- 6, End <- 12, CHECK <- 2, MIN <- 2,
  MAX <- 6, MaxBurst <- 4, MaxStarts <- 2, state <- irl_state,
  edges <- irl_edges, inCarrier <- irl_inCarrier, since <- irl_since,
  first <- irl_first, checks <- irl_checks, cycle <- irl_cycle,
  cnt <- irl_cnt, buf <- irl_buf, irq <- irl_irq, quiet <- irl_quiet,
  pc <- irl_pc, signal <- irl_signal, starts <- irl_starts

Led == INSTANCE LedEvents WITH
  Configs <- LedConfigs, Forever <- 9, Width <- 4, MaxLate <- 5,
  led <- led_led, elapsed <- led_elapsed, event <- led_event, age <- led_age,
  shone <- led_shone

Mic == INSTANCE MicEncoder WITH
  H <- 2, N <- 2, W <- 4, MaxSamples <- 14, Sessions <- 2, Prompt <- TRUE,
  mic <- mic_mic, session <- mic_session, now <- mic_now,
  buffer <- mic_buffer, age <- mic_age, rptr <- mic_rptr, wp <- mic_wp,
  rp <- mic_rp, enc <- mic_enc, coded <- mic_coded, out <- mic_out

Audio == INSTANCE DongleAudio WITH
  F <- 3, W <- 8, RESET <- 1, Steady <- TRUE, mic_wptr <- audio_mic_wptr,
  dec_wptr <- audio_dec_wptr, dec_rptr <- audio_dec_rptr,
  abuf_mic <- audio_abuf_mic, abuf_dec <- audio_abuf_dec,
  abuf_reset <- audio_abuf_reset, start <- audio_start,
  buffer_empty <- audio_buffer_empty, n_usb_iso <- audio_n_usb_iso,
  pc <- audio_pc, played <- audio_played

Codec == INSTANCE Adpcm WITH
  Voice <- {-32768, -900, 0, 1000, 32767}, Held <- {-32768, 5, 32767},
  Changes <- 6, Len_ <- 4, Losses <- 1, enc <- codec_enc, pkt <- codec_pkt,
  air <- codec_air, dec <- codec_dec, pcm <- codec_pcm,
  shadow <- codec_shadow, taken <- codec_taken, held <- codec_held,
  lost <- codec_lost

rc_vars == <<rc_held, rc_seen, rc_notReleased, rc_keyType, rc_voicePress,
            rc_mic, rc_led, rc_asleep, rc_conn, rc_adv, rc_term, rc_ending,
            rc_userIdle, rc_advIdle, rc_connFlag, rc_back, rc_cache, rc_tx,
            rc_host, rc_drops>>
key_vars == <<key_pressed, key_reading, key_scan, key_hold, key_buff, key_rep,
             key_event, key_past>>
irs_vars == <<irs_down, irs_seen, irs_mode, irs_keyType, irs_irHeld, irs_hw,
             irs_ctrl, irs_pending, irs_dma, irs_buf, irs_air, irs_done,
             irs_mask>>
irl_vars == <<irl_state, irl_edges, irl_inCarrier, irl_since, irl_first,
             irl_checks, irl_cycle, irl_cnt, irl_buf, irl_irq, irl_quiet,
             irl_pc, irl_signal, irl_starts>>
led_vars == <<led_led, led_elapsed, led_event, led_age, led_shone>>
mic_vars == <<mic_mic, mic_session, mic_now, mic_buffer, mic_age, mic_rptr,
             mic_wp, mic_rp, mic_enc, mic_coded, mic_out>>
audio_vars == <<audio_mic_wptr, audio_dec_wptr, audio_dec_rptr,
               audio_abuf_mic, audio_abuf_dec, audio_abuf_reset, audio_start,
               audio_buffer_empty, audio_n_usb_iso, audio_pc, audio_played>>
codec_vars == <<codec_enc, codec_pkt, codec_air, codec_dec, codec_pcm,
               codec_shadow, codec_taken, codec_held, codec_lost>>

all_vars == <<part, vars, rc_vars, key_vars, irs_vars, irl_vars, led_vars, mic_vars, audio_vars, codec_vars>>

ASSUME ComponentAssumptions ==
  /\ Rc!BleRemoteAssumption
  /\ Calm!BleRemoteAssumption
  /\ Keyboard!KeyScanAssumption
  /\ Ring!KeyScanAssumption
  /\ Woken!KeyScanAssumption
  /\ IrKeys!IrSendAssumption
  /\ IrCode!IrSendAssumption
  /\ Learning!IrLearnAssumption
  /\ Led!LedEventsAssumption
  /\ Mic!MicEncoderAssumption
  /\ Audio!DongleAudioAssumption
  /\ Codec!AdpcmAssumption

ProtMoves ==
  part = "prot" /\ Next /\ UNCHANGED <<part, rc_vars, key_vars, irs_vars, irl_vars, led_vars, mic_vars, audio_vars, codec_vars>>
RcMoves ==
  part = "remote" /\ Rc!Next /\ UNCHANGED <<part, vars, key_vars, irs_vars, irl_vars, led_vars, mic_vars, audio_vars, codec_vars>>
CalmMoves ==
  part = "remote_calm" /\ Calm!Next /\ UNCHANGED <<part, vars, key_vars, irs_vars, irl_vars, led_vars, mic_vars, audio_vars, codec_vars>>
KeyboardMoves ==
  part = "keys" /\ Keyboard!Next /\ UNCHANGED <<part, vars, rc_vars, irs_vars, irl_vars, led_vars, mic_vars, audio_vars, codec_vars>>
RingMoves ==
  part = "keys_ring" /\ Ring!Next /\ UNCHANGED <<part, vars, rc_vars, irs_vars, irl_vars, led_vars, mic_vars, audio_vars, codec_vars>>
WokenMoves ==
  part = "keys_woken" /\ Woken!Next /\ UNCHANGED <<part, vars, rc_vars, irs_vars, irl_vars, led_vars, mic_vars, audio_vars, codec_vars>>
IrKeysMoves ==
  part = "ir_keys" /\ IrKeys!Next /\ UNCHANGED <<part, vars, rc_vars, key_vars, irl_vars, led_vars, mic_vars, audio_vars, codec_vars>>
IrCodeMoves ==
  part = "ir_code" /\ IrCode!Next /\ UNCHANGED <<part, vars, rc_vars, key_vars, irl_vars, led_vars, mic_vars, audio_vars, codec_vars>>
LearningMoves ==
  part = "ir_learn" /\ Learning!Next /\ UNCHANGED <<part, vars, rc_vars, key_vars, irs_vars, led_vars, mic_vars, audio_vars, codec_vars>>
LedMoves ==
  part = "led" /\ Led!Next /\ UNCHANGED <<part, vars, rc_vars, key_vars, irs_vars, irl_vars, mic_vars, audio_vars, codec_vars>>
MicMoves ==
  part = "mic" /\ Mic!Next /\ UNCHANGED <<part, vars, rc_vars, key_vars, irs_vars, irl_vars, led_vars, audio_vars, codec_vars>>
AudioMoves ==
  part = "audio" /\ Audio!Next /\ UNCHANGED <<part, vars, rc_vars, key_vars, irs_vars, irl_vars, led_vars, mic_vars, codec_vars>>
CodecMoves ==
  part = "codec" /\ Codec!Next /\ UNCHANGED <<part, vars, rc_vars, key_vars, irs_vars, irl_vars, led_vars, mic_vars, audio_vars>>

MCInit ==
  /\ part \in Parts /\ Init
  /\ Rc!Init /\ Keyboard!Init /\ IrKeys!Init /\ Learning!Init /\ Led!Init /\ Mic!Init /\ Audio!Init /\ Codec!Init
  /\ part = "prot" \/ (chip = Mid1060c8 /\ boot = 128 /\ sr = {})

MCNext ==
  \/ ProtMoves
  \/ RcMoves
  \/ CalmMoves
  \/ KeyboardMoves
  \/ RingMoves
  \/ WokenMoves
  \/ IrKeysMoves
  \/ IrCodeMoves
  \/ LearningMoves
  \/ LedMoves
  \/ MicMoves
  \/ AudioMoves
  \/ CodecMoves

\* The fairness each component assumes, while it moves.  A property that says that
\* something happens assumes its component's alone.
ProtFairness ==
  /\ WF_vars(part = "prot" /\ UnlockTurn)
  /\ WF_vars(part = "prot" /\ LockTurn)
MicFairness ==
  /\ WF_mic_vars(part = "mic" /\ Mic!Sampled)
  /\ WF_mic_vars(part = "mic" /\ Mic!Encode)
  /\ WF_mic_vars(part = "mic" /\ Mic!Send)
CalmFairness ==
  /\ WF_rc_vars(part = "remote_calm" /\ Calm!Scan)
  /\ WF_rc_vars(part = "remote_calm" /\ Calm!blt_pm_proc)
  /\ WF_rc_vars(part = "remote_calm" /\ Calm!Wake)
  /\ WF_rc_vars(part = "remote_calm" /\ Calm!LinkEnds)
  /\ WF_rc_vars(part = "remote_calm" /\ Calm!LedEnds)
  /\ WF_rc_vars(part = "remote_calm" /\ Calm!Minute)
LearnFairness ==
  /\ WF_irl_vars(part = "ir_learn" /\ Learning!Silence)
  /\ WF_irl_vars(part = "ir_learn" /\ Learning!StartEnds)
  /\ WF_irl_vars(part = "ir_learn" /\ Learning!ir_learn_detect)
LedFairness ==
  /\ WF_led_vars(part = "led" /\ Led!led_proc)
  /\ WF_led_vars(part = "led" /\ Led!Tick)

MCSpec == MCInit /\ [][MCNext]_all_vars

-----------------------------------------------------------------------------
(* Properties.                                                              *)

\* The debounced matrix is what two scans agreed on, its newest value is not
\* lost, a scan that stops has reported the release, no key appears that is not
\* down, and only a single held key repeats (keyboard.c).
KeysRight ==
  /\ [](/\ part = "keys" => Keyboard!TypeOK /\ Keyboard!Debounced /\ Keyboard!ReleasedWhenIdle
        /\ part \in {"keys", "keys_ring"} => Keyboard!NewestKept
        /\ part = "keys_ring" => Ring!TypeOK)
  /\ Keyboard!NoGhostKey
  /\ Keyboard!RepeatsHeldKey

\* Packets are half buffers without a gap, what waits is the newest, and nothing
\* is given up while there is room (tl_audio.c:640-740).
VoiceKept ==
  /\ [](Mic!TypeOK /\ Mic!NoGap /\ Mic!NewestWait /\ Mic!InOrder)
  /\ Mic!NothingLost
  /\ part = "mic" => (MicFairness => Mic!Heard)

\* The decoder follows the encoder's prediction over lost packets, and no code
\* leads away from the sample (adpcm.c).
CodecAgrees ==
  /\ [](Codec!TypeOK /\ Codec!SidesAgree)
  /\ Codec!NeverFurther

\* What the host hears of a decoded frame is that frame, and frames are decoded
\* once and in order, whenever the USB interrupt comes and however late the host
\* asks, while no frame comes into a full ring of coded ones (tl_audio.c:880-1000).
\* Frames that do are another matter (910-913): see the README.
SoundRight == Audio!TypeOK /\ Audio!PlaysDecoded /\ Audio!FramesInOrder /\ Audio!DecodedFits

\* What keeps the remote awake follows the keys, the microphone is on only with a
\* key down and a link, and the remote can be reached; with a user who holds one
\* key at a time and lets each be reported, no key is left down at the host
\* (app_ui.c, app.c:170-400).
RemoteRight ==
  /\ part = "remote" =>
       Rc!TypeOK /\ Rc!KeyStateRight /\ Rc!MicWhileHeld /\ Rc!NeverMute
  /\ part = "remote_calm" => Calm!TypeOK /\ Calm!NoStuckKey

\* With one key at a time the infrared LED sends the code of a key only while that
\* key is down, repeats stop with it, and each press is sent; nothing is sent in
\* silence; and a code that was learned is the one that came in, wherever the
\* interrupts fall (rc_ir.c, rc_ir_learn.c).
InfraredRight ==
  /\ [](/\ part = "ir_keys" => IrKeys!TypeOK
        /\ part = "ir_code" => IrCode!TypeOK /\ IrCode!SendsHeld /\ IrCode!StopsWithKeys
        /\ IrKeys!NoSilentSending
        /\ Learning!TypeOK /\ Learning!LearnedRight)
  /\ [][part = "ir_code" => IrCode!PressSends]_irs_vars

\* An LED event shines as often and as long as it says and gives way only to one
\* of higher priority, and the lateness of the main loop does not add up
\* (blt_led.c:65-122).
LedRight ==
  /\ [](Led!TypeOK /\ Led!ShoneAsAsked /\ Led!NoDrift)
  /\ Led!Protected

\* A remote nobody touches ends in deep sleep (app.c:330-400); the LED and the
\* learning of a code, which keep it awake, end; and no lock or unlock hangs it,
\* however often the chip refuses a write (flash_prot.c:483).
ComesToRest ==
  /\ part = "remote_calm" => (CalmFairness => Calm!Sleeps)
  /\ part = "ir_learn" => (LearnFairness => Learning!LearningEnds)
  /\ part = "led" => (LedFairness => Led!Shines)
  /\ part = "prot" => (ProtFairness => CallsEnd)
=============================================================================
