------------------------------ MODULE DongleAudio ------------------------------
(***************************************************************************)
(* The voice of the dongle (application/audio/tl_audio.c, mode              *)
(* TL_AUDIO_DONGLE_ADPCM_GATT_TELINK, and the main loop of                  *)
(* vendor/ble_master_kma_dongle): the main loop puts coded frames into a    *)
(* ring of four, decodes them into a second ring of four, and the USB       *)
(* interrupt plays that ring in chunks of one millisecond.  A frame is F    *)
(* half chunks: 248 samples and 8 make 31.  A frame carries the value of    *)
(* abuf_mic_wptr it came with, a decoded frame the value of abuf_dec_wptr.  *)
(***************************************************************************)
EXTENDS Integers

CONSTANTS
  F,          \* MIC_SHORT_DEC_SIZE / (USB_ISO_IN_SIZE / 2)
  W,          \* the frame counters count modulo W (256), a multiple of 4 above the five the code counts
  RESET,      \* packets of silence after a reset (16)
  Steady      \* no frame comes while the ring of coded frames is full

DongleAudioAssumption ==
  F \in Nat \ {0, 1} /\ W \in Nat \ {0} /\ W % 4 = 0 /\ W > 5 /\ RESET \in Nat \ {0} /\ Steady \in BOOLEAN

VARIABLES
  mic_wptr, dec_wptr,   \* abuf_mic_wptr, abuf_dec_wptr
  dec_rptr,             \* abuf_dec_rptr, in half chunks
  abuf_mic,             \* the frame in each slot
  abuf_dec,             \* in each slot the frame, and the dec_wptr it was decoded at
  abuf_reset,
  start,                \* static of abuf_mic_dec
  buffer_empty, n_usb_iso,  \* statics of abuf_dec_usb
  pc,                   \* where the main loop was interrupted
  played                \* half chunks of the last USB packet: [want, got, decoded]

vars == <<mic_wptr, dec_wptr, dec_rptr, abuf_mic, abuf_dec, abuf_reset, start, buffer_empty,
          n_usb_iso, pc, played>>

Slot == 0..3
None == -1

Init ==
  /\ mic_wptr = 0 /\ dec_wptr = 0 /\ dec_rptr = 0 /\ abuf_reset = 0
  /\ abuf_mic = [s \in Slot |-> None] /\ abuf_dec = [s \in Slot |-> [frame |-> None, at |-> None]]
  /\ start = TRUE /\ buffer_empty = TRUE /\ n_usb_iso = 0 /\ pc = "loop" /\ played = {}

\* Differences of the counters, as u8.
Ahead(a, b) == (a - b) % W
Playing(r) == r \div F
num_mic == Ahead(mic_wptr, dec_wptr)
num_dec == Ahead(dec_wptr, Playing(dec_rptr))

-----------------------------------------------------------------------------
(* The main loop.                                                          *)

\* att_mic, called by the stack when a notification came.
abuf_mic_add ==
  /\ pc = "loop" /\ (Steady => num_mic < 4)
  /\ abuf_mic' = [abuf_mic EXCEPT ![mic_wptr % 4] = mic_wptr]
  /\ mic_wptr' = (mic_wptr + 1) % W
  /\ UNCHANGED <<dec_wptr, dec_rptr, abuf_dec, abuf_reset, start, buffer_empty, n_usb_iso, pc, played>>

\* proc_audio after 200 ms without a frame; the interrupt may come between the two assignments.
abuf_init ==
  \/ /\ pc = "loop" /\ pc' = "init" /\ mic_wptr' = 0 /\ dec_wptr' = 0
     /\ UNCHANGED <<dec_rptr, abuf_mic, abuf_dec, abuf_reset, start, buffer_empty, n_usb_iso, played>>
  \/ /\ pc = "init" /\ pc' = "dec" /\ abuf_reset' = RESET
     /\ UNCHANGED <<mic_wptr, dec_wptr, dec_rptr, abuf_mic, abuf_dec, start, buffer_empty,
                    n_usb_iso, played>>

\* A mistake: a frame more than the ring of decoded frames holds.
RoomForFive == num_dec <= 4
RoomToDecode == num_dec <= 3

\* Two frames to begin with, then one.
Enough == num_mic >= (IF start THEN 2 ELSE 1)

\* abuf_mic_dec while a reset lasts: what came is thrown away.
Discard ==
  /\ pc \in {"loop", "dec"} /\ abuf_reset # 0
  /\ dec_wptr' = mic_wptr /\ pc' = "loop"
  /\ UNCHANGED <<mic_wptr, dec_rptr, abuf_mic, abuf_dec, abuf_reset, start, buffer_empty, n_usb_iso,
                 played>>

\* abuf_mic_dec up to the end of adpcm_to_pcm.
abuf_mic_dec ==
  /\ pc \in {"loop", "dec"} /\ abuf_reset = 0
  /\ \E w \in {IF num_mic > 4 THEN (dec_wptr + 1) % W ELSE dec_wptr} :
       /\ dec_wptr' = w
       /\ \/ /\ num_dec > 4
             /\ abuf_reset' = RESET /\ start' = TRUE /\ pc' = "loop" /\ UNCHANGED abuf_dec
          \/ /\ num_dec <= 4 /\ Enough /\ RoomToDecode
             /\ abuf_dec' = [abuf_dec EXCEPT ![w % 4] = [frame |-> abuf_mic[w % 4], at |-> w]]
             /\ pc' = "decoded" /\ UNCHANGED <<abuf_reset, start>>
          \/ /\ num_dec <= 4 /\ ~(Enough /\ RoomToDecode)
             /\ pc' = "loop" /\ UNCHANGED <<abuf_dec, abuf_reset, start>>
  /\ UNCHANGED <<mic_wptr, dec_rptr, abuf_mic, buffer_empty, n_usb_iso, played>>

Decoded ==
  /\ pc = "decoded" /\ pc' = "loop"
  /\ dec_wptr' = (dec_wptr + 1) % W /\ start' = FALSE
  /\ UNCHANGED <<mic_wptr, dec_rptr, abuf_mic, abuf_dec, abuf_reset, buffer_empty, n_usb_iso, played>>

-----------------------------------------------------------------------------
(* The USB interrupt.                                                      *)

\* The half chunk at h of a packet that begins at r: the frame wanted, what the ring holds, and
\* whether that frame is decoded and the interrupt did not meet abuf_init half done.
Wrap(h) == h % (F * W)
Half(h, r, num) ==
  [want |-> Playing(h), got |-> abuf_dec[Playing(h) % 4], 
   decoded |-> pc # "init" /\ Ahead(Playing(h), Playing(r)) < num]

Advance(r) == IF r + 2 >= F * W THEN 0 ELSE r + 2

\* Playing begins with three frames and goes on while there is one.
MayPlay(num, n) == num # 0 /\ (IF buffer_empty THEN num >= 3 ELSE num >= 1 \/ n # 0)

\* abuf_dec_usb; late: the host did not ask for 4 ms.
abuf_dec_usb(late) ==
  \E res \in {IF late THEN RESET ELSE abuf_reset}, n \in {(n_usb_iso + 1) % 4} :
  \E r \in {IF res # 0 THEN dec_wptr * F ELSE dec_rptr} :
  \E num \in {Ahead(dec_wptr, Playing(r))} :
    /\ abuf_reset' = (IF res # 0 THEN res - 1 ELSE res) /\ n_usb_iso' = n
    /\ IF MayPlay(num, n)
         THEN /\ played' = {Half(h, r, num) : h \in {r, Wrap(r + 1)}}
              /\ dec_rptr' = Advance(r)
              /\ buffer_empty' = FALSE
         ELSE /\ played' = {} /\ dec_rptr' = r
              /\ buffer_empty' = (num = 0 \/ buffer_empty)
    /\ UNCHANGED <<mic_wptr, dec_wptr, abuf_mic, abuf_dec, start, pc>>

Usb == abuf_dec_usb(FALSE)
UsbLate == abuf_dec_usb(TRUE)

Next == abuf_mic_add \/ abuf_init \/ Discard \/ abuf_mic_dec \/ Decoded \/ Usb \/ UsbLate
Spec == Init /\ [][Next]_vars

-----------------------------------------------------------------------------
Counter == 0..(W - 1)

\* Type invariant.
TypeOK ==
  /\ mic_wptr \in Counter /\ dec_wptr \in Counter /\ dec_rptr \in 0..(F * W - 1)
  /\ abuf_mic \in [Slot -> Counter \union {None}] /\ abuf_reset \in 0..RESET
  /\ n_usb_iso \in 0..3 /\ pc \in {"loop", "init", "dec", "decoded"}

\* What the host hears of a decoded frame is that frame, never one the decoder has put over it and
\* never an old one (tl_audio.c:910-923, 955-985).  The interrupt that meets abuf_init half done is
\* left out, and so is the end of a chunk that runs past the last decoded frame: the code looks at
\* the frame the chunk begins in only.
PlaysDecoded == \A h \in played : h.decoded => h.got.at = h.want

\* A decoded frame is the one that came at its place: no frame is decoded twice or out of order.
FramesInOrder == \A s \in Slot : abuf_dec[s].frame = abuf_dec[s].at

\* The ring of decoded frames never holds more than its four slots.
DecodedFits == pc = "loop" /\ abuf_reset = 0 => num_dec <= 4
=============================================================================
