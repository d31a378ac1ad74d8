------------------------------ MODULE MicEncoder ------------------------------
(***************************************************************************)
(* The voice of the remote (application/audio/tl_audio.c, mode              *)
(* TL_AUDIO_RCU_ADPCM_GATT_TLEINK): DMA writes samples round a buffer, the   *)
(* main loop codes each half of it into a ring of packets and hands the     *)
(* oldest packet to the link when that has room.  Samples are numbered.     *)
(***************************************************************************)
EXTENDS Integers, Sequences, SequencesExt

CONSTANTS
  H,            \* samples of half the buffer (TL_MIC_BUFFER_SIZE >> 2)
  N,            \* TL_MIC_PACKET_BUFFER_NUM, a power of two
  W,            \* the packet counters count modulo W (256), a multiple of 2 * N
  MaxSamples,   \* samples of a session, to bound the runs
  Sessions,     \* times the microphone is switched on
  Prompt        \* the main loop comes by once in every half buffer

MicEncoderAssumption ==
  /\ H \in Nat \ {0} /\ N \in Nat \ {0} /\ W \in Nat \ {0} /\ W % (2 * N) = 0
  /\ MaxSamples \in Nat /\ Sessions \in Nat /\ Prompt \in BOOLEAN

VARIABLES
  mic,      \* ui_mic_enable
  session,
  now,      \* samples of this session
  buffer,   \* buffer_mic: [session, number] of the sample in each place
  age,      \* samples since the main loop last ran proc_mic_encoder
  rptr,     \* buffer_mic_rptr, a static that no session resets
  wp, rp,   \* buffer_mic_pkt_wptr, buffer_mic_pkt_rptr
  enc,      \* buffer_mic_enc: packets
  coded,    \* packets coded in this session, in order
  out       \* packets the link took in this session, in order

vars == <<mic, session, now, buffer, age, rptr, wp, rp, enc, coded, out>>

Size == 2 * H
Silence == <<0, 0>>
Blank == [i \in 1..H |-> Silence]

Init ==
  /\ mic = FALSE /\ session = 0 /\ now = 0 /\ buffer = [i \in 0..(Size - 1) |-> Silence]
  /\ age = 0 /\ rptr = 0 /\ wp = 0 /\ rp = 0 /\ enc = [i \in 0..(N - 1) |-> Blank]
  /\ coded = <<>> /\ out = <<>>

\* audio_config_mic_buf starts DMA at the first place; ui_enable_mic clears the packet counters.
On ==
  /\ ~mic /\ session < Sessions
  /\ mic' = TRUE /\ session' = session + 1 /\ now' = 0 /\ age' = 0 /\ wp' = 0 /\ rp' = 0
  /\ coded' = <<>> /\ out' = <<>>
  /\ UNCHANGED <<buffer, rptr, enc>>

Off ==
  /\ mic /\ mic' = FALSE /\ wp' = 0 /\ rp' = 0
  /\ UNCHANGED <<session, now, buffer, age, rptr, enc, coded, out>>

get_mic_wr_ptr == now % Size

Sampled ==
  /\ mic /\ now < MaxSamples /\ (Prompt => age < H)
  /\ buffer' = [buffer EXCEPT ![get_mic_wr_ptr] = <<session, now + 1>>]
  /\ now' = now + 1 /\ age' = age + 1
  /\ UNCHANGED <<mic, session, rptr, wp, rp, enc, coded, out>>

-----------------------------------------------------------------------------
(* proc_mic_encoder.                                                       *)

HalfReady == IF get_mic_wr_ptr >= rptr THEN get_mic_wr_ptr - rptr >= H ELSE TRUE

Half == [i \in 1..H |-> buffer[rptr + i - 1]]

\* Packets in the ring, and the oldest given up for a new one.
Pkts(w, r) == (w - r) % (2 * N)
\* A mistake: it is given up while there is still room.
OldestEarly(w) == IF Pkts(w, rp) >= N THEN (rp + 1) % W ELSE rp
OldestAfter(w) == IF Pkts(w, rp) > N THEN (rp + 1) % W ELSE rp

proc_mic_encoder ==
  IF HalfReady
    THEN /\ enc' = [enc EXCEPT ![wp % N] = Half]
         /\ rptr' = IF rptr = 0 THEN H ELSE 0
         /\ wp' = (wp + 1) % W /\ rp' = OldestAfter((wp + 1) % W)
         /\ coded' = Append(coded, Half)
    ELSE UNCHANGED <<enc, rptr, wp, rp, coded>>

Encode ==
  /\ mic /\ proc_mic_encoder /\ age' = 0
  /\ UNCHANGED <<mic, session, now, buffer, out>>

\* mic_encoder_data_buffer, the notification the link accepts, mic_encoder_data_read_ok.  A link
\* without room leaves the packet where it is.
mic_encoder_data_buffer == enc[rp % N]
Send ==
  /\ mic /\ rp # wp
  /\ out' = Append(out, mic_encoder_data_buffer) /\ rp' = (rp + 1) % W
  /\ UNCHANGED <<mic, session, now, buffer, age, rptr, wp, enc, coded>>

\* task_audio is the two together; a pass that sends nothing changes what Encode changes.
Next == On \/ Off \/ Sampled \/ Encode \/ Send

Fairness == WF_vars(Sampled) /\ WF_vars(Encode) /\ WF_vars(Send)
Spec == Init /\ [][Next]_vars /\ Fairness

-----------------------------------------------------------------------------
\* Type invariant.
TypeOK ==
  /\ mic \in BOOLEAN /\ session \in 0..Sessions /\ now \in 0..MaxSamples /\ rptr \in {0, H}
  /\ wp \in 0..(W - 1) /\ rp \in 0..(W - 1) /\ age \in 0..MaxSamples
  /\ Pkts(wp, rp) <= N

\* Every packet of a session but its first is one half buffer without a gap or a tear, and it
\* follows on the one before.  The first may hold what the session before left in the second half,
\* for buffer_mic_rptr is not reset (tl_audio.c:654-658).
Whole(p) == \A i \in 2..H : p[i][1] = p[1][1] /\ p[i][2] = p[i - 1][2] + 1
NoGap ==
  \A k \in 2..Len(coded) :
    /\ Whole(coded[k]) /\ coded[k][1][1] = session
    /\ k > 2 => coded[k][1][2] = coded[k - 1][H][2] + 1

\* The link gets the packets in order and none twice; what it misses are the oldest packets of a
\* full ring: what waits is the newest (tl_audio.c:724-731).
Waiting == [i \in 1..Pkts(wp, rp) |-> enc[(rp + i - 1) % N]]
NewestWait ==
  mic => IsSuffix(Waiting, coded)
Order ==
  \A i, j \in 1..Len(out) : i < j /\ j > 1 /\ i > 1 => out[i][1][2] < out[j][1][2]
InOrder == Order /\ \A i \in 1..Len(out) : \E k \in 1..Len(coded) : out[i] = coded[k]

\* While there is room in the ring nothing is given up: a ring of N packets rides out a link that is
\* stuck for N packets.
NothingLost ==
  [][mic /\ mic' /\ Pkts(wp, rp) < N /\ rp' # rp => out' # out]_vars

\* While the microphone is on and someone speaks, packets go out.
Heard == \A k \in 1..Sessions : (session = k /\ mic /\ now = 0) ~> (~mic \/ Len(out) > 0)
=============================================================================
