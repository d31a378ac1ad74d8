--------------------------------- MODULE Adpcm ---------------------------------
(***************************************************************************)
(* The ADPCM codec of the voice link (application/audio/adpcm.c, the modes  *)
(* TL_AUDIO_RCU_ADPCM_GATT_TLEINK and TL_AUDIO_DONGLE_ADPCM_GATT_TELINK):   *)
(* the remote codes one sample in four bits against its prediction, and     *)
(* puts prediction and step index at the head of every packet; the dongle   *)
(* decodes the packets that reach it.  A voice is any samples at first and  *)
(* one held sample at the end.                                             *)
(***************************************************************************)
EXTENDS Integers, Sequences

CONSTANTS
  Voice,        \* values of the samples that change
  Held,         \* values of the sample held at the end
  Changes,      \* number of samples before that
  Len_,         \* samples of a packet (TL_MIC_ADPCM_UNIT_SIZE)
  Losses        \* packets dropped before they reach the dongle

Sample == -32768..32767

AdpcmAssumption ==
  Voice \subseteq Sample /\ Held \subseteq Sample /\ Changes \in Nat /\ Len_ \in Nat \ {0}
  /\ Losses \in Nat

VARIABLES
  enc,      \* the statics of mic_to_adpcm_split: predict, predict_idx
  pkt,      \* the packet being filled: header and codes
  air,      \* the packet in transit
  dec,      \* predict and predict_idx where adpcm_to_pcm ended
  pcm,      \* the samples it wrote for its last packet
  shadow,   \* predictions of the encoder for the packet in transit or in hand
  taken,    \* samples that changed so far
  held,     \* the held sample, or none
  lost

vars == <<enc, pkt, air, dec, pcm, shadow, taken, held, lost>>

None == 65536
NoPacket == [predict |-> None, predict_idx |-> 0, codes |-> <<>>]

-----------------------------------------------------------------------------
(* One sample.                                                             *)

idxtbl == <<-1, -1, -1, -1, 2, 4, 6, 8, -1, -1, -1, -1, 2, 4, 6, 8>>
steptbl ==
  <<7, 8, 9, 10, 11, 12, 13, 14, 16, 17,
    19, 21, 23, 25, 28, 31, 34, 37, 41, 45,
    50, 55, 60, 66, 73, 80, 88, 97, 107, 118,
    130, 143, 157, 173, 190, 209, 230, 253, 279, 307,
    337, 371, 408, 449, 494, 544, 598, 658, 724, 796,
    876, 963, 1060, 1166, 1282, 1411, 1552, 1707, 1878, 2066,
    2272, 2499, 2749, 3024, 3327, 3660, 4026, 4428, 4871, 5358,
    5894, 6484, 7132, 7845, 8630, 9493, 10442, 11487, 12635, 13899,
    15289, 16818, 18500, 20350, 22385, 24623, 27086, 29794, 32767>>

Step(idx) == steptbl[idx + 1]
Abs(x) == IF x < 0 THEN -x ELSE x
Clip(x, lo, hi) == IF x > hi THEN hi ELSE IF x < lo THEN lo ELSE x

\* What the encoder takes of a difference: the bits of weight 4, 2 and 1 and their sum.
Quantize(diff, step) ==
  LET b4 == diff >= step
      d2 == IF b4 THEN diff - step ELSE diff
      b2 == d2 >= step \div 2
      d1 == IF b2 THEN d2 - step \div 2 ELSE d2
      b1 == d1 >= step \div 4
  IN [mag |-> (IF b4 THEN 4 ELSE 0) + (IF b2 THEN 2 ELSE 0) + (IF b1 THEN 1 ELSE 0),
      diffq |-> step \div 8 + (diff - d1) + (IF b1 THEN step \div 4 ELSE 0)]

\* The difference the decoder makes of those bits.
\* A mistake: without the eighth of a step.
DiffqBare(mag, step) ==
  (IF mag >= 4 THEN step ELSE 0)
  + (IF mag % 4 >= 2 THEN step \div 2 ELSE 0) + (IF mag % 2 = 1 THEN step \div 4 ELSE 0)
Diffq(mag, step) ==
  step \div 8 + (IF mag >= 4 THEN step ELSE 0)
  + (IF mag % 4 >= 2 THEN step \div 2 ELSE 0) + (IF mag % 2 = 1 THEN step \div 4 ELSE 0)

\* Prediction and index after a code; 8 is the sign.
Adapt(s, code, d) ==
  [predict |-> Clip(IF code >= 8 THEN s.predict - d ELSE s.predict + d, -32768, 32767),
   predict_idx |-> Clip(s.predict_idx + idxtbl[code + 1], 0, 88)]

\* One turn of the loop of mic_to_adpcm_split: the code of a sample and the state after it.
Coded(s, di) ==
  LET diff == di - s.predict
      q == Quantize(Abs(diff), Step(s.predict_idx))
      code == (IF diff >= 0 THEN 0 ELSE 8) + q.mag
  IN [code |-> code, next |-> Adapt(s, code, q.diffq)]

-----------------------------------------------------------------------------
(* The two sides.                                                          *)

Start == [predict |-> 0, predict_idx |-> 0]

Init ==
  /\ enc = Start /\ dec = Start /\ pkt = NoPacket /\ air = NoPacket /\ pcm = <<>>
  /\ shadow = <<>> /\ taken = 0 /\ held = None /\ lost = 0

\* The head that mic_to_adpcm_split writes when it starts a packet.
HeadOf(s) == [predict |-> s.predict, predict_idx |-> s.predict_idx, codes |-> <<>>]

\* mic_to_adpcm_split, one sample of its loop.
Encode(di) ==
  /\ air = NoPacket
  /\ \E p \in {IF pkt = NoPacket THEN HeadOf(enc) ELSE pkt}, c \in {Coded(enc, di)} :
       /\ enc' = c.next
       /\ shadow' = IF pkt = NoPacket THEN <<enc'.predict>> ELSE Append(shadow, enc'.predict)
       /\ \E full \in {[p EXCEPT !.codes = Append(@, c.code)]} :
            IF Len(full.codes) = Len_ THEN air' = full /\ pkt' = NoPacket
            ELSE pkt' = full /\ UNCHANGED air
  /\ UNCHANGED <<dec, pcm, lost>>

Speak ==
  \E di \in Voice :
    taken < Changes /\ held = None /\ taken' = taken + 1 /\ UNCHANGED held /\ Encode(di)

Hold ==
  /\ taken = Changes /\ UNCHANGED taken
  /\ \E di \in Held : held \in {None, di} /\ held' = di /\ Encode(di)

Decoded(s, code) == Adapt(s, code, Diffq(code % 8, Step(s.predict_idx)))

\* adpcm_to_pcm: the state of the head, then one sample after the other.
Run(p) ==
  LET f[i \in 0..Len(p.codes)] ==
        IF i = 0 THEN [predict |-> p.predict, predict_idx |-> p.predict_idx]
        ELSE Decoded(f[i - 1], p.codes[i])
  IN f
adpcm_to_pcm(p) == LET f == Run(p) IN [i \in 1..Len(p.codes) |-> f[i].predict]

Decode ==
  /\ air # NoPacket
  /\ pcm' = adpcm_to_pcm(air) /\ dec' = Run(air)[Len(air.codes)]
  /\ air' = NoPacket
  /\ UNCHANGED <<enc, pkt, shadow, taken, held, lost>>

\* The ring of the remote drops its oldest packet, or the link is lost.
Lose ==
  /\ air # NoPacket /\ lost < Losses /\ lost' = lost + 1
  /\ air' = NoPacket /\ pcm' = <<>>
  /\ UNCHANGED <<enc, pkt, dec, shadow, taken, held>>

Next == Speak \/ Hold \/ Decode \/ Lose

Spec == Init /\ [][Next]_vars

-----------------------------------------------------------------------------
State == [predict : Sample, predict_idx : 0..88]

\* Type invariant: predictions fit sixteen bits, the index the step table, codes four bits.
TypeOK ==
  /\ enc \in State /\ dec \in State
  /\ \A p \in {pkt, air} : p = NoPacket \/
       /\ [predict |-> p.predict, predict_idx |-> p.predict_idx] \in State
       /\ Len(p.codes) \in 1..Len_ /\ \A i \in DOMAIN p.codes : p.codes[i] \in 0..15
  /\ taken \in 0..Changes /\ held \in Held \union {None} /\ lost \in 0..Losses

\* What the dongle plays is sample by sample what the encoder predicted, whatever packets were
\* lost before: the two sides cannot drift apart (adpcm.c:64-72, 294-295).
SidesAgree == air = NoPacket /\ pkt = NoPacket /\ pcm # <<>> => pcm = shadow /\ dec = enc

\* A coded sample is never further from the new prediction than it was from the old one, save
\* by the eighth of a step that is always added: no overshoot by overflow at full scale
\* (adpcm.c:89-117).
NeverFurther ==
  [][\A di \in Voice \union Held :
       enc' # enc /\ enc' = Coded(enc, di).next =>
         \/ Abs(di - enc'.predict) <= Step(enc.predict_idx) \div 8
         \/ Abs(di - enc'.predict) <= Abs(di - enc.predict)]_vars
=============================================================================
