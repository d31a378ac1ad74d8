-------------------------- MODULE RemotePartProofs ---------------------------
(***************************************************************************)
(* Proofs about parts of the remote control's program: the voice of the    *)
(* dongle, for frames of any length, counters of any width and any time of *)
(* silence after a reset; the remote itself, for any keys, any room for    *)
(* reports and any number of links lost; the LED, for any events; the key  *)
(* scan, for up to four rows of any number of columns; and the infrared    *)
(* codes it learns and sends, for any carrier and any keys.                *)
(***************************************************************************)
EXTENDS DongleAudio, Sequences, FiniteSetTheorems, WellFoundedInduction, TLAPS

\* The coded frames not decoded yet lie in their slots.
CodedInv ==
  /\ num_mic <= 4
  /\ \A c \in Counter : Ahead(c, dec_wptr) < num_mic => abuf_mic[c % 4] = c

\* So do the decoded frames not played yet, outside a reset; and the frame that
\* was decoded but is not counted.
DecodedInv ==
  /\ abuf_reset = 0 /\ pc # "init" =>
       /\ num_dec <= (IF pc = "decoded" THEN 3 ELSE 4)
       /\ \A c \in Counter : Ahead(c, Playing(dec_rptr)) < num_dec => abuf_dec[c % 4].at = c
  /\ pc = "decoded" => num_mic >= 1 /\ abuf_dec[dec_wptr % 4].at = dec_wptr

SlotType == abuf_dec \in [Slot -> [frame : Int, at : Int]]

IInv == TypeOK /\ SlotType /\ CodedInv /\ DecodedInv /\ FramesInOrder /\ PlaysDecoded

-----------------------------------------------------------------------------
(***************************************************************************)
(* The counters, which count modulo W.                                     *)
(***************************************************************************)
LEMMA Constants ==
  ASSUME DongleAudioAssumption
  PROVE  /\ F \in Nat /\ F >= 2 /\ W \in Nat /\ W > 5 /\ W % 4 = 0 /\ RESET \in Nat /\ RESET >= 1
         /\ W \in Nat \ {0}
BY DEF DongleAudioAssumption

LEMMA Modulus ==
  ASSUME NEW n \in Nat \ {0}, NEW a \in Int
  PROVE  /\ a % n \in 0 .. n - 1
         /\ 0 <= a /\ a < n => a % n = a
         /\ -n <= a /\ a < 0 => a % n = a + n
         /\ a = n => a % n = 0
<1>1. a % n \in 0 .. n - 1
  BY SMT
<1>2. 0 <= a /\ a < n => a % n = a
  BY SMT
<1>3. -n <= a /\ a < 0 => a % n = a + n
  BY SMT
<1>4. n % n = 0
  BY SMT
<1> QED
  BY <1>1, <1>2, <1>3, <1>4

\* The counter after c.
After(c) == IF c = W - 1 THEN 0 ELSE c + 1

LEMMA CounterFacts ==
  ASSUME DongleAudioAssumption, NEW a \in Counter, NEW b \in Counter
  PROVE  /\ Ahead(a, b) = IF b <= a THEN a - b ELSE (a - b) + W
         /\ Ahead(a, b) \in Counter /\ (a + 1) % W = After(a) /\ After(a) \in Counter
<1>1. a \in Int /\ b \in Int /\ 0 <= a /\ a < W /\ 0 <= b /\ b < W /\ a - b \in Int /\ a + 1 \in Int
  BY Constants DEF Counter
<1>2. Ahead(a, b) = IF b <= a THEN a - b ELSE (a - b) + W
  <2>1. W \in Nat \ {0}
    BY Constants
  <2>2. CASE b <= a
    <3>1. 0 <= a - b /\ a - b < W
      BY <1>1, <2>1, <2>2
    <3> QED
      BY <1>1, <2>1, <2>2, <3>1, Modulus DEF Ahead
  <2>3. CASE ~ (b <= a)
    <3>1. -W <= a - b /\ a - b < 0
      BY <1>1, <2>1, <2>3
    <3> QED
      BY <1>1, <2>1, <2>3, <3>1, Modulus DEF Ahead
  <2> QED
    BY <2>2, <2>3
<1>3. (a + 1) % W = After(a)
  <2>1. W \in Nat \ {0}
    BY Constants
  <2>2. CASE a = W - 1
    BY <1>1, <2>1, <2>2, Modulus DEF After
  <2>3. CASE a # W - 1
    <3>1. 0 <= a + 1 /\ a + 1 < W
      BY <1>1, <2>1, <2>3
    <3> QED
      BY <1>1, <2>1, <2>3, <3>1, Modulus DEF After
  <2> QED
    BY <2>2, <2>3
<1>4. Ahead(a, b) \in Counter /\ After(a) \in Counter
  BY <1>1, <1>2, Constants DEF Counter, After
<1> QED
  BY <1>2, <1>3, <1>4

\* Distances add up.
LEMMA Distances ==
  ASSUME DongleAudioAssumption, NEW a \in Counter, NEW b \in Counter, NEW c \in Counter
  PROVE  /\ Ahead(c, a) = Ahead(b, a) <=> c = b
         /\ Ahead(c, a) < Ahead(b, a) => Ahead(b, c) = Ahead(b, a) - Ahead(c, a)
         /\ Ahead(b, a) # W - 1 => Ahead(After(b), a) = Ahead(b, a) + 1
         /\ Ahead(b, a) # 0 => Ahead(b, After(a)) = Ahead(b, a) - 1
         /\ Ahead(a, a) = 0
<1>1. /\ a \in Int /\ b \in Int /\ c \in Int /\ 0 <= a /\ a < W /\ 0 <= b /\ b < W /\ 0 <= c /\ c < W
      /\ W \in Int /\ W > 5
  BY Constants DEF Counter
<1>2. After(a) \in Counter /\ After(b) \in Counter
  BY CounterFacts
<1>3. Ahead(c, a) = IF a <= c THEN c - a ELSE (c - a) + W
  BY CounterFacts
<1>4. Ahead(b, a) = IF a <= b THEN b - a ELSE (b - a) + W
  BY CounterFacts
<1>5. Ahead(b, c) = IF c <= b THEN b - c ELSE (b - c) + W
  BY CounterFacts
<1>6. Ahead(After(b), a) = IF a <= After(b) THEN After(b) - a ELSE (After(b) - a) + W
  BY <1>2, CounterFacts
<1>7. Ahead(b, After(a)) = IF After(a) <= b THEN b - After(a) ELSE (b - After(a)) + W
  BY <1>2, CounterFacts
<1>8. Ahead(a, a) = 0
  BY <1>1, CounterFacts
<1>9. Ahead(c, a) = Ahead(b, a) <=> c = b
  BY <1>1, <1>3, <1>4
<1>10. Ahead(c, a) < Ahead(b, a) => Ahead(b, c) = Ahead(b, a) - Ahead(c, a)
  BY <1>1, <1>3, <1>4, <1>5
<1>11. Ahead(b, a) # W - 1 => Ahead(After(b), a) = Ahead(b, a) + 1
  BY <1>1, <1>4, <1>6 DEF After
<1>12. Ahead(b, a) # 0 => Ahead(b, After(a)) = Ahead(b, a) - 1
  BY <1>1, <1>4, <1>7 DEF After
<1> QED
  BY <1>8, <1>9, <1>10, <1>11, <1>12

\* Three frames in a row after c lie in other slots than c.
LEMMA SlotsApart ==
  ASSUME DongleAudioAssumption, NEW b \in Counter, NEW c \in Counter, Ahead(b, c) \in 1 .. 3
  PROVE  c % 4 # b % 4
<1>1. /\ b \in Int /\ c \in Int /\ W \in Int /\ W % 4 = 0
  BY Constants DEF Counter
<1>2. PICK d \in 1 .. 3 : b = c + d \/ b = (c + d) - W
  <2>1. Ahead(b, c) = IF c <= b THEN b - c ELSE (b - c) + W
    BY CounterFacts
  <2> QED
    BY <1>1, <2>1
<1> QED
  BY <1>1, <1>2

LEMMA SlotIs == ASSUME DongleAudioAssumption, NEW c \in Counter PROVE c % 4 \in Slot
BY Constants DEF Counter, Slot

-----------------------------------------------------------------------------
(***************************************************************************)
(* Half chunks: frame q is the half chunks F * q to F * q + F - 1.         *)
(***************************************************************************)
LEMMA FrameOf ==
  ASSUME NEW n \in Nat \ {0}, NEW q \in Int, NEW m \in 0 .. n - 1
  PROVE  (n * q + m) \div n = q
BY SMT

LEMMA Split ==
  ASSUME NEW n \in Nat \ {0}, NEW x \in Int
  PROVE  \E q \in Int : \E m \in 0 .. n - 1 : x = n * q + m
<1>1. x % n \in 0 .. n - 1
  BY SMT
<1>2. x \div n \in Int
  BY SMT
<1>3. x = n * (x \div n) + (x % n)
  BY Z3
<1> QED
  BY ONLY <1>1, <1>2, <1>3

\* A step of one or two half chunks stays in the frame or goes on to the next.
LEMMA StepOfFrame ==
  ASSUME NEW n \in Nat, n >= 2, NEW w \in Nat, w >= 1, NEW x \in 0 .. n * w - 1, NEW s \in {1, 2}
  PROVE  /\ x \div n \in 0 .. w - 1
         /\ x + s < n * w => (x + s) \div n = x \div n \/ (x + s) \div n = x \div n + 1
         /\ x + s >= n * w => x \div n = w - 1
<1>0. n \in Nat \ {0} /\ x \in Int /\ 0 <= x /\ x < n * w
  OBVIOUS
<1>1. PICK q \in Int, m \in 0 .. n - 1 : x = n * q + m
  BY <1>0, Split
<1>2. x \div n = q
  BY <1>0, <1>1, FrameOf
<1>3. n * (q + 1) = n * q + n
  OBVIOUS
<1>4. 0 <= q
  <2>1. ASSUME q <= -1 PROVE FALSE
    <3>1. n * q <= n * (-1)
      BY <2>1, SMT
    <3> QED
      BY <1>0, <1>1, <3>1
  <2> QED
    BY <2>1
<1>5. q <= w - 1
  <2>1. ASSUME q >= w PROVE FALSE
    <3>1. n * q >= n * w
      BY <2>1, SMT
    <3> QED
      BY <1>0, <1>1, <3>1
  <2> QED
    BY <2>1
<1>6. (x + s) \div n = q \/ (x + s) \div n = q + 1
  <2>1. CASE m + s < n
    <3>1. m + s \in 0 .. n - 1 /\ x + s = n * q + (m + s)
      BY <1>1, <2>1
    <3> QED
      BY <1>0, <3>1, FrameOf
  <2>2. CASE m + s >= n
    <3>1. (m + s) - n \in 0 .. n - 1 /\ x + s = n * (q + 1) + ((m + s) - n) /\ q + 1 \in Int
      BY <1>1, <1>3, <2>2
    <3> QED
      BY <1>0, <3>1, FrameOf
  <2> QED
    BY <2>1, <2>2
<1>7. ASSUME x + s >= n * w PROVE q = w - 1
  <2>1. ASSUME q <= w - 2 PROVE FALSE
    <3>1. n * (q + 2) <= n * w
      BY <2>1, SMT
    <3>2. n * (q + 2) = n * q + n + n
      OBVIOUS
    <3>3. x + s < n * q + n + n
      BY <1>1
    <3> QED
      BY <1>7, <3>1, <3>2, <3>3
  <2> QED
    BY <1>4, <1>5, <2>1
<1> QED
  BY <1>2, <1>4, <1>5, <1>6, <1>7

Halves == 0 .. (F * W - 1)

LEMMA FrameFacts ==
  ASSUME DongleAudioAssumption, NEW r \in Halves
  PROVE  /\ Playing(r) \in Counter
         /\ Advance(r) \in Halves /\ Playing(Advance(r)) \in {Playing(r), After(Playing(r))}
         /\ Wrap(r + 1) \in Halves /\ Playing(Wrap(r + 1)) \in {Playing(r), After(Playing(r))}
<1> DEFINE total == F * W
<1>0. /\ F \in Nat /\ F >= 2 /\ W \in Nat /\ W >= 1 /\ total \in Nat /\ r \in 0 .. total - 1
      /\ total >= 1
  <2>1. F \in Nat /\ F >= 2 /\ W \in Nat /\ W >= 1
    BY Constants
  <2>2. F * W \in Nat
    BY <2>1
  <2>3. r \in 0 .. total - 1
    BY DEF Halves
  <2> QED
    BY <2>1, <2>2, <2>3
<1>1. /\ Playing(r) \in 0 .. W - 1
      /\ r + 1 < total => Playing(r + 1) = Playing(r) \/ Playing(r + 1) = Playing(r) + 1
      /\ r + 2 < total => Playing(r + 2) = Playing(r) \/ Playing(r + 2) = Playing(r) + 1
      /\ r + 1 >= total => Playing(r) = W - 1
      /\ r + 2 >= total => Playing(r) = W - 1
  BY <1>0, StepOfFrame DEF Playing
<1>2. Playing(0) = 0
  <2>1. (F * 0 + 0) \div F = 0
    BY <1>0, FrameOf
  <2> QED
    BY <1>0, <2>1 DEF Playing
<1> HIDE DEF total
<1>3. ASSUME NEW s \in {1, 2}, r + s < total PROVE r + s \in 0 .. total - 1 /\ Playing(r + s) \in {Playing(r), After(Playing(r))}
  <2>1. r + s \in 0 .. total - 1
    BY <1>0, <1>3
  <2>2. Playing(r + s) \in 0 .. W - 1
    <3>1. (r + s) \div F \in 0 .. W - 1
      BY <1>0, <2>1, StepOfFrame DEF total
    <3> QED
      BY <3>1 DEF Playing
  <2>3. Playing(r + s) = Playing(r) \/ Playing(r + s) = Playing(r) + 1
    BY <1>0, <1>1, <1>3
  <2> QED
    BY <1>0, <1>1, <2>1, <2>2, <2>3 DEF After
<1>4. ASSUME NEW s \in {1, 2}, r + s >= total PROVE After(Playing(r)) = 0
  BY <1>0, <1>1, <1>4 DEF After
<1>5. Advance(r) \in 0 .. total - 1 /\ Playing(Advance(r)) \in {Playing(r), After(Playing(r))}
  <2>1. CASE r + 2 < total
    <3>1. Advance(r) = r + 2
      BY <1>0, <2>1 DEF Advance, total
    <3> QED
      BY <1>3, <2>1, <3>1
  <2>2. CASE r + 2 >= total
    <3>1. Advance(r) = 0
      BY <1>0, <2>2 DEF Advance, total
    <3> QED
      BY <1>0, <1>2, <1>4, <2>2, <3>1
  <2> QED
    BY <1>0, <2>1, <2>2
<1>6. Wrap(r + 1) \in 0 .. total - 1 /\ Playing(Wrap(r + 1)) \in {Playing(r), After(Playing(r))}
  <2>0. total \in Nat \ {0} /\ r + 1 \in Int
    BY <1>0
  <2>1. CASE r + 1 < total
    <3>0. 0 <= r + 1 /\ r + 1 < total
      BY <1>0, <2>1
    <3>1. (r + 1) % total = r + 1
      BY <2>0, <3>0, Modulus
    <3>2. Wrap(r + 1) = r + 1
      BY <3>1 DEF Wrap, total
    <3> QED
      BY <1>3, <2>1, <3>2
  <2>2. CASE r + 1 >= total
    <3>1. r + 1 = total
      BY <1>0, <2>2
    <3>2. Wrap(r + 1) = 0
      BY <2>0, <3>1, Modulus DEF Wrap, total
    <3> QED
      BY <1>0, <1>2, <1>4, <2>2, <3>2
  <2> QED
    BY <1>0, <2>1, <2>2
<1> QED
  BY <1>1, <1>5, <1>6 DEF Counter, Halves, total

\* After a reset playing goes on with the frame that is decoded next.
LEMMA FrameStart ==
  ASSUME DongleAudioAssumption, NEW c \in Counter
  PROVE  c * F \in Halves /\ Playing(c * F) = c
<1>1. c \in Nat /\ c <= W - 1 /\ F \in Nat \ {0} /\ W \in Nat /\ F \in Nat
  BY Constants DEF Counter
<1>2. c * F = F * c + 0 /\ c * F >= 0
  BY <1>1, SMT
<1>3. F * c <= F * (W - 1)
  BY <1>1, SMT
<1>4. F * (W - 1) = F * W - F
  BY <1>1
<1>5. (F * c + 0) \div F = c
  BY <1>1, FrameOf
<1>6. c * F \in Halves
  <2> DEFINE x == F * c
             t == F * W
  <2>1. x \in Nat /\ t \in Nat
    BY <1>1
  <2>2. x <= t - F /\ F >= 1
    BY <1>1, <1>3, <1>4
  <2>3. c * F = x
    BY <1>1
  <2> HIDE DEF x, t
  <2>4. x \in 0 .. t - 1
    BY <1>1, <2>1, <2>2
  <2> QED
    BY <2>3, <2>4 DEF Halves, t
<1> QED
  BY <1>2, <1>5, <1>6 DEF Playing

-----------------------------------------------------------------------------
(***************************************************************************)
(* The main loop.                                                          *)
(***************************************************************************)
LEMMA InitIInv == ASSUME DongleAudioAssumption, Init PROVE IInv
<1>1. 0 \in Counter /\ 0 \in Halves
  <2>1. 0 \in Counter
    BY Constants DEF Counter
  <2>2. 0 * F \in Halves
    BY <2>1, FrameStart
  <2>3. 0 * F = 0
    BY Constants
  <2> QED
    BY <2>1, <2>2, <2>3
<1>2. Playing(dec_rptr) = 0
  <2>1. Playing(0 * F) = 0
    BY <1>1, FrameStart
  <2>2. 0 * F = 0
    BY Constants
  <2> QED
    BY <2>1, <2>2 DEF Init
<1>3. num_mic = 0 /\ num_dec = 0
  BY <1>1, <1>2, Distances DEF Init, num_mic, num_dec
<1>4. TypeOK /\ SlotType /\ FramesInOrder /\ PlaysDecoded
  BY <1>1, Constants DEF Init, TypeOK, SlotType, FramesInOrder, PlaysDecoded, None, Slot, Halves
<1>5. \A c \in Counter : Ahead(c, 0) \in Counter
  BY <1>1, CounterFacts
<1>6. CodedInv /\ DecodedInv
  BY <1>2, <1>3, <1>5 DEF Init, CodedInv, DecodedInv, Counter
<1> QED
  BY <1>4, <1>6 DEF IInv

LEMMA CounterTypes ==
  ASSUME DongleAudioAssumption, TypeOK
  PROVE  /\ mic_wptr \in Counter /\ dec_wptr \in Counter /\ dec_rptr \in Halves
         /\ Playing(dec_rptr) \in Counter
         /\ num_mic \in Counter /\ num_dec \in Counter
<1>1. mic_wptr \in Counter /\ dec_wptr \in Counter /\ dec_rptr \in Halves
  BY DEF TypeOK, Halves
<1>2. Playing(dec_rptr) \in Counter
  BY <1>1, FrameFacts
<1> QED
  BY <1>1, <1>2, CounterFacts DEF num_mic, num_dec

\* A frame comes while there is room for it.
LEMMA AddInv ==
  ASSUME DongleAudioAssumption, Steady, IInv, abuf_mic_add
  PROVE  IInv'
<1>1. /\ pc = "loop" /\ num_mic < 4
      /\ abuf_mic' = [abuf_mic EXCEPT ![mic_wptr % 4] = mic_wptr]
      /\ mic_wptr' = (mic_wptr + 1) % W
      /\ UNCHANGED <<dec_wptr, dec_rptr, abuf_dec, abuf_reset, start, buffer_empty, n_usb_iso, pc, played>>
  BY DEF abuf_mic_add
<1>2. /\ mic_wptr \in Counter /\ dec_wptr \in Counter /\ mic_wptr' = After(mic_wptr)
      /\ After(mic_wptr) \in Counter
      /\ num_mic = Ahead(mic_wptr, dec_wptr) /\ num_mic \in Counter
  BY <1>1, CounterTypes, CounterFacts DEF IInv, num_mic
<1>3. num_mic' = num_mic + 1
  <2>1. num_mic # W - 1
    BY <1>1, <1>2, Constants DEF Counter
  <2>2. Ahead(After(mic_wptr), dec_wptr) = num_mic + 1
    BY <1>2, <2>1, Distances
  <2> QED
    BY <1>1, <1>2, <2>2 DEF num_mic
<1>4. ASSUME NEW c \in Counter, Ahead(c, dec_wptr) < num_mic + 1 PROVE abuf_mic'[c % 4] = c
  <2>1. Ahead(c, dec_wptr) \in Counter
    BY <1>2, CounterFacts
  <2>2. mic_wptr % 4 \in Slot /\ c % 4 \in Slot /\ abuf_mic \in [Slot -> Counter \union {None}]
    BY <1>2, SlotIs DEF IInv, TypeOK
  <2>3. CASE Ahead(c, dec_wptr) = num_mic
    <3>1. c = mic_wptr
      BY <1>2, <2>3, Distances
    <3> QED
      BY <1>1, <2>2, <3>1
  <2>4. CASE Ahead(c, dec_wptr) < num_mic
    <3>1. Ahead(mic_wptr, c) = num_mic - Ahead(c, dec_wptr)
      BY <1>2, <2>4, Distances
    <3>2. Ahead(mic_wptr, c) \in 1 .. 3
      BY <1>1, <1>2, <2>1, <2>4, <3>1 DEF Counter
    <3>3. c % 4 # mic_wptr % 4
      BY <1>2, <3>2, SlotsApart
    <3>4. abuf_mic[c % 4] = c
      BY <2>4 DEF IInv, CodedInv
    <3> QED
      BY <1>1, <2>2, <3>3, <3>4
  <2> QED
    BY <1>2, <1>4, <2>1, <2>3, <2>4 DEF Counter
<1>5. CodedInv'
  <2>1. num_mic' <= 4
    BY <1>1, <1>2, <1>3 DEF Counter
  <2> QED
    BY <1>1, <1>3, <1>4, <2>1 DEF CodedInv
<1>6. TypeOK'
  BY <1>1, <1>2 DEF IInv, TypeOK
<1>7. DecodedInv'
  <2>1. num_dec' = num_dec /\ pc # "decoded"
    BY <1>1 DEF num_dec
  <2> QED
    BY <1>1, <2>1 DEF IInv, DecodedInv
<1> QED
  BY <1>1, <1>5, <1>6, <1>7 DEF IInv, SlotType, FramesInOrder, PlaysDecoded

\* Both pointers of the ring of coded frames are moved to one place.
LEMMA EmptiedInv ==
  ASSUME DongleAudioAssumption, IInv, NEW c \in Counter, mic_wptr' = c, dec_wptr' = c,
         UNCHANGED <<dec_rptr, abuf_mic, abuf_dec, abuf_reset, n_usb_iso, played>>,
         abuf_reset # 0 \/ pc' = "init", pc' \in {"loop", "init", "dec"}
  PROVE  IInv'
<1>1. num_mic' = 0
  BY Distances DEF num_mic
<1>2. CodedInv'
  <2>1. ASSUME NEW e \in Counter PROVE ~ (Ahead(e, c) < 0)
    BY CounterFacts DEF Counter
  <2> QED
    BY <1>1, <2>1 DEF CodedInv
<1>3. TypeOK'
  BY DEF IInv, TypeOK
<1>4. DecodedInv'
  BY DEF DecodedInv
<1> QED
  BY <1>2, <1>3, <1>4 DEF IInv, SlotType, FramesInOrder, PlaysDecoded

LEMMA ResetInv ==
  ASSUME DongleAudioAssumption, IInv, abuf_init
  PROVE  IInv'
<1>1. CASE pc = "loop"
  <2>1. /\ pc' = "init" /\ mic_wptr' = 0 /\ dec_wptr' = 0
        /\ UNCHANGED <<dec_rptr, abuf_mic, abuf_dec, abuf_reset, n_usb_iso, played>>
    BY <1>1 DEF abuf_init
  <2>2. 0 \in Counter
    BY Constants DEF Counter
  <2> QED
    BY <2>1, <2>2, EmptiedInv
<1>2. CASE pc # "loop"
  <2>1. /\ pc' = "dec" /\ abuf_reset' = RESET
        /\ UNCHANGED <<mic_wptr, dec_wptr, dec_rptr, abuf_mic, abuf_dec, n_usb_iso, played>>
    BY <1>2 DEF abuf_init
  <2>2. abuf_reset' # 0 /\ abuf_reset' \in 0 .. RESET
    BY <2>1, Constants
  <2>3. TypeOK' /\ DecodedInv'
    BY <2>1, <2>2 DEF IInv, TypeOK, DecodedInv
  <2>4. CodedInv'
    <3>1. num_mic' = num_mic
      BY <2>1 DEF num_mic
    <3> QED
      BY <2>1, <3>1 DEF IInv, CodedInv
  <2> QED
    BY <2>1, <2>3, <2>4 DEF IInv, SlotType, FramesInOrder, PlaysDecoded
<1> QED
  BY <1>1, <1>2

LEMMA DiscardInv ==
  ASSUME DongleAudioAssumption, IInv, Discard
  PROVE  IInv'
<1>1. /\ abuf_reset # 0 /\ dec_wptr' = mic_wptr /\ pc' = "loop"
      /\ UNCHANGED <<mic_wptr, dec_rptr, abuf_mic, abuf_dec, abuf_reset, n_usb_iso, played>>
  BY DEF Discard
<1>2. mic_wptr \in Counter
  BY CounterTypes DEF IInv
<1> QED
  BY <1>1, <1>2, EmptiedInv

\* A frame is decoded from the slot it came to, into one that is played.
LEMMA DecodeInv ==
  ASSUME DongleAudioAssumption, IInv, abuf_mic_dec
  PROVE  IInv'
<1>0. /\ num_mic \in Counter /\ num_mic <= 4 /\ num_dec \in Counter /\ num_dec <= 4
      /\ abuf_reset = 0 /\ pc \in {"loop", "dec"} /\ dec_wptr \in Counter
      /\ Playing(dec_rptr) \in Counter /\ dec_rptr \in Halves
  BY CounterTypes DEF IInv, CodedInv, DecodedInv, abuf_mic_dec
<1>1. /\ dec_wptr' = dec_wptr
      /\ UNCHANGED <<mic_wptr, dec_rptr, abuf_mic, buffer_empty, n_usb_iso, played>>
      /\ \/ /\ Enough /\ RoomToDecode
            /\ abuf_dec' = [abuf_dec EXCEPT ![dec_wptr % 4] = [frame |-> abuf_mic[dec_wptr % 4], at |-> dec_wptr]]
            /\ pc' = "decoded" /\ UNCHANGED <<abuf_reset, start>>
         \/ pc' = "loop" /\ UNCHANGED <<abuf_dec, abuf_reset, start>>
  BY <1>0 DEF abuf_mic_dec, Counter
<1>2. num_mic' = num_mic /\ num_dec' = num_dec
  BY <1>1 DEF num_mic, num_dec
<1>3. TypeOK' /\ CodedInv'
  BY <1>1, <1>2 DEF IInv, TypeOK, CodedInv
<1>4. CASE pc' = "loop" /\ UNCHANGED <<abuf_dec, abuf_reset, start>>
  <2>1. DecodedInv'
    BY <1>0, <1>1, <1>2, <1>4 DEF IInv, DecodedInv
  <2> QED
    BY <1>1, <1>3, <1>4, <2>1 DEF IInv, SlotType, FramesInOrder, PlaysDecoded
<1>5. CASE /\ Enough /\ RoomToDecode
           /\ abuf_dec' = [abuf_dec EXCEPT ![dec_wptr % 4] = [frame |-> abuf_mic[dec_wptr % 4], at |-> dec_wptr]]
           /\ pc' = "decoded" /\ UNCHANGED <<abuf_reset, start>>
  <2>1. num_mic >= 1 /\ num_dec <= 3
    BY <1>0, <1>5 DEF Enough, RoomToDecode, Counter
  <2>2. abuf_mic[dec_wptr % 4] = dec_wptr /\ dec_wptr % 4 \in Slot
    <3>1. Ahead(dec_wptr, dec_wptr) < num_mic
      BY <1>0, <2>1, Distances DEF Counter
    <3> QED
      BY <1>0, <3>1, SlotIs DEF IInv, CodedInv
  <2>3. /\ abuf_dec' = [abuf_dec EXCEPT ![dec_wptr % 4] = [frame |-> dec_wptr, at |-> dec_wptr]]
        /\ abuf_dec \in [Slot -> [frame : Int, at : Int]] /\ dec_wptr \in Int
    BY <1>0, <1>5, <2>2 DEF IInv, SlotType, Counter
  <2>4. SlotType' /\ FramesInOrder' /\ abuf_dec'[dec_wptr % 4].at = dec_wptr
    BY <2>2, <2>3 DEF IInv, SlotType, FramesInOrder
  <2>5. ASSUME NEW c \in Counter, Ahead(c, Playing(dec_rptr)) < num_dec
        PROVE  abuf_dec'[c % 4].at = c
    <3>1. Ahead(c, Playing(dec_rptr)) \in Counter /\ num_dec = Ahead(dec_wptr, Playing(dec_rptr))
      BY <1>0, CounterFacts DEF num_dec
    <3>2. Ahead(dec_wptr, c) = num_dec - Ahead(c, Playing(dec_rptr))
      BY <1>0, <2>5, <3>1, Distances
    <3>3. Ahead(dec_wptr, c) \in 1 .. 3
      BY <1>0, <2>1, <2>5, <3>1, <3>2 DEF Counter
    <3>4. c % 4 # dec_wptr % 4 /\ c % 4 \in Slot
      BY <1>0, <3>3, SlotsApart, SlotIs
    <3>5. abuf_dec[c % 4].at = c
      BY <1>0, <2>5 DEF IInv, DecodedInv
    <3> QED
      BY <2>3, <3>4, <3>5
  <2>6. DecodedInv'
    BY <1>1, <1>2, <1>5, <2>1, <2>4, <2>5 DEF DecodedInv
  <2> QED
    BY <1>1, <1>3, <2>4, <2>6 DEF IInv, PlaysDecoded
<1> QED
  BY <1>1, <1>4, <1>5

\* The decoded frame is counted.
LEMMA CountedInv ==
  ASSUME DongleAudioAssumption, IInv, Decoded
  PROVE  IInv'
<1>0. /\ num_mic \in Counter /\ num_mic <= 4 /\ num_mic >= 1 /\ num_dec \in Counter
      /\ dec_wptr \in Counter /\ mic_wptr \in Counter /\ pc = "decoded"
      /\ Playing(dec_rptr) \in Counter /\ dec_rptr \in Halves
  BY CounterTypes DEF IInv, CodedInv, DecodedInv, Decoded
<1>1. /\ pc' = "loop" /\ dec_wptr' = (dec_wptr + 1) % W
      /\ UNCHANGED <<mic_wptr, dec_rptr, abuf_mic, abuf_dec, abuf_reset, n_usb_iso, played>>
  BY DEF Decoded
<1>2. dec_wptr' = After(dec_wptr) /\ After(dec_wptr) \in Counter
  BY <1>0, <1>1, CounterFacts
<1>3. num_mic' = num_mic - 1
  <2>1. Ahead(mic_wptr, After(dec_wptr)) = num_mic - 1
    BY <1>0, Distances DEF num_mic, Counter
  <2> QED
    BY <1>1, <1>2, <2>1 DEF num_mic
<1>4. CodedInv'
  <2>1. ASSUME NEW c \in Counter, Ahead(c, After(dec_wptr)) < num_mic - 1 PROVE abuf_mic[c % 4] = c
    <3>1. Ahead(c, dec_wptr) \in Counter /\ Ahead(c, After(dec_wptr)) \in Counter
      BY <1>0, <1>2, CounterFacts
    <3>2. Ahead(c, dec_wptr) < num_mic
      <4>1. CASE Ahead(c, dec_wptr) = 0
        BY <1>0, <4>1 DEF Counter
      <4>2. CASE Ahead(c, dec_wptr) # 0
        <5>1. Ahead(c, After(dec_wptr)) = Ahead(c, dec_wptr) - 1
          BY <1>0, <4>2, Distances
        <5> QED
          BY <1>0, <2>1, <3>1, <5>1 DEF Counter
      <4> QED
        BY <4>1, <4>2
    <3> QED
      BY <3>2 DEF IInv, CodedInv
  <2>2. num_mic' <= 4
    BY <1>0, <1>3 DEF Counter
  <2> QED
    BY <1>1, <1>2, <1>3, <2>1, <2>2 DEF CodedInv
<1>5. ASSUME abuf_reset = 0
      PROVE  /\ num_dec' <= 4
             /\ \A c \in Counter : Ahead(c, Playing(dec_rptr)) < num_dec' => abuf_dec[c % 4].at = c
  <2>1. num_dec <= 3
    BY <1>0, <1>5 DEF IInv, DecodedInv
  <2>2. num_dec' = num_dec + 1
    <3>1. num_dec # W - 1
      BY <1>0, <2>1, Constants DEF Counter
    <3>2. Ahead(After(dec_wptr), Playing(dec_rptr)) = num_dec + 1
      BY <1>0, <3>1, Distances DEF num_dec
    <3> QED
      BY <1>1, <1>2, <3>2 DEF num_dec
  <2>3. ASSUME NEW c \in Counter, Ahead(c, Playing(dec_rptr)) < num_dec + 1
        PROVE  abuf_dec[c % 4].at = c
    <3>1. Ahead(c, Playing(dec_rptr)) \in Counter
      BY <1>0, CounterFacts
    <3>2. CASE Ahead(c, Playing(dec_rptr)) = num_dec
      <4>1. c = dec_wptr
        BY <1>0, <3>2, Distances DEF num_dec
      <4> QED
        BY <1>0, <4>1 DEF IInv, DecodedInv
    <3>3. CASE Ahead(c, Playing(dec_rptr)) < num_dec
      BY <1>0, <1>5, <3>3 DEF IInv, DecodedInv
    <3> QED
      BY <1>0, <2>3, <3>1, <3>2, <3>3 DEF Counter
  <2>4. num_dec + 1 <= 4
    BY <1>0, <2>1 DEF Counter
  <2> QED
    BY <2>2, <2>3, <2>4
<1>6. DecodedInv'
  BY <1>1, <1>5 DEF DecodedInv
<1>7. TypeOK'
  BY <1>1, <1>2 DEF IInv, TypeOK
<1> QED
  BY <1>1, <1>4, <1>6, <1>7 DEF IInv, SlotType, FramesInOrder, PlaysDecoded

-----------------------------------------------------------------------------
(***************************************************************************)
(* The USB interrupt.                                                      *)
(***************************************************************************)

\* After a reset both pointers of the ring of decoded frames are at one place.
LEMMA SilenceInv ==
  ASSUME DongleAudioAssumption, IInv, dec_rptr' = dec_wptr * F, played' = {},
         abuf_reset' \in 0 .. RESET, n_usb_iso' \in 0 .. 3,
         UNCHANGED <<mic_wptr, dec_wptr, abuf_mic, abuf_dec, start, pc>>
  PROVE  IInv'
<1>1. dec_wptr \in Counter
  BY DEF IInv, TypeOK
<1>2. dec_wptr * F \in Halves /\ Playing(dec_wptr * F) = dec_wptr
  BY <1>1, FrameStart
<1>3. Playing(dec_rptr)' = dec_wptr
  BY <1>2 DEF Playing
<1>4. num_dec' = 0
  BY <1>1, <1>3, Distances DEF num_dec
<1>5. num_mic' = num_mic
  BY DEF num_mic
<1>6. TypeOK' /\ CodedInv'
  BY <1>2, <1>5 DEF IInv, TypeOK, CodedInv, Halves
<1>7. DecodedInv'
  <2>1. ASSUME NEW c \in Counter PROVE ~ (Ahead(c, dec_wptr) < 0)
    BY <1>1, CounterFacts DEF Counter
  <2>2. pc = "decoded" => num_mic >= 1 /\ abuf_dec[dec_wptr % 4].at = dec_wptr
    BY DEF IInv, DecodedInv
  <2>3. 0 <= (IF pc = "decoded" THEN 3 ELSE 4)
    OBVIOUS
  <2>4. /\ num_dec' <= (IF pc = "decoded" THEN 3 ELSE 4)
        /\ \A c \in Counter : ~ (Ahead(c, dec_wptr) < num_dec')
    BY <1>4, <2>1, <2>3
  <2>5. (abuf_reset = 0 /\ pc # "init" =>
           /\ num_dec <= (IF pc = "decoded" THEN 3 ELSE 4)
           /\ \A c \in Counter : Ahead(c, Playing(dec_rptr)) < num_dec => abuf_dec[c % 4].at = c)'
    BY <1>3, <2>4
  <2>6. (pc = "decoded" => num_mic >= 1 /\ abuf_dec[dec_wptr % 4].at = dec_wptr)'
    BY <1>5, <2>2
  <2> QED
    BY <2>5, <2>6 DEF DecodedInv
<1> QED
  BY <1>6, <1>7 DEF IInv, SlotType, FramesInOrder, PlaysDecoded

\* Playing goes on within a frame or to the next.
LEMMA PlayInv ==
  ASSUME DongleAudioAssumption, IInv, abuf_reset = 0, num_dec # 0,
         dec_rptr' = Advance(dec_rptr), abuf_reset' = 0, n_usb_iso' \in 0 .. 3,
         played' = {Half(h, dec_rptr, num_dec) : h \in {dec_rptr, Wrap(dec_rptr + 1)}},
         UNCHANGED <<mic_wptr, dec_wptr, abuf_mic, abuf_dec, start, pc>>
  PROVE  IInv'
<1> DEFINE p == Playing(dec_rptr)
           q == Playing(Advance(dec_rptr))
<1>1. /\ dec_wptr \in Counter /\ p \in Counter /\ dec_rptr \in Halves /\ num_dec \in Counter
      /\ num_dec = Ahead(dec_wptr, p)
  BY CounterTypes DEF IInv, num_dec
<1>2. /\ Advance(dec_rptr) \in Halves /\ q \in {p, After(p)} /\ q \in Counter
      /\ Playing(Wrap(dec_rptr + 1)) \in Counter
  <2>1. /\ Advance(dec_rptr) \in Halves /\ q \in {p, After(p)} /\ Wrap(dec_rptr + 1) \in Halves
        /\ Playing(Wrap(dec_rptr + 1)) \in {p, After(p)}
    BY <1>1, FrameFacts
  <2>2. After(p) \in Counter
    BY <1>1, CounterFacts
  <2> QED
    BY <1>1, <2>1, <2>2
<1>3. Playing(dec_rptr)' = q /\ num_dec' = Ahead(dec_wptr, q) /\ num_mic' = num_mic
  BY DEF Playing, num_dec, num_mic
<1>4. /\ num_dec' <= num_dec
      /\ \A c \in Counter : Ahead(c, q) < num_dec' => Ahead(c, p) < num_dec
  <2>1. CASE q = p
    BY <1>1, <1>3, <2>1 DEF Counter
  <2>2. CASE q = After(p)
    <3>1. num_dec' = num_dec - 1
      BY <1>1, <1>3, <2>2, Distances
    <3>2. ASSUME NEW c \in Counter, Ahead(c, After(p)) < num_dec - 1 PROVE Ahead(c, p) < num_dec
      <4>1. Ahead(c, p) \in Counter
        BY <1>1, CounterFacts
      <4>2. CASE Ahead(c, p) = 0
        BY <1>1, <4>2 DEF Counter
      <4>3. CASE Ahead(c, p) # 0
        <5>1. Ahead(c, After(p)) = Ahead(c, p) - 1
          BY <1>1, <4>3, Distances
        <5> QED
          BY <1>1, <3>2, <4>1, <5>1 DEF Counter
      <4> QED
        BY <4>2, <4>3
    <3> QED
      BY <1>1, <2>2, <3>1, <3>2 DEF Counter
  <2> QED
    BY <1>2, <2>1, <2>2
<1>5. pc # "init" => \A c \in Counter : Ahead(c, p) < num_dec => abuf_dec[c % 4].at = c
  BY DEF IInv, DecodedInv
<1>6. DecodedInv'
  <2>1. ASSUME pc # "init" PROVE num_dec' <= (IF pc = "decoded" THEN 3 ELSE 4)
    <3>1. num_dec <= (IF pc = "decoded" THEN 3 ELSE 4)
      BY <2>1 DEF IInv, DecodedInv
    <3>2. num_dec' \in Counter
      BY <1>1, <1>2, <1>3, CounterFacts
    <3> QED
      BY <1>1, <1>4, <3>1, <3>2 DEF Counter
  <2>2. ASSUME pc # "init", NEW c \in Counter, Ahead(c, q) < num_dec' PROVE abuf_dec[c % 4].at = c
    BY <1>4, <1>5, <2>2
  <2> HIDE DEF q
  <2> QED
    BY <1>3, <2>1, <2>2 DEF IInv, DecodedInv
<1>7. PlaysDecoded'
  <2>1. ASSUME NEW h \in {dec_rptr, Wrap(dec_rptr + 1)}, Half(h, dec_rptr, num_dec).decoded
        PROVE  Half(h, dec_rptr, num_dec).got.at = Half(h, dec_rptr, num_dec).want
    <3>1. Playing(h) \in Counter
      BY <1>1, <1>2
    <3>2. pc # "init" /\ Ahead(Playing(h), p) < num_dec
      BY <2>1 DEF Half
    <3>3. abuf_dec[Playing(h) % 4].at = Playing(h)
      BY <1>5, <3>1, <3>2
    <3> QED
      BY <3>3 DEF Half
  <2> QED
    BY <2>1 DEF PlaysDecoded
<1>8. TypeOK' /\ CodedInv'
  BY <1>2, <1>3, Constants DEF IInv, TypeOK, CodedInv, Halves
<1> QED
  BY <1>6, <1>7, <1>8 DEF IInv, SlotType, FramesInOrder

LEMMA UsbInv ==
  ASSUME DongleAudioAssumption, IInv, NEW late \in BOOLEAN, abuf_dec_usb(late)
  PROVE  IInv'
<1>0. PICK res \in {IF late THEN RESET ELSE abuf_reset}, n \in {(n_usb_iso + 1) % 4} :
      \E r \in {IF res # 0 THEN dec_wptr * F ELSE dec_rptr} :
      \E num \in {Ahead(dec_wptr, Playing(r))} :
        /\ abuf_reset' = (IF res # 0 THEN res - 1 ELSE res) /\ n_usb_iso' = n
        /\ IF MayPlay(num, n)
             THEN /\ played' = {Half(h, r, num) : h \in {r, Wrap(r + 1)}}
                  /\ dec_rptr' = Advance(r)
                  /\ buffer_empty' = FALSE
             ELSE /\ played' = {} /\ dec_rptr' = r
                  /\ buffer_empty' = (num = 0 \/ buffer_empty)
        /\ UNCHANGED <<mic_wptr, dec_wptr, abuf_mic, abuf_dec, start, pc>>
  BY DEF abuf_dec_usb
<1>1. PICK r \in {IF res # 0 THEN dec_wptr * F ELSE dec_rptr} : \E num \in {Ahead(dec_wptr, Playing(r))} :
        /\ abuf_reset' = (IF res # 0 THEN res - 1 ELSE res) /\ n_usb_iso' = n
        /\ IF MayPlay(num, n)
             THEN /\ played' = {Half(h, r, num) : h \in {r, Wrap(r + 1)}}
                  /\ dec_rptr' = Advance(r)
             ELSE played' = {} /\ dec_rptr' = r
        /\ UNCHANGED <<mic_wptr, dec_wptr, abuf_mic, abuf_dec, start, pc>>
  BY <1>0
<1> DEFINE num == Ahead(dec_wptr, Playing(r))
<1>2. /\ abuf_reset' = (IF res # 0 THEN res - 1 ELSE res) /\ n_usb_iso' = n
      /\ MayPlay(num, n) => /\ played' = {Half(h, r, num) : h \in {r, Wrap(r + 1)}}
                            /\ dec_rptr' = Advance(r)
      /\ ~ MayPlay(num, n) => played' = {} /\ dec_rptr' = r
      /\ UNCHANGED <<mic_wptr, dec_wptr, abuf_mic, abuf_dec, start, pc>>
  BY <1>1
<1>3. n_usb_iso' \in 0 .. 3 /\ res \in 0 .. RESET /\ dec_wptr \in Counter
  <2>1. n_usb_iso + 1 \in Int /\ abuf_reset \in 0 .. RESET /\ dec_wptr \in Counter
    BY DEF IInv, TypeOK
  <2>2. (n_usb_iso + 1) % 4 \in 0 .. 3
    <3>1. \A i \in Int : i % 4 \in 0 .. 3
      OBVIOUS
    <3> QED
      BY <2>1, <3>1
  <2>3. n_usb_iso' = (n_usb_iso + 1) % 4
    BY <1>2
  <2>4. RESET \in 0 .. RESET
    BY Constants
  <2> QED
    BY <2>1, <2>2, <2>3, <2>4
<1>4. MayPlay(num, n) => num # 0
  BY DEF MayPlay
<1>5. CASE res # 0
  <2>1. r = dec_wptr * F /\ num = 0
    <3>1. Playing(dec_wptr * F) = dec_wptr
      BY <1>3, FrameStart
    <3> QED
      BY <1>3, <1>5, <3>1, Distances
  <2>2. abuf_reset' \in 0 .. RESET
    BY <1>2, <1>3, <1>5, Constants
  <2>3. played' = {} /\ dec_rptr' = dec_wptr * F
    BY <1>2, <1>4, <2>1
  <2> QED
    BY <1>2, <1>3, <2>2, <2>3, SilenceInv
<1>6. CASE res = 0
  <2>1. r = dec_rptr /\ abuf_reset = 0 /\ abuf_reset' = 0
    BY <1>2, <1>6, Constants
  <2>2. num = num_dec
    BY <2>1 DEF num_dec
  <2>3. CASE MayPlay(num, n)
    <3>1. /\ num_dec # 0 /\ dec_rptr' = Advance(dec_rptr)
          /\ played' = {Half(h, dec_rptr, num_dec) : h \in {dec_rptr, Wrap(dec_rptr + 1)}}
      BY <1>2, <1>4, <2>1, <2>2, <2>3
    <3> QED
      BY <1>2, <1>3, <2>1, <3>1, PlayInv
  <2>4. CASE ~ MayPlay(num, n)
    <3>1. /\ played' = {}
          /\ UNCHANGED <<mic_wptr, dec_wptr, dec_rptr, abuf_mic, abuf_dec, abuf_reset, start, pc>>
      BY <1>2, <2>1, <2>4
    <3>2. num_dec' = num_dec /\ num_mic' = num_mic
      BY <3>1 DEF num_dec, num_mic
    <3>3. TypeOK' /\ SlotType'
      BY <1>3, <3>1 DEF IInv, TypeOK, SlotType
    <3>4. CodedInv' /\ DecodedInv'
      BY <3>1, <3>2 DEF IInv, CodedInv, DecodedInv
    <3> QED
      BY <3>1, <3>3, <3>4 DEF IInv, FramesInOrder, PlaysDecoded
  <2> QED
    BY <2>3, <2>4
<1> QED
  BY <1>5, <1>6

LEMMA NextIInv ==
  ASSUME DongleAudioAssumption, Steady, IInv, [Next]_vars
  PROVE  IInv'
<1>1. CASE abuf_mic_add
  BY <1>1, AddInv
<1>2. CASE abuf_init
  BY <1>2, ResetInv
<1>3. CASE Discard
  BY <1>3, DiscardInv
<1>4. CASE abuf_mic_dec
  BY <1>4, DecodeInv
<1>5. CASE Decoded
  BY <1>5, CountedInv
<1>6. CASE Usb
  BY <1>6, UsbInv DEF Usb
<1>7. CASE UsbLate
  BY <1>7, UsbInv DEF UsbLate
<1>8. CASE UNCHANGED vars
  <2>1. num_dec' = num_dec /\ num_mic' = num_mic
    BY <1>8 DEF vars, num_dec, num_mic
  <2>2. CodedInv' /\ DecodedInv'
    BY <1>8, <2>1 DEF vars, IInv, CodedInv, DecodedInv
  <2> QED
    BY <1>8, <2>2 DEF vars, IInv, TypeOK, SlotType, FramesInOrder, PlaysDecoded
<1> QED
  BY <1>1, <1>2, <1>3, <1>4, <1>5, <1>6, <1>7, <1>8 DEF Next

\* The inductive invariant: the undecoded and the unplayed frames lie in their slots
\* (abuf_mic_add, abuf_mic_dec and abuf_dec_usb, with the reset of abuf_init).
THEOREM AlwaysIInv ==
  ASSUME DongleAudioAssumption, Steady
  PROVE  Spec => []IInv
<1>1. Init => IInv
  BY InitIInv
<1>2. IInv /\ [Next]_vars => IInv'
  BY NextIInv
<1> QED
  BY <1>1, <1>2, PTL DEF Spec

\* The counters and the rings have their types.
THEOREM TypeCorrect ==
  ASSUME DongleAudioAssumption, Steady
  PROVE  Spec => []TypeOK
<1>1. IInv => TypeOK
  BY DEF IInv
<1> QED
  BY <1>1, AlwaysIInv, PTL

\* What the host hears of a decoded frame is that frame, however the interrupt of abuf_dec_usb falls
\* between the steps of the main loop.
THEOREM PlaysWhatWasDecoded ==
  ASSUME DongleAudioAssumption, Steady
  PROVE  Spec => []PlaysDecoded
<1>1. IInv => PlaysDecoded
  BY DEF IInv
<1> QED
  BY <1>1, AlwaysIInv, PTL

\* abuf_mic_dec decodes each frame where it came.
THEOREM DecodedInOrder ==
  ASSUME DongleAudioAssumption, Steady
  PROVE  Spec => []FramesInOrder
<1>1. IInv => FramesInOrder
  BY DEF IInv
<1> QED
  BY <1>1, AlwaysIInv, PTL

\* The ring of decoded frames never runs over, so abuf_mic_dec never has to reset for num_dec > 4.
THEOREM NeverTooMany ==
  ASSUME DongleAudioAssumption, Steady
  PROVE  Spec => []DecodedFits
<1>1. IInv => DecodedFits
  BY DEF IInv, DecodedInv, DecodedFits
<1> QED
  BY <1>1, AlwaysIInv, PTL

-----------------------------------------------------------------------------
(***************************************************************************)
(* The remote control: its keys, its microphone, its link and its sleep.   *)
(***************************************************************************)
CONSTANTS
  KeyboardKeys, ConsumerKeys, Voice, Mode, NoKey, MaxHeld, TxFifo, FastScan,
  Patient, MaxDrops
VARIABLES
  rc_held, rc_seen, rc_notReleased, rc_keyType, rc_voicePress, rc_mic, rc_led,
  rc_asleep, rc_conn, rc_adv, rc_term, rc_ending, rc_userIdle, rc_advIdle,
  rc_connFlag, rc_back, rc_cache, rc_tx, rc_host, rc_drops

Rc == INSTANCE BleRemote WITH
  held <- rc_held, seen <- rc_seen, notReleased <- rc_notReleased,
  keyType <- rc_keyType, voicePress <- rc_voicePress, mic <- rc_mic,
  led <- rc_led, asleep <- rc_asleep, conn <- rc_conn, adv <- rc_adv,
  term <- rc_term, ending <- rc_ending, userIdle <- rc_userIdle,
  advIdle <- rc_advIdle, connFlag <- rc_connFlag, back <- rc_back,
  cache <- rc_cache, tx <- rc_tx, host <- rc_host, drops <- rc_drops

\* Awake, the remote advertises, or waits for the end of its link, or is about
\* to sleep: CancelTerminate and Connect count on the first.
ReachInv == ~ rc_asleep => rc_adv \/ (rc_conn /\ rc_term = 1) \/ rc_term = 2

RcInv == Rc!TypeOK /\ IsFiniteSet(rc_held) /\ ReachInv

\* Without DEEPBACK_FAST_KEYSCAN_ENABLE no key is kept over deep sleep.
KeyInv == rc_back = "idle" /\ Rc!KeyStateRight

\* A voice key that counts its second is down.
MicInv == rc_back = "idle" /\ (rc_voicePress => rc_seen # {}) /\ Rc!MicWhileHeld

\* The key of type t the host takes to be down once it has the report on its way.
AtHost(t) == IF rc_tx # <<>> /\ rc_tx[1].type = t THEN rc_tx[1].key ELSE rc_host[t]

\* With a user who waits for each report at most one is on its way, and what the
\* host takes to be down is of the type the release will name.
CalmInv ==
  /\ rc_back = "idle"
  /\ rc_asleep => ~ rc_conn /\ rc_seen = {}
  /\ ~ rc_conn => rc_tx = <<>> /\ rc_host = Rc!NothingDown
  /\ Len(rc_tx) <= 1
  /\ rc_tx # <<>> => rc_seen = rc_held
  /\ rc_seen \in {{}, rc_held} \/ rc_held = {}
  /\ \A t \in Rc!Types : AtHost(t) # NoKey => rc_keyType = t /\ rc_seen # {}

-----------------------------------------------------------------------------
\* The cardinality the remote's module means is that of the library's theorems.
LEMMA Counted == ASSUME NEW S PROVE Rc!Cardinality(S) = Cardinality(S)
BY DEF Rc!Cardinality, Cardinality

LEMMA CountFacts ==
  ASSUME NEW S, IsFiniteSet(S)
  PROVE  /\ Rc!Cardinality(S) \in Nat /\ Rc!Cardinality({}) = 0
         /\ Rc!Cardinality(S) = 0 => S = {}
<1>1. Rc!Cardinality(S) = Cardinality(S) /\ Rc!Cardinality({}) = Cardinality({})
  BY Counted
<1>2. Cardinality(S) \in Nat /\ Cardinality({}) = 0 /\ (Cardinality(S) = 0 => S = {})
  BY FS_EmptySet, FS_CardinalityType
<1> QED
  BY <1>1, <1>2

LEMMA OneMoreOneLess ==
  ASSUME NEW S, IsFiniteSet(S), NEW x
  PROVE  /\ IsFiniteSet(S \cup {x}) /\ IsFiniteSet(S \ {x})
         /\ x \notin S => Rc!Cardinality(S \cup {x}) = Rc!Cardinality(S) + 1
         /\ x \in S => Rc!Cardinality(S \ {x}) = Rc!Cardinality(S) - 1
<1>1. /\ IsFiniteSet(S \cup {x})
      /\ x \notin S => Cardinality(S \cup {x}) = Cardinality(S) + 1
  BY FS_AddElement
<1>2. /\ IsFiniteSet(S \ {x})
      /\ x \in S => Cardinality(S \ {x}) = Cardinality(S) - 1
  BY FS_RemoveElement
<1>3. /\ Rc!Cardinality(S \cup {x}) = Cardinality(S \cup {x})
      /\ Rc!Cardinality(S \ {x}) = Cardinality(S \ {x})
      /\ Rc!Cardinality(S) = Cardinality(S)
  BY Counted
<1> QED
  BY <1>1, <1>2, <1>3

\* The stack takes a report while it has room, and only over a link.
LEMMA PushFacts ==
  ASSUME Rc!BleRemoteAssumption, NEW r \in Rc!Report, Rc!TypeOK, Rc!Push(r)
  PROVE  rc_tx' \in Seq(Rc!Report) /\ Len(rc_tx') <= TxFifo
<1>1. rc_tx \in Seq(Rc!Report) /\ Len(rc_tx) <= TxFifo /\ Len(rc_tx) \in Nat /\ TxFifo \in Nat
  BY DEF Rc!TypeOK, Rc!BleRemoteAssumption
<1>2. CASE rc_conn /\ Len(rc_tx) < TxFifo
  <2>1. rc_tx' = Append(rc_tx, r)
    BY <1>2 DEF Rc!Push
  <2> QED
    BY <1>1, <1>2, <2>1
<1>3. CASE ~ (rc_conn /\ Len(rc_tx) < TxFifo)
  BY <1>1, <1>3 DEF Rc!Push
<1> QED
  BY <1>2, <1>3

LEMMA ReportTypes ==
  /\ [type |-> "keyboard", key |-> NoKey] \in Rc!Report
  /\ \A t \in Rc!Types : [type |-> t, key |-> NoKey] \in Rc!Report
  /\ \A k \in Rc!Keys : /\ [type |-> "keyboard", key |-> k] \in Rc!Report
                        /\ [type |-> "consumer", key |-> k] \in Rc!Report
BY DEF Rc!Report, Rc!Types

LEMMA KeyProcType ==
  ASSUME Rc!BleRemoteAssumption, Rc!TypeOK, NEW event \in SUBSET Rc!Keys, Rc!key_change_proc(event)
  PROVE  /\ rc_userIdle' = FALSE /\ rc_notReleased' \in BOOLEAN
         /\ rc_keyType' \in Rc!Types \cup {"idle"} /\ rc_voicePress' \in BOOLEAN
         /\ rc_mic' \in BOOLEAN /\ rc_led' \in BOOLEAN
         /\ rc_tx' \in Seq(Rc!Report) /\ Len(rc_tx') <= TxFifo
<1>1. /\ rc_keyType \in Rc!Types \cup {"idle"} /\ rc_voicePress \in BOOLEAN /\ rc_mic \in BOOLEAN
      /\ rc_led \in BOOLEAN /\ rc_tx \in Seq(Rc!Report) /\ Len(rc_tx) <= TxFifo
  BY DEF Rc!TypeOK
<1>2. ASSUME NEW k \in event, Rc!KeyPressed(k)
      PROVE  /\ rc_notReleased' \in BOOLEAN
             /\ rc_keyType' \in Rc!Types \cup {"idle"} /\ rc_voicePress' \in BOOLEAN
             /\ rc_mic' \in BOOLEAN /\ rc_led' \in BOOLEAN
             /\ rc_tx' \in Seq(Rc!Report) /\ Len(rc_tx') <= TxFifo
  <2>1. k \in Rc!Keys
    OBVIOUS
  <2>2. /\ [type |-> "keyboard", key |-> k] \in Rc!Report
        /\ [type |-> "consumer", key |-> k] \in Rc!Report
    BY <2>1, ReportTypes
  <2>3. CASE k \in KeyboardKeys /\ Rc!Push([type |-> "keyboard", key |-> k])
             /\ rc_keyType' = "keyboard" /\ rc_mic' = rc_mic /\ rc_led' = rc_led
             /\ rc_voicePress' = FALSE
    BY <1>1, <1>2, <2>2, <2>3, PushFacts DEF Rc!KeyPressed, Rc!Types
  <2>4. CASE k \in ConsumerKeys /\ Rc!Push([type |-> "consumer", key |-> k])
             /\ rc_keyType' = "consumer" /\ rc_mic' = rc_mic /\ rc_led' = rc_led
             /\ rc_voicePress' = FALSE
    BY <1>1, <1>2, <2>2, <2>4, PushFacts DEF Rc!KeyPressed, Rc!Types
  <2>5. CASE rc_tx' = rc_tx /\ rc_keyType' = rc_keyType /\ rc_mic' \in {rc_mic, FALSE}
             /\ rc_led' \in {rc_led, TRUE} /\ rc_voicePress' \in {~ rc_mic, FALSE}
    BY <1>1, <1>2, <2>5 DEF Rc!KeyPressed
  <2> QED
    BY <1>2, <2>3, <2>4, <2>5 DEF Rc!KeyPressed
<1>3. CASE Rc!TwoKeys
  BY <1>1, <1>3 DEF Rc!TwoKeys, Rc!key_change_proc
<1>4. CASE Rc!KeyReleased
  <2>1. rc_tx' \in Seq(Rc!Report) /\ Len(rc_tx') <= TxFifo
    <3>1. CASE rc_keyType \in Rc!Types
      BY <1>4, <3>1, PushFacts, ReportTypes DEF Rc!KeyReleased
    <3>2. CASE rc_keyType \notin Rc!Types
      BY <1>1, <1>4, <3>2 DEF Rc!KeyReleased
    <3> QED
      BY <3>1, <3>2
  <2> QED
    BY <1>1, <1>4, <2>1 DEF Rc!KeyReleased, Rc!key_change_proc
<1> QED
  BY <1>2, <1>3, <1>4 DEF Rc!key_change_proc

LEMMA RcInitInv == ASSUME Rc!BleRemoteAssumption, Rc!Init PROVE RcInv
<1>1. IsFiniteSet(rc_held) /\ Rc!Cardinality(rc_held) = 0
  <2>1. IsFiniteSet({}) /\ Rc!Cardinality({}) = 0
    BY FS_EmptySet, CountFacts
  <2> QED
    BY <2>1 DEF Rc!Init
<1>2. rc_host \in [Rc!Types -> Rc!Keys \cup {NoKey}]
  BY DEF Rc!Init, Rc!NothingDown
<1>3. rc_tx \in Seq(Rc!Report) /\ Len(rc_tx) = 0
  BY DEF Rc!Init
<1>4. MaxHeld \in Nat /\ TxFifo \in Nat /\ MaxDrops \in Nat
  BY DEF Rc!BleRemoteAssumption
<1>5. Rc!TypeOK
  <2>1. /\ rc_notReleased \in BOOLEAN /\ rc_voicePress \in BOOLEAN /\ rc_mic \in BOOLEAN
        /\ rc_led \in BOOLEAN /\ rc_asleep \in BOOLEAN /\ rc_conn \in BOOLEAN /\ rc_adv \in BOOLEAN
        /\ rc_ending \in BOOLEAN /\ rc_userIdle \in BOOLEAN /\ rc_advIdle \in BOOLEAN
        /\ rc_connFlag \in BOOLEAN
    BY Zenon DEF Rc!Init
  <2> QED
    BY <1>1, <1>2, <1>3, <1>4, <2>1 DEF Rc!Init, Rc!TypeOK
<1> QED
  BY <1>1, <1>5 DEF Rc!Init, RcInv, ReachInv

LEMMA TypeStep ==
  ASSUME Rc!BleRemoteAssumption, Rc!TypeOK, IsFiniteSet(rc_held), [Rc!Next]_(Rc!vars)
  PROVE  Rc!TypeOK' /\ IsFiniteSet(rc_held')
<1> USE DEF Rc!TypeOK, Rc!keyVars, Rc!linkVars, Rc!backVars
<1>1. ASSUME UNCHANGED rc_held PROVE IsFiniteSet(rc_held')
  BY <1>1
<1>2. CASE Rc!ScanChange
  BY <1>1, <1>2, KeyProcType DEF Rc!ScanChange
<1>3. CASE Rc!ScanCached
  BY <1>1, <1>3, KeyProcType DEF Rc!ScanCached
<1>4. CASE Rc!ManualRelease
  BY <1>1, <1>4, PushFacts, ReportTypes DEF Rc!ManualRelease
<1>5. CASE Rc!VoiceStarts
  BY <1>1, <1>5 DEF Rc!VoiceStarts
<1>6. CASE Rc!Connect
  BY <1>1, <1>6 DEF Rc!Connect
<1>7. Rc!NothingDown \in [Rc!Types -> Rc!Keys \cup {NoKey}] /\ <<>> \in Seq(Rc!Report) /\ Len(<<>>) = 0
      /\ TxFifo \in Nat /\ MaxDrops \in Nat
  BY DEF Rc!NothingDown, Rc!BleRemoteAssumption
<1>8. CASE Rc!LinkEnds \/ Rc!LinkDrops
  <2>1. Rc!Terminated /\ rc_drops' \in 0 .. MaxDrops
    BY <1>7, <1>8 DEF Rc!LinkEnds, Rc!LinkDrops
  <2>2. rc_tx' \in Seq(Rc!Report) /\ Len(rc_tx') <= TxFifo
        /\ rc_host' \in [Rc!Types -> Rc!Keys \cup {NoKey}]
    BY <1>7, <2>1 DEF Rc!Terminated, Rc!BleRemoteAssumption
  <2>3. /\ rc_conn' \in BOOLEAN /\ rc_ending' \in BOOLEAN /\ rc_mic' \in BOOLEAN
        /\ rc_advIdle' \in BOOLEAN
    BY <2>1, Zenon DEF Rc!Terminated
  <2> QED
    BY <1>1, <2>1, <2>2, <2>3 DEF Rc!Terminated
<1>9. CASE Rc!ReportSent
  <2>1. Head(rc_tx) \in Rc!Report /\ Tail(rc_tx) \in Seq(Rc!Report) /\ Len(Tail(rc_tx)) = Len(rc_tx) - 1
        /\ Len(rc_tx) \in Nat
    BY <1>9 DEF Rc!ReportSent
  <2>2. Head(rc_tx).key \in Rc!Keys \cup {NoKey}
    BY <2>1 DEF Rc!Report
  <2>3. rc_host' \in [Rc!Types -> Rc!Keys \cup {NoKey}]
    BY <1>9, <2>2 DEF Rc!ReportSent
  <2>4. rc_tx' \in Seq(Rc!Report) /\ Len(rc_tx') <= TxFifo
    BY <1>7, <1>9, <2>1 DEF Rc!ReportSent
  <2> QED
    BY <1>1, <1>9, <2>3, <2>4 DEF Rc!ReportSent
<1>10. CASE Rc!blt_pm_proc
  <2>1. CASE Rc!CancelTerminate
    BY <1>1, <2>1 DEF Rc!CancelTerminate
  <2>2. CASE Rc!TerminateLink
    <3>1. rc_ending' \in BOOLEAN /\ rc_adv' \in BOOLEAN
      BY <2>2, Zenon DEF Rc!TerminateLink
    <3> QED
      BY <1>1, <2>2, <3>1 DEF Rc!TerminateLink
  <2>3. CASE Rc!DeepSleep /\ rc_connFlag' \in BOOLEAN
    <3>1. rc_tx' \in Seq(Rc!Report) /\ Len(rc_tx') <= TxFifo
          /\ rc_host' \in [Rc!Types -> Rc!Keys \cup {NoKey}]
      BY <1>7, <2>3 DEF Rc!DeepSleep, Rc!BleRemoteAssumption
    <3>2. /\ rc_notReleased' \in BOOLEAN /\ rc_voicePress' \in BOOLEAN /\ rc_mic' \in BOOLEAN
          /\ rc_led' \in BOOLEAN /\ rc_asleep' \in BOOLEAN /\ rc_conn' \in BOOLEAN
          /\ rc_adv' \in BOOLEAN /\ rc_ending' \in BOOLEAN /\ rc_userIdle' \in BOOLEAN
          /\ rc_advIdle' \in BOOLEAN
      BY <2>3, Zenon DEF Rc!DeepSleep
    <3> QED
      BY <1>1, <2>3, <3>1, <3>2 DEF Rc!DeepSleep
  <2> QED
    BY <1>10, <2>1, <2>2, <2>3 DEF Rc!blt_pm_proc, Rc!SleepAfterLink, Rc!SleepAfterAdv
<1>11. CASE Rc!Wake
  BY <1>1, <1>11 DEF Rc!Wake, Rc!BleRemoteAssumption
<1>12. CASE Rc!LedEnds \/ Rc!Minute
  <2>1. CASE Rc!LedEnds
    <3>1. rc_led' \in BOOLEAN
      BY <2>1, Zenon DEF Rc!LedEnds
    <3> QED
      BY <1>1, <2>1, <3>1 DEF Rc!LedEnds
  <2>2. CASE Rc!Minute
    BY <1>1, <2>2 DEF Rc!Minute
  <2> QED
    BY <1>12, <2>1, <2>2
<1>13. CASE Rc!User
  <2>1. PICK k \in Rc!Keys : \/ k \notin rc_held /\ Rc!Cardinality(rc_held) < MaxHeld /\ rc_held' = rc_held \cup {k}
                             \/ k \in rc_held /\ rc_held' = rc_held \ {k}
    BY <1>13 DEF Rc!User
  <2>3. IsFiniteSet(rc_held)
    OBVIOUS
  <2>2. rc_held' \subseteq Rc!Keys /\ IsFiniteSet(rc_held') /\ Rc!Cardinality(rc_held') <= MaxHeld
    <3>1. /\ Rc!Cardinality(rc_held) \in Nat /\ MaxHeld \in Nat
          /\ IsFiniteSet(rc_held \cup {k}) /\ IsFiniteSet(rc_held \ {k})
          /\ k \notin rc_held => Rc!Cardinality(rc_held \cup {k}) = Rc!Cardinality(rc_held) + 1
          /\ k \in rc_held => Rc!Cardinality(rc_held \ {k}) = Rc!Cardinality(rc_held) - 1
      <4>1. MaxHeld \in Nat
        BY DEF Rc!BleRemoteAssumption
      <4> QED
        BY ONLY <2>3, <4>1, CountFacts, OneMoreOneLess
    <3>2. CASE k \notin rc_held /\ Rc!Cardinality(rc_held) < MaxHeld /\ rc_held' = rc_held \cup {k}
      BY <3>1, <3>2
    <3>3. CASE k \in rc_held /\ rc_held' = rc_held \ {k}
      BY <3>1, <3>3
    <3> QED
      BY <2>1, <3>2, <3>3
  <2> QED
    BY <1>13, <2>2 DEF Rc!User
<1>14. CASE UNCHANGED Rc!vars
  BY <1>1, <1>14 DEF Rc!vars
<1> QED
  BY <1>2, <1>3, <1>4, <1>5, <1>6, <1>8, <1>9, <1>10, <1>11, <1>12, <1>13, <1>14
     DEF Rc!Next, Rc!Scan

LEMMA ReachStep == ASSUME ReachInv, [Rc!Next]_(Rc!vars) PROVE ReachInv'
<1> USE DEF ReachInv, Rc!keyVars, Rc!linkVars, Rc!backVars
<1>1. CASE Rc!ScanChange \/ Rc!ScanCached \/ Rc!ManualRelease \/ Rc!VoiceStarts
  BY <1>1 DEF Rc!ScanChange, Rc!ScanCached, Rc!ManualRelease, Rc!VoiceStarts
<1>2. CASE Rc!Connect \/ Rc!ReportSent \/ Rc!LedEnds \/ Rc!Minute \/ Rc!User \/ Rc!Wake
  BY <1>2 DEF Rc!Connect, Rc!ReportSent, Rc!LedEnds, Rc!Minute, Rc!User, Rc!Wake
<1>3. CASE Rc!LinkEnds \/ Rc!LinkDrops
  BY <1>3 DEF Rc!LinkEnds, Rc!LinkDrops, Rc!Terminated
<1>4. CASE Rc!blt_pm_proc
  BY <1>4 DEF Rc!blt_pm_proc, Rc!CancelTerminate, Rc!SleepAfterLink, Rc!SleepAfterAdv,
              Rc!TerminateLink, Rc!DeepSleep
<1>5. CASE UNCHANGED Rc!vars
  BY <1>5 DEF Rc!vars
<1> QED
  BY <1>1, <1>2, <1>3, <1>4, <1>5 DEF Rc!Next, Rc!Scan

LEMMA RcStep == ASSUME Rc!BleRemoteAssumption, RcInv, [Rc!Next]_(Rc!vars) PROVE RcInv'
BY TypeStep, ReachStep DEF RcInv

\* key_not_released over a step, with one or two keys at a time.
LEMMA KeyStep ==
  ASSUME Rc!BleRemoteAssumption, ~ FastScan, MaxHeld <= 2, RcInv, KeyInv, [Rc!Next]_(Rc!vars)
  PROVE  KeyInv'
<1> USE DEF KeyInv, Rc!KeyStateRight, Rc!keyVars, Rc!linkVars, Rc!backVars
<1>1. CASE Rc!ScanChange
  <2>1. Rc!Cardinality(rc_held) \in Nat /\ Rc!Cardinality(rc_held) <= 2 /\ Rc!Cardinality({}) = 0
        /\ (Rc!Cardinality(rc_held) = 0 => rc_held = {})
    BY CountFacts DEF RcInv, Rc!TypeOK, Rc!BleRemoteAssumption
  <2>2. CASE Rc!Cardinality(rc_held) = 1
    <3>1. PICK k \in rc_held : Rc!KeyPressed(k)
      BY <1>1, <2>2 DEF Rc!ScanChange, Rc!key_change_proc
    <3> QED
      BY <1>1, <3>1 DEF Rc!ScanChange, Rc!KeyPressed
  <2>4. CASE Rc!Cardinality(rc_held) = 2
    <3>1. rc_held # {}
      BY <2>1, <2>4
    <3> QED
      BY <1>1, <2>4, <3>1 DEF Rc!ScanChange, Rc!key_change_proc, Rc!TwoKeys
  <2>3. CASE Rc!Cardinality(rc_held) = 0
    BY <1>1, <2>1, <2>3 DEF Rc!ScanChange, Rc!key_change_proc, Rc!KeyReleased
  <2> QED
    BY <2>1, <2>2, <2>3, <2>4
<1>2. CASE Rc!ScanCached \/ Rc!ManualRelease
  BY <1>2 DEF Rc!ScanCached, Rc!ManualRelease
<1>3. CASE Rc!VoiceStarts \/ Rc!Connect \/ Rc!ReportSent \/ Rc!LedEnds \/ Rc!Minute \/ Rc!User
  BY <1>3 DEF Rc!VoiceStarts, Rc!Connect, Rc!ReportSent, Rc!LedEnds, Rc!Minute, Rc!User
<1>4. CASE Rc!LinkEnds \/ Rc!LinkDrops
  BY <1>4 DEF Rc!LinkEnds, Rc!LinkDrops, Rc!Terminated
<1>5. CASE Rc!blt_pm_proc
  BY <1>5 DEF Rc!blt_pm_proc, Rc!CancelTerminate, Rc!SleepAfterLink, Rc!SleepAfterAdv,
              Rc!TerminateLink, Rc!DeepSleep
<1>6. CASE Rc!Wake
  BY <1>6 DEF Rc!Wake
<1>7. CASE UNCHANGED Rc!vars
  BY <1>7 DEF Rc!vars
<1> QED
  BY <1>1, <1>2, <1>3, <1>4, <1>5, <1>6, <1>7 DEF Rc!Next, Rc!Scan

\* The microphone over a step.
LEMMA MicStep ==
  ASSUME Rc!BleRemoteAssumption, ~ FastScan, RcInv, MicInv, [Rc!Next]_(Rc!vars)
  PROVE  MicInv'
<1> USE DEF MicInv, Rc!MicWhileHeld, Rc!keyVars, Rc!linkVars, Rc!backVars
<1>1. CASE Rc!ScanChange
  <2>1. Rc!Cardinality(rc_held) \in {1, 2} => rc_held # {}
    BY CountFacts DEF RcInv
  <2>2. CASE Rc!Cardinality(rc_held) = 1
    <3>1. PICK k \in rc_held : Rc!KeyPressed(k)
      BY <1>1, <2>2 DEF Rc!ScanChange, Rc!key_change_proc
    <3>2. /\ rc_mic' => rc_mic
          /\ rc_seen' # {} /\ rc_conn' = rc_conn /\ rc_back' = rc_back
      BY <1>1, <3>1 DEF Rc!ScanChange, Rc!KeyPressed
    <3> QED
      BY <3>2
  <2>3. CASE Rc!Cardinality(rc_held) = 2
    BY <1>1, <2>1, <2>3 DEF Rc!ScanChange, Rc!key_change_proc, Rc!TwoKeys
  <2>4. CASE Rc!Cardinality(rc_held) \notin {1, 2}
    BY <1>1, <2>4 DEF Rc!ScanChange, Rc!key_change_proc, Rc!KeyReleased
  <2> QED
    BY <2>2, <2>3, <2>4
<1>2. CASE Rc!ScanCached \/ Rc!ManualRelease
  BY <1>2 DEF Rc!ScanCached, Rc!ManualRelease
<1>3. CASE Rc!VoiceStarts \/ Rc!Connect \/ Rc!ReportSent \/ Rc!LedEnds \/ Rc!Minute \/ Rc!User
  BY <1>3 DEF Rc!VoiceStarts, Rc!Connect, Rc!ReportSent, Rc!LedEnds, Rc!Minute, Rc!User
<1>4. CASE Rc!LinkEnds \/ Rc!LinkDrops
  BY <1>4 DEF Rc!LinkEnds, Rc!LinkDrops, Rc!Terminated
<1>5. CASE Rc!blt_pm_proc
  BY <1>5 DEF Rc!blt_pm_proc, Rc!CancelTerminate, Rc!SleepAfterLink, Rc!SleepAfterAdv,
              Rc!TerminateLink, Rc!DeepSleep
<1>6. CASE Rc!Wake
  BY <1>6 DEF Rc!Wake
<1>7. CASE UNCHANGED Rc!vars
  BY <1>7 DEF Rc!vars
<1> QED
  BY <1>1, <1>2, <1>3, <1>4, <1>5, <1>6, <1>7 DEF Rc!Next, Rc!Scan

\* What the host will take to be down, over a step of a user who waits.
LEMMA CalmStep ==
  ASSUME Rc!BleRemoteAssumption, ~ FastScan, MaxHeld = 1, Patient, RcInv, CalmInv,
         [Rc!Next]_(Rc!vars)
  PROVE  CalmInv'
<1> USE DEF CalmInv, Rc!keyVars, Rc!linkVars, Rc!backVars
<1>1. /\ rc_tx \in Seq(Rc!Report) /\ Len(rc_tx) \in Nat /\ (Len(rc_tx) = 0 => rc_tx = <<>>)
      /\ TxFifo \in Nat \ {0} /\ Rc!Types = {"keyboard", "consumer"}
      /\ rc_host \in [Rc!Types -> Rc!Keys \cup {NoKey}]
      /\ \A t \in Rc!Types : Rc!NothingDown[t] = NoKey
      /\ IsFiniteSet(rc_held) /\ Rc!Cardinality(rc_held) <= 1
  BY DEF RcInv, Rc!TypeOK, Rc!BleRemoteAssumption, Rc!Types, Rc!NothingDown
<1>2. /\ Rc!Cardinality(rc_held) \in Nat
      /\ Rc!Cardinality(rc_held) = 0 => rc_held = {}
      /\ Rc!Cardinality(rc_held) = 1 => rc_held # {}
  <2>1. IsFiniteSet(rc_held)
    BY <1>1
  <2> QED
    BY ONLY <2>1, CountFacts
<1>3. ASSUME NEW r \in Rc!Report, Rc!Push(r), rc_tx = <<>>
      PROVE  /\ Len(rc_tx') <= 1 /\ rc_tx' \in {<<>>, <<r>>}
             /\ rc_conn => rc_tx' = <<r>>
             /\ ~ rc_conn => rc_tx' = <<>>
  <2>1. Append(<<>>, r) = <<r>> /\ Len(<<>>) = 0 /\ Len(<<r>>) = 1
    OBVIOUS
  <2>2. CASE rc_conn
    BY <1>1, <1>3, <2>1, <2>2 DEF Rc!Push
  <2>3. CASE ~ rc_conn
    BY <1>1, <1>3, <2>1, <2>3 DEF Rc!Push
  <2> QED
    BY <2>2, <2>3
<1>4. CASE Rc!ScanChange
  <2>1. rc_tx = <<>> /\ rc_seen' = rc_held /\ rc_held' = rc_held /\ ~ rc_asleep /\ ~ rc_asleep'
        /\ rc_host' = rc_host /\ rc_conn' = rc_conn /\ rc_back' = rc_back /\ rc_seen # rc_held
    BY <1>4 DEF Rc!ScanChange
  <2>2. \A t \in Rc!Types : AtHost(t) = rc_host[t]
    BY <2>1 DEF AtHost
  <2>3. CASE Rc!Cardinality(rc_held) = 1
    <3>1. rc_held # {} /\ rc_seen = {}
      BY <1>2, <2>1, <2>3
    <3>2. \A t \in Rc!Types : rc_host[t] = NoKey
      BY <2>2, <3>1
    <3>3. PICK k \in rc_held : Rc!KeyPressed(k)
      BY <1>4, <2>3 DEF Rc!ScanChange, Rc!key_change_proc
    <3>4. CASE rc_tx' = rc_tx
      BY <2>1, <3>1, <3>2, <3>4, <1>1 DEF AtHost
    <3>5. ASSUME NEW u \in Rc!Types, Rc!Push([type |-> u, key |-> k]), rc_keyType' = u
          PROVE  CalmInv'
      <4>1. k \in Rc!Keys
        BY DEF RcInv, Rc!TypeOK
      <4>2. [type |-> u, key |-> k] \in Rc!Report
        BY <4>1 DEF Rc!Report
      <4>3. /\ Len(rc_tx') <= 1 /\ rc_tx' \in {<<>>, <<[type |-> u, key |-> k]>>}
            /\ ~ rc_conn => rc_tx' = <<>>
        BY <1>3, <2>1, <3>5, <4>2
      <4>4. \A t \in Rc!Types : AtHost(t)' # NoKey => rc_keyType' = t /\ rc_seen' # {}
        <5>1. CASE rc_tx' = <<>>
          BY <2>1, <3>2, <5>1 DEF AtHost
        <5>2. CASE rc_tx' = <<[type |-> u, key |-> k]>>
          <6>1. rc_tx'[1].type = u
            BY <5>2
          <6> QED
            BY <2>1, <3>1, <3>2, <3>5, <6>1 DEF AtHost
        <5> QED
          BY <4>3, <5>1, <5>2
      <4> QED
        BY <2>1, <3>1, <4>3, <4>4
    <3>6. \/ rc_tx' = rc_tx
          \/ Rc!Push([type |-> "keyboard", key |-> k]) /\ rc_keyType' = "keyboard"
          \/ Rc!Push([type |-> "consumer", key |-> k]) /\ rc_keyType' = "consumer"
      BY <3>3 DEF Rc!KeyPressed
    <3> QED
      BY <1>1, <3>4, <3>5, <3>6
  <2>4. CASE Rc!Cardinality(rc_held) = 0
    <3>1. rc_held = {} /\ Rc!KeyReleased
      BY <1>2, <1>4, <2>4 DEF Rc!ScanChange, Rc!key_change_proc
    <3>2. CASE rc_keyType \in Rc!Types
      <4> DEFINE rep == [type |-> rc_keyType, key |-> NoKey]
      <4>1. rep \in Rc!Report /\ Rc!Push(rep)
        BY <3>1, <3>2 DEF Rc!Report, Rc!KeyReleased
      <4>2. /\ Len(rc_tx') <= 1
            /\ rc_conn => rc_tx' = <<rep>>
            /\ ~ rc_conn => rc_tx' = <<>>
        <5> HIDE DEF rep
        <5> QED
          BY <1>3, <2>1, <4>1
      <4>3. \A t \in Rc!Types : AtHost(t)' = NoKey
        <5>1. CASE rc_conn
          <6>3. rc_tx' = <<rep>>
            <7> HIDE DEF rep
            <7> QED
              BY <4>2, <5>1
          <6>4. <<rep>> # <<>> /\ <<rep>>[1].type = rc_keyType /\ <<rep>>[1].key = NoKey
            BY ONLY TRUE
          <6>1. rc_tx' # <<>> /\ rc_tx'[1].type = rc_keyType /\ rc_tx'[1].key = NoKey
            <7> HIDE DEF rep
            <7> QED
              BY <6>3, <6>4
          <6>2. \A t \in Rc!Types : t # rc_keyType => rc_host[t] = NoKey
            BY <2>2
          <6> QED
            BY <2>1, <6>1, <6>2 DEF AtHost
        <5>2. CASE ~ rc_conn
          BY <1>1, <2>1, <4>2, <5>2 DEF AtHost
        <5> QED
          BY <5>1, <5>2
      <4> HIDE DEF rep
      <4> QED
        BY <2>1, <3>1, <4>2, <4>3
    <3>3. CASE rc_keyType \notin Rc!Types
      <4>1. rc_tx' = rc_tx
        BY <3>1, <3>3 DEF Rc!KeyReleased
      <4>2. \A t \in Rc!Types : rc_host[t] = NoKey
        BY <2>2, <3>3
      <4> QED
        BY <1>1, <2>1, <3>1, <4>1, <4>2 DEF AtHost
    <3> QED
      BY <3>2, <3>3
  <2> QED
    BY <1>1, <1>2, <2>3, <2>4
<1>5. CASE Rc!ScanCached \/ Rc!ManualRelease
  BY <1>5 DEF Rc!ScanCached, Rc!ManualRelease
<1>6. CASE Rc!VoiceStarts \/ Rc!Connect \/ Rc!LedEnds \/ Rc!Minute
  BY <1>6 DEF Rc!VoiceStarts, Rc!Connect, Rc!LedEnds, Rc!Minute, AtHost
<1>7. CASE Rc!User
  <2>1. rc_asleep \/ (rc_seen = rc_held /\ rc_tx = <<>>)
    BY <1>7 DEF Rc!User
  <2>2. rc_tx = <<>>
    BY <2>1
  <2>3. rc_seen = {} \/ rc_held' = {}
    <3>1. CASE rc_asleep
      BY <3>1
    <3>2. CASE rc_seen = rc_held
      <4>1. ASSUME Rc!Cardinality(rc_held) < 1 PROVE rc_held = {}
        BY <1>2, <4>1
      <4>2. ASSUME NEW k \in rc_held PROVE rc_held \ {k} = {}
        <5>1. /\ IsFiniteSet(rc_held \ {k}) /\ Rc!Cardinality(rc_held \ {k}) = Rc!Cardinality(rc_held) - 1
          <6>1. IsFiniteSet(rc_held) /\ k \in rc_held
            BY <1>1
          <6> QED
            BY ONLY <6>1, OneMoreOneLess
        <5>2. /\ Rc!Cardinality(rc_held \ {k}) \in Nat
              /\ Rc!Cardinality(rc_held \ {k}) = 0 => rc_held \ {k} = {}
          BY ONLY <5>1, CountFacts
        <5> QED
          BY <1>1, <1>2, <5>1, <5>2
      <4> QED
        BY <1>7, <3>2, <4>1, <4>2 DEF Rc!User
    <3> QED
      BY <2>1, <3>1, <3>2
  <2> QED
    BY <1>7, <2>2, <2>3 DEF Rc!User, AtHost
<1>8. CASE Rc!LinkEnds \/ Rc!LinkDrops
  <2>1. rc_tx' = <<>> /\ rc_host' = Rc!NothingDown
    BY <1>8 DEF Rc!LinkEnds, Rc!LinkDrops, Rc!Terminated
  <2>2. \A t \in Rc!Types : AtHost(t)' = NoKey
    BY <1>1, <2>1 DEF AtHost
  <2>3. Rc!NothingDown' = Rc!NothingDown
    BY DEF Rc!NothingDown, Rc!Types
  <2> QED
    BY <1>8, <2>1, <2>2, <2>3 DEF Rc!LinkEnds, Rc!LinkDrops, Rc!Terminated
<1>9. CASE Rc!ReportSent
  <2>1. rc_tx # <<>> /\ Len(rc_tx) = 1 /\ Head(rc_tx) = rc_tx[1] /\ rc_tx[1] \in Rc!Report
        /\ Tail(rc_tx) = <<>>
    <3>3. rc_tx # <<>>
      BY <1>9 DEF Rc!ReportSent
    <3>4. Len(rc_tx) <= 1
      OBVIOUS
    <3>1. rc_tx # <<>> /\ Len(rc_tx) = 1
      <4>1. Len(rc_tx) \in Nat /\ (Len(rc_tx) = 0 => rc_tx = <<>>)
        BY <1>1
      <4> QED
        <5>1. Len(rc_tx) # 0
          BY ONLY <3>3, <4>1, Zenon
        <5>2. \A n \in Nat : n <= 1 /\ n # 0 => n = 1
          OBVIOUS
        <5> QED
          BY ONLY <3>3, <3>4, <4>1, <5>1, <5>2, Zenon
    <3>5. rc_tx \in Seq(Rc!Report)
      BY <1>1
    <3>2. Tail(rc_tx) \in Seq(Rc!Report) /\ Len(Tail(rc_tx)) = 0 /\ Head(rc_tx) = rc_tx[1]
          /\ rc_tx[1] \in Rc!Report
      BY ONLY <3>1, <3>5
    <3>6. \A s \in Seq(Rc!Report) : Len(s) = 0 => s = <<>>
      OBVIOUS
    <3>7. Tail(rc_tx) = <<>>
      BY ONLY <3>2, <3>6, Zenon
    <3> QED
      BY ONLY <3>1, <3>2, <3>7
  <2>2. rc_tx' = <<>> /\ rc_host' = [rc_host EXCEPT ![rc_tx[1].type] = rc_tx[1].key]
    BY <1>9, <2>1 DEF Rc!ReportSent
  <2>3. rc_tx[1].type \in Rc!Types
    BY <2>1 DEF Rc!Report
  <2>4. \A t \in Rc!Types : AtHost(t)' = AtHost(t)
    BY <1>1, <2>1, <2>2, <2>3 DEF AtHost
  <2> QED
    BY <1>9, <2>2, <2>4 DEF Rc!ReportSent
<1>10. CASE Rc!blt_pm_proc
  <2>1. CASE Rc!CancelTerminate
    BY <2>1 DEF Rc!CancelTerminate, AtHost
  <2>2. CASE Rc!TerminateLink
    BY <2>2 DEF Rc!TerminateLink, AtHost
  <2>3. CASE Rc!DeepSleep
    <3>1. rc_tx' = <<>> /\ rc_host' = Rc!NothingDown
      BY <2>3 DEF Rc!DeepSleep
    <3>2. \A t \in Rc!Types : AtHost(t)' = NoKey
      BY <1>1, <3>1 DEF AtHost
    <3>3. Rc!NothingDown' = Rc!NothingDown
      BY DEF Rc!NothingDown, Rc!Types
    <3> QED
      BY <2>3, <3>1, <3>2, <3>3 DEF Rc!DeepSleep
  <2> QED
    BY <1>10, <2>1, <2>2, <2>3 DEF Rc!blt_pm_proc, Rc!SleepAfterLink, Rc!SleepAfterAdv
<1>11. CASE Rc!Wake
  BY <1>11 DEF Rc!Wake, AtHost
<1>12. CASE UNCHANGED Rc!vars
  BY <1>12 DEF Rc!vars, AtHost
<1> QED
  BY <1>4, <1>5, <1>6, <1>7, <1>8, <1>9, <1>10, <1>11, <1>12 DEF Rc!Next, Rc!Scan

\* At the start nothing is down and nothing was reported.
LEMMA RcStart == ASSUME Rc!Init PROVE KeyInv /\ MicInv /\ CalmInv
<1>1. \A t \in Rc!Types : AtHost(t) = NoKey
  BY DEF Rc!Init, AtHost, Rc!NothingDown
<1>2. Len(rc_tx) = 0
  BY DEF Rc!Init
<1> QED
  BY <1>1, <1>2 DEF Rc!Init, KeyInv, MicInv, CalmInv, Rc!KeyStateRight, Rc!MicWhileHeld

LEMMA RcInvNeverMute == RcInv => Rc!NeverMute
BY DEF RcInv, ReachInv, Rc!NeverMute

LEMMA CalmInvNoStuckKey == RcInv /\ CalmInv => Rc!NoStuckKey
<1> SUFFICES ASSUME RcInv, CalmInv, rc_seen = {}, rc_tx = <<>> PROVE rc_host = Rc!NothingDown
  BY DEF Rc!NoStuckKey
<1>1. \A t \in Rc!Types : rc_host[t] = NoKey
  BY DEF CalmInv, AtHost
<1>2. rc_host \in [Rc!Types -> Rc!Keys \cup {NoKey}]
  BY DEF RcInv, Rc!TypeOK
<1> QED
  BY <1>1, <1>2 DEF Rc!NothingDown

LEMMA RcHolds == ASSUME Rc!BleRemoteAssumption PROVE Rc!Spec => []RcInv
<1>1. Rc!Init => RcInv
  BY RcInitInv
<1>2. RcInv /\ [Rc!Next]_(Rc!vars) => RcInv'
  BY RcStep
<1> QED
  BY <1>1, <1>2, PTL DEF Rc!Spec

\* The state of the keys, the link and the reports have their types, however many
\* keys are down and whether or not keys are kept over deep sleep.
THEOREM RcTypeCorrect == ASSUME Rc!BleRemoteAssumption PROVE Rc!Spec => []Rc!TypeOK
<1>1. RcInv => Rc!TypeOK
  BY DEF RcInv
<1> QED
  BY <1>1, RcHolds, PTL

\* blt_pm_proc turns advertising off only with a link that it ends and sleeps
\* after: the remote can be reached whenever it is awake.
THEOREM RcCanBeReached == ASSUME Rc!BleRemoteAssumption PROVE Rc!Spec => []Rc!NeverMute
<1> QED
  BY RcInvNeverMute, RcHolds, PTL

\* key_not_released follows the keys as long as no more than two are down (a third
\* takes the branch of the release) and none is kept over deep sleep, as shipped.
THEOREM RcAwakeWithKeys ==
  ASSUME Rc!BleRemoteAssumption, ~ FastScan, MaxHeld <= 2
  PROVE  Rc!Spec => []Rc!KeyStateRight
<1>1. Rc!Init => KeyInv
  BY RcStart
<1>2. RcInv /\ KeyInv /\ [Rc!Next]_(Rc!vars) => KeyInv'
  BY KeyStep
<1>3. KeyInv => Rc!KeyStateRight
  BY DEF KeyInv
<1> QED
  BY <1>1, <1>2, <1>3, RcHolds, PTL DEF Rc!Spec

\* However many keys are down, the microphone is on only over a link and with a key down.
THEOREM RcMicrophone ==
  ASSUME Rc!BleRemoteAssumption, ~ FastScan
  PROVE  Rc!Spec => []Rc!MicWhileHeld
<1>1. Rc!Init => MicInv
  BY RcStart
<1>2. RcInv /\ MicInv /\ [Rc!Next]_(Rc!vars) => MicInv'
  BY MicStep
<1>3. MicInv => Rc!MicWhileHeld
  BY DEF MicInv
<1> QED
  BY <1>1, <1>2, <1>3, RcHolds, PTL DEF Rc!Spec

\* With one key at a time and a user who lets each be reported, the host takes no key
\* to be down when none is, for any set of keys and any room for reports.
THEOREM RcNoKeyStuck ==
  ASSUME Rc!BleRemoteAssumption, ~ FastScan, MaxHeld = 1, Patient
  PROVE  Rc!Spec => []Rc!NoStuckKey
<1>1. Rc!Init => CalmInv
  BY RcStart
<1>2. RcInv /\ CalmInv /\ [Rc!Next]_(Rc!vars) => CalmInv'
  BY CalmStep
<1> QED
  BY <1>1, <1>2, CalmInvNoStuckKey, RcHolds, PTL DEF Rc!Spec

-----------------------------------------------------------------------------
(***************************************************************************)
(* The LED of a device, for any events, any count that stands for without   *)
(* an end and any lateness of the main loop.                               *)
(***************************************************************************)
CONSTANTS Configs, Forever, Width, MaxLate
VARIABLES led_led, led_elapsed, led_event, led_age, led_shone

Lamp == INSTANCE LedEvents WITH
  led <- led_led, elapsed <- led_elapsed, event <- led_event, age <- led_age, shone <- led_shone

LampVars == [isOn : BOOLEAN, repeat : Nat, priority : Nat, on : Nat, off : Nat]

\* The time that an event takes until its last k repeats.
Passed(c, k) == (c.repeat - k) * (c.on + c.off)

\* An event of one phase.
Alone == led_led.repeat = 1 /\ led_age = led_elapsed
\* The LED stays off for all of the event's repeats at once;
Dark == Alone /\ led_event.on = 0 /\ ~ led_led.isOn /\ led_shone = 0
        /\ led_led.on = 0 /\ led_led.off = led_event.off * led_event.repeat
\* stays on for them;
Lit == Alone /\ led_event.on # 0 /\ led_event.off = 0 /\ led_led.isOn /\ led_shone = 1
           /\ led_led.on = led_event.on * led_event.repeat /\ led_led.off = 0
\* or goes on and off for each.
Flashing ==
  /\ led_event.on # 0 /\ led_event.off # 0
  /\ led_led.on = led_event.on /\ led_led.off = led_event.off
  /\ led_led.repeat \in 1 .. led_event.repeat
  /\ led_age = led_elapsed + Passed(led_event, led_led.repeat) + (IF led_led.isOn THEN 0 ELSE led_event.on)
  /\ led_shone = led_event.repeat - led_led.repeat + 1

\* While an event runs, the LED is in one of the three ways to carry it out, and the time and the
\* flashes behind it add up with those ahead of it.
LampInv ==
  /\ Lamp!TypeOK
  /\ Lamp!ShoneAsAsked
  /\ Lamp!busy => /\ led_event \in Configs /\ led_event.repeat # Forever
                  /\ led_led.priority = led_event.priority
                  /\ Dark \/ Lit \/ Flashing

-----------------------------------------------------------------------------
\* Of n rounds of time p, with k of them ahead.
LEMMA Rounds ==
  ASSUME NEW p \in Nat, NEW n \in Nat, NEW k \in 1 .. n
  PROVE  /\ (n - k) * p \in Nat /\ n * p \in Nat /\ p * n = n * p
         /\ (n - (k - 1)) * p = (n - k) * p + p
         /\ (n - k) * p + p <= n * p
         /\ (n - n) * p = 0 /\ (n - 1) * p + p = n * p
<1>1. PICK d \in Nat : d = n - k
  OBVIOUS
<1>2. PICK e \in Nat : e = k - 1
  OBVIOUS
<1>3. d * p \in Nat /\ e * p \in Nat /\ n * p \in Nat /\ p * n = n * p
  BY SMT
<1>4. (d + 1) * p = d * p + p /\ (d + 1 + e) * p = d * p + p + e * p
  BY SMT
<1>5. n = d + 1 + e /\ n - (k - 1) = d + 1 /\ n - k = d
  BY <1>1, <1>2
<1>6. (n - (k - 1)) * p = (n - k) * p + p /\ n * p = (n - k) * p + p + e * p
  BY <1>4, <1>5
<1>7. (n - n) * p = 0
  <2>1. n - n = 0 /\ 0 * p = 0
    BY SMT
  <2> QED BY <2>1
<1>8. (n - 1) * p + p = n * p
  <2>1. PICK f \in Nat : f = n - 1 /\ n = f + 1
    OBVIOUS
  <2>2. (f + 1) * p = f * p + p
    BY SMT
  <2> QED BY <2>1, <2>2
<1> QED BY <1>1, <1>3, <1>5, <1>6, <1>7, <1>8

\* What the configurations are.
LEMMA EventTypes ==
  ASSUME Lamp!LedEventsAssumption, NEW c \in Configs
  PROVE  /\ c.on \in Nat /\ c.off \in Nat /\ c.repeat \in Nat \ {0} /\ c.priority \in Nat
         /\ c.on + c.off > 0
  BY DEF Lamp!LedEventsAssumption

\* The times that are joined into one are what they are without a width.
LEMMA JoinedTimes ==
  ASSUME Lamp!LedEventsAssumption, Lamp!TimesFit, NEW c \in Configs, c.repeat # Forever
  PROVE  /\ c.on = 0 => (c.off * c.repeat) % Width = c.off * c.repeat
         /\ c.off = 0 => (c.on * c.repeat) % Width = c.on * c.repeat
<1>1. /\ c.on \in Nat /\ c.off \in Nat /\ c.repeat \in Nat \ {0} /\ Width \in Nat \ {0}
  BY EventTypes DEF Lamp!LedEventsAssumption
<1>2. 0 \in {c.on, c.off} => (c.on + c.off) * c.repeat < Width
  BY DEF Lamp!TimesFit
<1>3. \A x \in Nat, w \in Nat \ {0} : x < w => x % w = x
  BY SMT
<1>4. \A x, y \in Nat : x * y \in Nat
  BY SMT
<1>5. CASE c.on = 0
  <2>1. c.on + c.off = c.off /\ c.off * c.repeat \in Nat
    BY <1>1, <1>4, <1>5
  <2>2. c.off * c.repeat < Width
    BY <1>2, <1>5, <2>1
  <2>3. (c.off * c.repeat) % Width = c.off * c.repeat
    BY <1>1, <1>3, <2>1, <2>2
  <2>4. c.off = 0 => c.on * c.repeat = c.off * c.repeat
    BY <1>5
  <2> QED BY <2>3, <2>4
<1>6. CASE c.on # 0
  <2>1. c.off = 0 => c.on + c.off = c.on /\ c.on * c.repeat \in Nat
    BY <1>1, <1>4
  <2>2. c.off = 0 => c.on * c.repeat < Width
    BY <1>2, <2>1
  <2> QED BY <1>1, <1>3, <1>6, <2>1, <2>2
<1> QED BY <1>5, <1>6

\* device_led_setup carries out the configuration in one of the three ways, or without an end.
LEMMA EventBegins ==
  ASSUME Lamp!LedEventsAssumption, Lamp!TimesFit, LampInv, NEW c \in Configs, Lamp!device_led_setup(c)
  PROVE  LampInv'
<1>0. /\ c.on \in Nat /\ c.off \in Nat /\ c.repeat \in Nat \ {0} /\ c.priority \in Nat
      /\ c.on + c.off > 0 /\ Forever \in Nat \ {0} /\ MaxLate \in Nat
  BY EventTypes DEF Lamp!LedEventsAssumption
<1>1. /\ led_elapsed' = 0 /\ led_event' = c /\ led_age' = 0
      /\ led_shone' = IF led_led'.isOn THEN 1 ELSE 0
  BY DEF Lamp!device_led_setup
<1> DEFINE p == Lamp!Pattern(c)
<1>2. led_led' = [isOn |-> p.on # 0, repeat |-> p.repeat, priority |-> c.priority, on |-> p.on, off |-> p.off]
  BY DEF Lamp!device_led_setup
<1>3. c.on * c.repeat \in Nat /\ c.off * c.repeat \in Nat
  <2>1. \A x, y \in Nat : x * y \in Nat
    BY SMT
  <2> QED BY <1>0, <2>1
<1>4. CASE c.repeat = Forever
  <2>1. p = [on |-> c.on, off |-> c.off, repeat |-> 0]
    BY <1>4 DEF Lamp!Pattern
  <2> HIDE DEF p
  <2>2. /\ (led_led'.isOn <=> c.on # 0) /\ led_led'.repeat = 0 /\ led_led'.priority = c.priority
        /\ led_led'.on = c.on /\ led_led'.off = c.off
    BY <1>2, <2>1
  <2>3. led_led' \in LampVars
    BY <1>0, <1>2, <2>1 DEF LampVars
  <2>4. Lamp!TypeOK'
    BY <1>0, <1>1, <2>3 DEF Lamp!TypeOK, LampVars
  <2>5. Lamp!ShoneAsAsked' /\ ~ Lamp!busy'
    BY <1>0, <1>1, <1>4, <2>2 DEF Lamp!ShoneAsAsked, Lamp!busy, Lamp!Flashes, Lamp!Length
  <2> QED BY <2>4, <2>5 DEF LampInv
<1>5. CASE c.repeat # Forever /\ c.on = 0
  <2>1. p = [on |-> 0, off |-> c.off * c.repeat, repeat |-> 1]
    BY <1>5, JoinedTimes DEF Lamp!Pattern
  <2> HIDE DEF p
  <2>2. /\ ~ led_led'.isOn /\ led_led'.repeat = 1 /\ led_led'.priority = c.priority
        /\ led_led'.on = 0 /\ led_led'.off = c.off * c.repeat
    BY <1>2, <2>1
  <2>3. led_led' \in LampVars
    BY <1>0, <1>2, <1>3, <2>1 DEF LampVars
  <2>4. Lamp!TypeOK'
    BY <1>0, <1>1, <2>3 DEF Lamp!TypeOK, LampVars
  <2>5. Dark' /\ Lamp!busy'
    BY <1>1, <1>5, <2>2 DEF Dark, Alone, Lamp!busy
  <2> QED BY <1>1, <1>5, <2>2, <2>4, <2>5 DEF LampInv, Lamp!ShoneAsAsked
<1>6. CASE c.repeat # Forever /\ c.on # 0 /\ c.off = 0
  <2>1. p = [on |-> c.on * c.repeat, off |-> 0, repeat |-> 1]
    BY <1>6, JoinedTimes DEF Lamp!Pattern
  <2>0. c.on * c.repeat # 0
    <3>1. \A x, y \in Nat \ {0} : x * y # 0
      BY SMT
    <3> QED BY <1>0, <1>6, <3>1
  <2> HIDE DEF p
  <2>2. /\ led_led'.isOn /\ led_led'.repeat = 1 /\ led_led'.priority = c.priority
        /\ led_led'.on = c.on * c.repeat /\ led_led'.off = 0
    BY <1>2, <2>0, <2>1
  <2>3. led_led' \in LampVars
    BY <1>0, <1>2, <1>3, <2>1 DEF LampVars
  <2>4. Lamp!TypeOK'
    BY <1>0, <1>1, <2>3 DEF Lamp!TypeOK, LampVars
  <2>5. Lit' /\ Lamp!busy'
    BY <1>1, <1>6, <2>2 DEF Lit, Alone, Lamp!busy
  <2> QED BY <1>1, <1>6, <2>2, <2>4, <2>5 DEF LampInv, Lamp!ShoneAsAsked
<1>7. CASE c.repeat # Forever /\ c.on # 0 /\ c.off # 0
  <2>1. p = [on |-> c.on, off |-> c.off, repeat |-> c.repeat]
    BY <1>7 DEF Lamp!Pattern
  <2> HIDE DEF p
  <2>2. /\ led_led'.isOn /\ led_led'.repeat = c.repeat /\ led_led'.priority = c.priority
        /\ led_led'.on = c.on /\ led_led'.off = c.off
    BY <1>2, <1>7, <2>1
  <2>3. led_led' \in LampVars
    BY <1>0, <1>2, <2>1 DEF LampVars
  <2>4. Lamp!TypeOK'
    BY <1>0, <1>1, <2>3 DEF Lamp!TypeOK, LampVars
  <2>5. Passed(c, c.repeat) = 0
    <3>1. (c.repeat - c.repeat) = 0 /\ c.on + c.off \in Nat
      BY <1>0
    <3>2. \A x \in Nat : 0 * x = 0
      BY SMT
    <3> QED BY <3>1, <3>2 DEF Passed
  <2>6. Passed(led_event, led_led.repeat)' = 0
    BY <1>1, <2>2, <2>5 DEF Passed
  <2>7. Flashing' /\ Lamp!busy'
    BY <1>0, <1>1, <1>7, <2>2, <2>6 DEF Flashing, Lamp!busy
  <2> QED BY <1>1, <1>7, <2>2, <2>4, <2>7 DEF LampInv, Lamp!ShoneAsAsked
<1> QED BY <1>4, <1>5, <1>6, <1>7

\* A turn of led_proc moves one phase from ahead to behind, with the time it took.
LEMMA LampTurn ==
  ASSUME Lamp!LedEventsAssumption, LampInv, Lamp!led_proc \/ Lamp!Tick
  PROVE  LampInv'
<1>0. /\ Lamp!TypeOK /\ Lamp!busy /\ led_event \in Configs /\ led_event.repeat # Forever
      /\ led_led.priority = led_event.priority /\ (Dark \/ Lit \/ Flashing)
      /\ UNCHANGED led_event
  BY DEF LampInv, Lamp!led_proc, Lamp!Tick, Lamp!SwitchOff, Lamp!SwitchOn
<1>1. /\ led_event.on \in Nat /\ led_event.off \in Nat /\ led_event.repeat \in Nat \ {0}
      /\ led_event.on + led_event.off > 0 /\ Forever \in Nat \ {0} /\ MaxLate \in Nat
  BY <1>0, EventTypes DEF Lamp!LedEventsAssumption
<1>2. led_led \in LampVars /\ led_elapsed \in 0 .. MaxLate /\ led_age \in Nat /\ led_shone \in Nat
  BY <1>0 DEF Lamp!TypeOK, LampVars
<1>3. CASE Lamp!Tick
  <2>1. /\ UNCHANGED <<led_led, led_event, led_shone>> /\ led_elapsed' = led_elapsed + 1
        /\ led_age' = led_age + 1 /\ led_elapsed < MaxLate
    BY <1>3 DEF Lamp!Tick
  <2>2. Lamp!TypeOK'
    BY <1>0, <1>1, <1>2, <2>1 DEF Lamp!TypeOK
  <2>3. Lamp!busy' /\ Lamp!ShoneAsAsked'
    BY <1>0, <2>1 DEF Lamp!busy, Lamp!ShoneAsAsked
  <2>4. Dark => Dark'
    BY <2>1 DEF Dark, Alone
  <2>5. Lit => Lit'
    BY <2>1 DEF Lit, Alone
  <2>6. Flashing => Flashing'
    <3> SUFFICES ASSUME Flashing PROVE Flashing'
      OBVIOUS
    <3>1. led_led.repeat \in 1 .. led_event.repeat
      BY DEF Flashing
    <3>2. Passed(led_event, led_led.repeat) \in Nat
      BY <1>1, <3>1, Rounds DEF Passed
    <3>3. Passed(led_event, led_led.repeat)' = Passed(led_event, led_led.repeat)
      BY <2>1 DEF Passed
    <3> QED BY <1>1, <1>2, <2>1, <3>2, <3>3 DEF Flashing
  <2> QED BY <1>0, <2>1, <2>2, <2>3, <2>4, <2>5, <2>6 DEF LampInv
<1>4. CASE Lamp!SwitchOff
  <2>1. /\ led_led.isOn /\ led_elapsed > led_led.on /\ UNCHANGED <<led_event, led_age, led_shone>>
    BY <1>4 DEF Lamp!SwitchOff
  <2>2. CASE Lit
    <3>1. led_led' = [led_led EXCEPT !.isOn = FALSE, !.repeat = 0] /\ UNCHANGED led_elapsed
      BY <1>4, <2>2 DEF Lamp!SwitchOff, Lit
    <3>2. led_led' \in LampVars /\ ~ led_led'.isOn /\ led_led'.repeat = 0
      BY <1>2, <3>1 DEF LampVars
    <3>3. Lamp!TypeOK'
      BY <1>0, <2>1, <3>1, <3>2 DEF Lamp!TypeOK, LampVars
    <3>4. led_age >= Lamp!Length(led_event)
      <4>1. led_age > led_event.on * led_event.repeat /\ led_event.on + led_event.off = led_event.on
        BY <1>1, <1>2, <2>1, <2>2 DEF Lit, Alone
      <4>2. led_event.on * led_event.repeat \in Nat
        <5>1. \A x, y \in Nat : x * y \in Nat
          BY SMT
        <5> QED BY <1>1, <5>1
      <4>3. Lamp!Length(led_event) = led_event.on * led_event.repeat
        BY <1>0, <4>1 DEF Lamp!Length
      <4> QED BY <1>2, <4>1, <4>2, <4>3
    <3>5. Lamp!Length(led_event)' = Lamp!Length(led_event) /\ led_shone' = Lamp!Flashes(led_event)'
      BY <1>0, <2>1, <2>2 DEF Lamp!Length, Lamp!Flashes, Lit
    <3>6. Lamp!ShoneAsAsked' /\ ~ Lamp!busy'
      BY <1>0, <2>1, <3>2, <3>4, <3>5 DEF Lamp!ShoneAsAsked, Lamp!busy
    <3> QED BY <3>3, <3>6 DEF LampInv
  <2>3. CASE Flashing
    <3>1. led_led' = [led_led EXCEPT !.isOn = FALSE] /\ led_elapsed' = led_elapsed - led_event.on
      BY <1>4, <2>3 DEF Lamp!SwitchOff, Lamp!After, Flashing
    <3>2. /\ led_led' \in LampVars /\ ~ led_led'.isOn /\ led_led'.repeat = led_led.repeat
          /\ led_led'.priority = led_led.priority /\ led_led'.on = led_led.on
          /\ led_led'.off = led_led.off
      BY <1>2, <3>1 DEF LampVars
    <3>3. led_elapsed' \in 0 .. MaxLate
      BY <1>1, <1>2, <2>1, <2>3, <3>1 DEF Flashing
    <3>4. Lamp!TypeOK'
      BY <1>0, <2>1, <3>2, <3>3 DEF Lamp!TypeOK, LampVars
    <3>5. Passed(led_event, led_led.repeat)' = Passed(led_event, led_led.repeat)
      BY <2>1, <3>2 DEF Passed
    <3>6. Passed(led_event, led_led.repeat) \in Nat
      BY <1>1, <2>3, Rounds DEF Passed, Flashing
    <3>7. Flashing'
      BY <1>1, <1>2, <2>1, <2>3, <3>1, <3>2, <3>5, <3>6 DEF Flashing
    <3>8. Lamp!busy' /\ Lamp!ShoneAsAsked'
      BY <1>0, <3>2 DEF Lamp!busy, Lamp!ShoneAsAsked
    <3> QED BY <1>0, <2>1, <3>2, <3>4, <3>7, <3>8 DEF LampInv
  <2>4. ~ Dark
    BY <2>1 DEF Dark
  <2> QED BY <1>0, <2>2, <2>3, <2>4
<1>5. CASE Lamp!SwitchOn
  <2>1. /\ ~ led_led.isOn /\ led_elapsed > led_led.off /\ UNCHANGED <<led_event, led_age>>
    BY <1>5 DEF Lamp!SwitchOn
  <2>2. CASE led_led.repeat > 1
    <3>0. Flashing
      BY <1>0, <2>1, <2>2 DEF Dark, Lit, Alone
    <3>1. /\ led_led' = [led_led EXCEPT !.repeat = led_led.repeat - 1, !.isOn = TRUE]
          /\ led_elapsed' = led_elapsed - led_event.off /\ led_shone' = led_shone + 1
      BY <1>5, <2>2, <3>0 DEF Lamp!SwitchOn, Lamp!After, Flashing
    <3>2. /\ led_led' \in LampVars /\ led_led'.isOn /\ led_led'.repeat = led_led.repeat - 1
          /\ led_led'.priority = led_led.priority /\ led_led'.on = led_led.on
          /\ led_led'.off = led_led.off
      <4>1. led_led.repeat - 1 \in Nat
        BY <1>2, <2>2 DEF LampVars
      <4> QED BY <1>2, <3>1, <4>1 DEF LampVars
    <3>3. led_elapsed' \in 0 .. MaxLate
      BY <1>1, <1>2, <2>1, <3>0, <3>1 DEF Flashing
    <3>4. Lamp!TypeOK'
      BY <1>0, <1>2, <2>1, <3>1, <3>2, <3>3 DEF Lamp!TypeOK, LampVars
    <3>5. /\ Passed(led_event, led_led.repeat)' = Passed(led_event, led_led.repeat) + led_event.on + led_event.off
          /\ Passed(led_event, led_led.repeat) \in Nat
      <4>1. PICK q \in Nat : q = led_event.on + led_event.off
        BY <1>1
      <4>2. led_led.repeat \in 1 .. led_event.repeat
        BY <3>0 DEF Flashing
      <4>3. /\ (led_event.repeat - (led_led.repeat - 1)) * q = (led_event.repeat - led_led.repeat) * q + q
            /\ (led_event.repeat - led_led.repeat) * q \in Nat
        BY <1>1, <4>2, Rounds
      <4>4. Passed(led_event, led_led.repeat)' = (led_event.repeat - (led_led.repeat - 1)) * q
        BY <2>1, <3>2, <4>1 DEF Passed
      <4>5. Passed(led_event, led_led.repeat) = (led_event.repeat - led_led.repeat) * q
        BY <4>1 DEF Passed
      <4>6. PICK x \in Nat : x = Passed(led_event, led_led.repeat)
        BY <4>3, <4>5
      <4> QED BY <1>1, <4>1, <4>3, <4>4, <4>5, <4>6
    <3>6. led_age' = led_elapsed' + Passed(led_event, led_led.repeat)' + 0
      BY <1>1, <1>2, <2>1, <3>0, <3>1, <3>5 DEF Flashing
    <3>7. led_led'.repeat \in 1 .. led_event'.repeat /\ led_shone' = led_event'.repeat - led_led'.repeat + 1
      BY <1>1, <1>2, <2>1, <2>2, <3>0, <3>1, <3>2 DEF Flashing
    <3>8. Flashing'
      BY <2>1, <3>0, <3>2, <3>6, <3>7 DEF Flashing
    <3>9. Lamp!busy' /\ Lamp!ShoneAsAsked'
      BY <1>1, <3>7 DEF Lamp!busy, Lamp!ShoneAsAsked
    <3> QED BY <1>0, <2>1, <3>2, <3>4, <3>8, <3>9 DEF LampInv
  <2>3. CASE ~ (led_led.repeat > 1)
    <3>0. /\ led_led' = [led_led EXCEPT !.repeat = 0] /\ UNCHANGED <<led_elapsed, led_shone>>
          /\ led_led.repeat = 1
      BY <1>0, <1>2, <1>5, <2>3 DEF Lamp!SwitchOn, Lamp!busy, LampVars
    <3>1. led_led' \in LampVars /\ ~ led_led'.isOn /\ led_led'.repeat = 0
      BY <1>2, <2>1, <3>0 DEF LampVars
    <3>2. Lamp!TypeOK'
      BY <1>0, <2>1, <3>0, <3>1 DEF Lamp!TypeOK, LampVars
    <3>3. led_age >= Lamp!Length(led_event) /\ led_shone = Lamp!Flashes(led_event)
      <4>1. PICK q \in Nat : q = led_event.on + led_event.off
        BY <1>1
      <4>2. Lamp!Length(led_event) = q * led_event.repeat
        BY <1>0, <4>1 DEF Lamp!Length
      <4>3. 1 \in 1 .. led_event.repeat
        BY <1>1
      <4>4. /\ q * led_event.repeat = led_event.repeat * q
            /\ (led_event.repeat - 1) * q + q = led_event.repeat * q
            /\ (led_event.repeat - 1) * q \in Nat /\ led_event.repeat * q \in Nat
        BY <1>1, <4>1, <4>3, Rounds
      <4>5. CASE Dark
        <5>1. q = led_event.off /\ led_age > led_event.off * led_event.repeat
          BY <1>1, <2>1, <4>1, <4>5 DEF Dark, Alone
        <5>2. led_shone = Lamp!Flashes(led_event)
          BY <4>5 DEF Dark, Lamp!Flashes
        <5> QED BY <1>2, <4>2, <4>4, <5>1, <5>2
      <4>6. CASE Flashing
        <5>1. Passed(led_event, led_led.repeat) = (led_event.repeat - 1) * q
          BY <3>0, <4>1 DEF Passed
        <5>2. PICK x \in Nat : x = (led_event.repeat - 1) * q /\ x + q = led_event.repeat * q
          BY <4>4
        <5>3. led_age = led_elapsed + x + led_event.on /\ led_elapsed > led_event.off
          BY <2>1, <4>6, <5>1, <5>2 DEF Flashing
        <5>4. led_age >= x + q
          BY <1>1, <1>2, <4>1, <5>3
        <5>5. led_shone = Lamp!Flashes(led_event)
          BY <1>0, <1>1, <3>0, <4>6 DEF Flashing, Lamp!Flashes
        <5> QED BY <4>2, <4>4, <5>2, <5>4, <5>5
      <4> QED BY <1>0, <2>1, <4>5, <4>6 DEF Lit
    <3>4. Lamp!Length(led_event)' = Lamp!Length(led_event) /\ Lamp!Flashes(led_event)' = Lamp!Flashes(led_event)
      BY <2>1 DEF Lamp!Length, Lamp!Flashes
    <3>5. Lamp!ShoneAsAsked' /\ ~ Lamp!busy'
      BY <1>0, <2>1, <3>0, <3>1, <3>3, <3>4 DEF Lamp!ShoneAsAsked, Lamp!busy
    <3> QED BY <3>2, <3>5 DEF LampInv
  <2> QED BY <2>2, <2>3
<1> QED BY <1>3, <1>4, <1>5 DEF Lamp!led_proc

\* After power on no event runs.
LEMMA LampStart ==
  ASSUME Lamp!LedEventsAssumption, Lamp!Init
  PROVE  LampInv
<1>1. /\ led_led = [isOn |-> FALSE, repeat |-> 0, priority |-> 0, on |-> 0, off |-> 0]
      /\ led_elapsed = 0 /\ led_event = Lamp!PowerOn /\ led_age = 0 /\ led_shone = 0
  BY DEF Lamp!Init
<1>2. MaxLate \in Nat
  BY DEF Lamp!LedEventsAssumption
<1>3. Lamp!TypeOK
  BY <1>1, <1>2 DEF Lamp!TypeOK
<1>4. ~ Lamp!busy
  BY <1>1 DEF Lamp!busy
<1>5. Lamp!ShoneAsAsked
  BY <1>1 DEF Lamp!ShoneAsAsked, Lamp!Flashes, Lamp!Length, Lamp!PowerOn
<1> QED BY <1>3, <1>4, <1>5 DEF LampInv

\* Nothing of it changes while the device does something else.
LEMMA LampRests ==
  ASSUME LampInv, UNCHANGED Lamp!vars
  PROVE  LampInv'
<1>1. UNCHANGED <<led_led, led_elapsed, led_event, led_age, led_shone>>
  BY DEF Lamp!vars
<1>2. Lamp!TypeOK' /\ Lamp!ShoneAsAsked' /\ (Lamp!busy' <=> Lamp!busy)
  BY <1>1 DEF LampInv, Lamp!TypeOK, Lamp!ShoneAsAsked, Lamp!busy
<1>3. (Dark => Dark') /\ (Lit => Lit')
  BY <1>1 DEF Dark, Lit, Alone
<1>4. Flashing => Flashing'
  BY <1>1 DEF Flashing, Passed
<1> QED BY <1>1, <1>2, <1>3, <1>4 DEF LampInv

LEMMA LampStep ==
  ASSUME Lamp!LedEventsAssumption, Lamp!TimesFit, LampInv, [Lamp!Next]_(Lamp!vars)
  PROVE  LampInv'
BY EventBegins, LampTurn, LampRests DEF Lamp!Next

\* All time behind an event but that since startTick is of its own phases.
LEMMA LampNotLate ==
  ASSUME Lamp!LedEventsAssumption, LampInv
  PROVE  Lamp!NoDrift
<1> SUFFICES ASSUME Lamp!busy, led_elapsed <= 1
             PROVE  led_age <= Lamp!Length(led_event) + 1
  BY DEF Lamp!NoDrift
<1>1. /\ led_event \in Configs /\ led_event.repeat # Forever
      /\ (Dark \/ Lit \/ Flashing) /\ Lamp!TypeOK
  BY DEF LampInv
<1>2. /\ led_event.on \in Nat /\ led_event.off \in Nat /\ led_event.repeat \in Nat \ {0}
      /\ MaxLate \in Nat
  BY <1>1, EventTypes DEF Lamp!LedEventsAssumption
<1>3. led_elapsed \in Nat /\ led_age \in Nat
  BY <1>2 DEF LampInv, Lamp!TypeOK
<1>4. PICK q \in Nat : q = led_event.on + led_event.off
  BY <1>2
<1>5. Lamp!Length(led_event) = q * led_event.repeat
  BY <1>1, <1>4 DEF Lamp!Length
<1>6. PICK w \in Nat : w = q * led_event.repeat
  <2>1. \A x, y \in Nat : x * y \in Nat
    BY SMT
  <2> QED BY <1>2, <2>1
<1>7. CASE Dark \/ Lit
  BY <1>3, <1>5, <1>6, <1>7 DEF Dark, Lit, Alone
<1>8. CASE Flashing
  <2>1. led_led.repeat \in 1 .. led_event.repeat
    BY <1>8 DEF Flashing
  <2>2. /\ (led_event.repeat - led_led.repeat) * q \in Nat
        /\ (led_event.repeat - led_led.repeat) * q + q <= led_event.repeat * q
        /\ q * led_event.repeat = led_event.repeat * q
    BY <1>2, <2>1, Rounds
  <2>3. PICK x \in Nat : x = (led_event.repeat - led_led.repeat) * q /\ x + q <= w
    BY <1>6, <2>2
  <2>4. led_age <= led_elapsed + x + led_event.on
    BY <1>2, <1>3, <1>4, <1>8, <2>3 DEF Flashing, Passed
  <2> QED BY <1>2, <1>3, <1>4, <1>5, <1>6, <2>3, <2>4
<1> QED BY <1>1, <1>7, <1>8

\* An event that is over has had its time, and one that runs left its priority in device_led.
LEMMA LampProtects ==
  ASSUME Lamp!LedEventsAssumption, LampInv, [Lamp!Next]_(Lamp!vars)
  PROVE  [led_age' < led_age /\ led_age < Lamp!Length(led_event) => led_event'.priority > led_event.priority]_(Lamp!vars)
<1>0. led_age \in Nat
  BY DEF LampInv, Lamp!TypeOK
<1>1. ASSUME NEW c \in Configs, Lamp!device_led_setup(c), led_age < Lamp!Length(led_event)
      PROVE  led_event'.priority > led_event.priority
  <2>1. led_event' = c /\ ~ Lamp!Refused(c)
    BY <1>1 DEF Lamp!device_led_setup
  <2>2. Lamp!busy
    <3>1. ~ Lamp!busy => led_age >= Lamp!Length(led_event)
      BY DEF LampInv, Lamp!ShoneAsAsked
    <3>2. CASE led_event.repeat = Forever
      BY <1>0, <1>1, <3>2 DEF Lamp!Length
    <3>3. CASE led_event.repeat # Forever
      <4>1. led_event \in Configs
        BY <3>3 DEF LampInv, Lamp!TypeOK, Lamp!PowerOn
      <4>2. \A x, y \in Nat : x * y \in Nat
        BY SMT
      <4>3. led_event.on + led_event.off \in Nat /\ led_event.repeat \in Nat
        BY <4>1, EventTypes
      <4>4. Lamp!Length(led_event) \in Nat
        BY <3>3, <4>2, <4>3 DEF Lamp!Length
      <4> QED BY <1>0, <1>1, <3>1, <4>4
    <3> QED BY <3>2, <3>3
  <2>3. /\ led_led.priority = led_event.priority /\ led_event \in Configs
    BY <2>2 DEF LampInv
  <2>4. led_event.priority \in Nat /\ c.priority \in Nat
    BY <2>3, EventTypes
  <2> QED BY <2>1, <2>2, <2>3, <2>4 DEF Lamp!Refused
<1>2. ASSUME Lamp!led_proc \/ Lamp!Tick
      PROVE  ~ (led_age' < led_age)
  BY <1>0, <1>2 DEF Lamp!led_proc, Lamp!SwitchOn, Lamp!SwitchOff, Lamp!Tick
<1> QED BY <1>1, <1>2 DEF Lamp!Next

LEMMA LampHolds ==
  ASSUME Lamp!LedEventsAssumption, Lamp!TimesFit
  PROVE  Lamp!Spec => []LampInv
<1>1. Lamp!Init => LampInv
  BY LampStart
<1>2. LampInv /\ [Lamp!Next]_(Lamp!vars) => LampInv'
  BY LampStep
<1> QED BY <1>1, <1>2, PTL DEF Lamp!Spec

\* The LED keeps its types (blt_led.c:40-122).
THEOREM LedTypeCorrect ==
  ASSUME Lamp!LedEventsAssumption, Lamp!TimesFit
  PROVE  Lamp!Spec => []Lamp!TypeOK
<1>1. LampInv => Lamp!TypeOK
  BY DEF LampInv
<1> QED BY <1>1, LampHolds, PTL

\* With times that fit 16 bits, an event that is over shone as often as its configuration says and took no less than its time,
\* however late led_proc was called (blt_led.c:65-122).
THEOREM LedShinesAsAsked ==
  ASSUME Lamp!LedEventsAssumption, Lamp!TimesFit
  PROVE  Lamp!Spec => []Lamp!ShoneAsAsked
<1>1. LampInv => Lamp!ShoneAsAsked
  BY DEF LampInv
<1> QED BY <1>1, LampHolds, PTL

\* The lateness of led_proc does not add up over the repeats: startTick moves by the phase, not
\* to now (blt_led.c:65-100).
THEOREM LedDoesNotDrift ==
  ASSUME Lamp!LedEventsAssumption, Lamp!TimesFit
  PROVE  Lamp!Spec => []Lamp!NoDrift
<1>1. LampInv => Lamp!NoDrift
  BY LampNotLate
<1> QED BY <1>1, LampHolds, PTL

\* Until its time is over only an event of higher priority takes an event's place, the one whose
\* repeats were joined into one phase too (device_led_setup).
THEOREM LedProtectsEvents ==
  ASSUME Lamp!LedEventsAssumption, Lamp!TimesFit
  PROVE  Lamp!Spec => Lamp!Protected
<1>1. LampInv /\ [Lamp!Next]_(Lamp!vars)
        => [led_age' < led_age /\ led_age < Lamp!Length(led_event) => led_event'.priority > led_event.priority]_(Lamp!vars)
  BY LampProtects
<1> QED BY <1>1, LampHolds, PTL DEF Lamp!Spec, Lamp!Protected

-----------------------------------------------------------------------------
(***************************************************************************)
(* The key matrix, for up to four rows of any number of columns, any keys   *)
(* held, any room in an event, any repeat interval and any callers.        *)
(***************************************************************************)
CONSTANTS Drive, Scan, Modifier, Repeatable, Fn, KB_RETURN_KEY_MAX, KB_RM_GHOST_KEY_EN,
          KB_REPEAT_KEY_ENABLE, Interval, Status
VARIABLES key_pressed, key_reading, key_scan, key_hold, key_buff, key_rep, key_event, key_past

Pad == INSTANCE KeyScan WITH
  pressed <- key_pressed, reading <- key_reading, scan <- key_scan, hold <- key_hold,
  buff <- key_buff, rep <- key_rep, event <- key_event, past <- key_past

\* The wires: rows that share a column, ...
Share(p, i, j) == \E d \in Pad!Col : <<i, d>> \in p /\ <<j, d>> \in p
\* ... and rows that three such steps lead to.
Reach(p, i, j) == \E a, b \in Pad!Row : Share(p, i, a) /\ Share(p, a, b) /\ Share(p, b, j)

\* What the constants are.
LEMMA PadConstants ==
  ASSUME Pad!KeyScanAssumption
  PROVE  /\ Drive \in 1 .. 4 /\ Scan \in Nat \ {0} /\ Interval \in Nat /\ KB_RETURN_KEY_MAX \in Nat \ {0}
         /\ Pad!Row = 0 .. Drive - 1 /\ Pad!Col = 0 .. Scan - 1 /\ IsFiniteSet(Pad!Col)
         /\ Modifier \subseteq Pad!Key
<1>1. /\ Drive \in 1 .. 4 /\ Scan \in Nat \ {0} /\ Interval \in Nat /\ KB_RETURN_KEY_MAX \in Nat \ {0}
      /\ Modifier \subseteq Pad!Key
  BY DEF Pad!KeyScanAssumption
<1>2. IsFiniteSet(0 .. Scan - 1)
  BY <1>1, FS_Interval
<1> QED BY <1>1, <1>2 DEF Pad!Row, Pad!Col

\* A row reads in one join the keys of the rows it shares a column with.
LEMMA JoinFacts ==
  ASSUME NEW m \in Pad!Matrix
  PROVE  /\ Pad!Join(m) \in Pad!Matrix
         /\ \A i \in Pad!Row, c \in Pad!Col :
              <<i, c>> \in Pad!Join(m) <=> \E j \in Pad!Row : <<j, c>> \in m /\ Share(m, i, j)
<1>0. \A k \in m : /\ k[1] \in Pad!Row /\ k[2] \in Pad!Col /\ k = <<k[1], k[2]>>
  BY DEF Pad!Matrix, Pad!Key
<1>1. \A x : x \in Pad!Join(m) <=> \E r \in Pad!Linked(m) : \E c \in Pad!Cols(m, r[2]) : x = <<r[1], c>>
  <2>1. \A x : x \in Pad!Join(m) <=> \E r \in Pad!Linked(m) : x \in {r[1]} \X Pad!Cols(m, r[2])
    BY DEF Pad!Join
  <2>2. \A a, S : \A x : x \in {a} \X S <=> \E c \in S : x = <<a, c>>
    OBVIOUS
  <2> QED BY <2>1, <2>2
<1>2. \A i, j \in Pad!Row : <<i, j>> \in Pad!Linked(m) <=> Share(m, i, j)
  <2> TAKE i, j \in Pad!Row
  <2>1. <<i, j>> \in Pad!Linked(m) <=> \E k \in m : k[1] = i /\ <<j, k[2]>> \in m
    BY DEF Pad!Linked
  <2>2. ASSUME NEW k \in m, k[1] = i, <<j, k[2]>> \in m PROVE Share(m, i, j)
    <3>1. k[2] \in Pad!Col /\ k = <<i, k[2]>>
      BY <1>0, <2>2
    <3> QED BY <2>2, <3>1, Zenon DEF Share
  <2>3. ASSUME NEW d \in Pad!Col, <<i, d>> \in m, <<j, d>> \in m
        PROVE  \E k \in m : k[1] = i /\ <<j, k[2]>> \in m
    <3>1. <<i, d>>[1] = i /\ <<i, d>>[2] = d
      OBVIOUS
    <3> QED BY <2>3, <3>1
  <2> QED BY <2>1, <2>2, <2>3 DEF Share
<1>3. \A r \in Pad!Linked(m) : r[1] \in Pad!Row /\ r[2] \in Pad!Row /\ r = <<r[1], r[2]>>
  BY DEF Pad!Linked
<1>4. \A i : \A c : c \in Pad!Cols(m, i) <=> c \in Pad!Col /\ <<i, c>> \in m
  BY DEF Pad!Cols
<1>5. ASSUME NEW x \in Pad!Join(m) PROVE x \in Pad!Key
  <2>1. \E r \in Pad!Linked(m) : \E c \in Pad!Cols(m, r[2]) : x = <<r[1], c>>
    BY <1>1, <1>5
  <2>2. PICK r \in Pad!Linked(m) : \E c \in Pad!Cols(m, r[2]) : x = <<r[1], c>>
    BY <2>1
  <2>3. PICK c \in Pad!Col : x = <<r[1], c>>
    BY <1>4, <2>2
  <2> QED BY <1>3, <2>3 DEF Pad!Key
<1>6. ASSUME NEW i \in Pad!Row, NEW c \in Pad!Col, <<i, c>> \in Pad!Join(m)
      PROVE  \E j \in Pad!Row : <<j, c>> \in m /\ Share(m, i, j)
  <2>1. PICK r \in Pad!Linked(m) : \E e \in Pad!Cols(m, r[2]) : <<i, c>> = <<r[1], e>>
    BY <1>1, <1>6
  <2>2. r[1] = i /\ c \in Pad!Cols(m, r[2])
    BY <2>1
  <2> QED BY <1>2, <1>3, <1>4, <2>1, <2>2
<1>7. ASSUME NEW i \in Pad!Row, NEW c \in Pad!Col, NEW j \in Pad!Row, <<j, c>> \in m, Share(m, i, j)
      PROVE  <<i, c>> \in Pad!Join(m)
  <2>1. <<i, j>> \in Pad!Linked(m) /\ <<i, j>>[1] = i /\ <<i, j>>[2] = j /\ c \in Pad!Cols(m, j)
    BY <1>2, <1>4, <1>7
  <2> QED BY <1>1, <2>1
<1> QED BY <1>5, <1>6, <1>7 DEF Pad!Matrix

LEMMA ShareFacts ==
  ASSUME NEW p, NEW i, NEW j, Share(p, i, j)
  PROVE  Share(p, j, i) /\ Share(p, i, i) /\ Share(p, j, j)
BY DEF Share

\* Of five rows two are the same, so that three steps lead as far as four.
LEMMA Shorter ==
  ASSUME Pad!KeyScanAssumption, NEW p, NEW x \in Pad!Row, NEW y \in Pad!Row, NEW z \in Pad!Row,
         Reach(p, x, y), Share(p, y, z)
  PROVE  Reach(p, x, z)
<1>1. PICK a, b \in Pad!Row : Share(p, x, a) /\ Share(p, a, b) /\ Share(p, b, y)
  BY DEF Reach
<1>2. {x, a, b, y, z} \subseteq 0 .. 3
  BY PadConstants
<1>3. \/ x = a \/ x = b \/ x = y \/ x = z \/ a = b \/ a = y \/ a = z \/ b = y \/ b = z \/ y = z
  BY <1>2
<1>4. /\ Share(p, x, x) /\ Share(p, a, a) /\ Share(p, b, b) /\ Share(p, y, y) /\ Share(p, z, z)
  BY <1>1, ShareFacts
<1> QED BY <1>1, <1>3, <1>4 DEF Reach

\* On at most four rows to reach is to be connected.
LEMMA ReachFacts ==
  ASSUME Pad!KeyScanAssumption, NEW p, NEW x \in Pad!Row, NEW y \in Pad!Row, Reach(p, x, y)
  PROVE  /\ Reach(p, y, x) /\ Share(p, x, x)
         /\ \A z \in Pad!Row : Reach(p, y, z) => Reach(p, x, z)
<1>1. Reach(p, y, x) /\ Share(p, x, x)
  BY ShareFacts DEF Reach
<1>2. ASSUME NEW z \in Pad!Row, Reach(p, y, z) PROVE Reach(p, x, z)
  <2>1. PICK a, b \in Pad!Row : Share(p, y, a) /\ Share(p, a, b) /\ Share(p, b, z)
    BY <1>2 DEF Reach
  <2>2. Reach(p, x, a)
    BY <2>1, Shorter
  <2>3. Reach(p, x, b)
    BY <2>1, <2>2, Shorter
  <2> QED BY <2>1, <2>3, Shorter
<1> QED BY <1>1, <1>2

\* Two joins read the keys of all rows that are connected.
LEMMA WiresRead ==
  ASSUME Pad!KeyScanAssumption, NEW p \in Pad!Matrix
  PROVE  /\ Pad!Join(Pad!Join(p)) \in Pad!Matrix
         /\ \A i \in Pad!Row, c \in Pad!Col :
              <<i, c>> \in Pad!Join(Pad!Join(p)) <=> \E j \in Pad!Row : <<j, c>> \in p /\ Reach(p, i, j)
<1>1. PICK q \in Pad!Matrix : q = Pad!Join(p)
  BY JoinFacts
<1>2. \A i \in Pad!Row, c \in Pad!Col :
        <<i, c>> \in q <=> \E j \in Pad!Row : <<j, c>> \in p /\ Share(p, i, j)
  BY <1>1, JoinFacts
<1>3. ASSUME NEW i \in Pad!Row, NEW j \in Pad!Row PROVE Share(q, i, j) <=> Reach(p, i, j)
  <2>1. ASSUME Share(q, i, j) PROVE Reach(p, i, j)
    <3>1. PICK d \in Pad!Col : <<i, d>> \in q /\ <<j, d>> \in q
      BY <2>1 DEF Share
    <3>2. PICK a \in Pad!Row : <<a, d>> \in p /\ Share(p, i, a)
      BY <1>2, <3>1
    <3>3. PICK b \in Pad!Row : <<b, d>> \in p /\ Share(p, j, b)
      BY <1>2, <3>1
    <3>4. Share(p, a, b) /\ Share(p, b, j)
      BY <3>2, <3>3 DEF Share
    <3> QED BY <3>2, <3>4 DEF Reach
  <2>2. ASSUME Reach(p, i, j) PROVE Share(q, i, j)
    <3>1. PICK a, b \in Pad!Row : Share(p, i, a) /\ Share(p, a, b) /\ Share(p, b, j)
      BY <2>2 DEF Reach
    <3>2. PICK d \in Pad!Col : <<a, d>> \in p /\ <<b, d>> \in p
      BY <3>1 DEF Share
    <3>3. Share(p, j, b)
      BY <3>1, ShareFacts
    <3>4. <<i, d>> \in q /\ <<j, d>> \in q
      BY <1>2, <3>1, <3>2, <3>3
    <3> QED BY <3>4 DEF Share
  <2> QED BY <2>1, <2>2
<1>4. ASSUME NEW i \in Pad!Row, NEW c \in Pad!Col
      PROVE  <<i, c>> \in Pad!Join(q) <=> \E j \in Pad!Row : <<j, c>> \in p /\ Reach(p, i, j)
  <2>1. ASSUME <<i, c>> \in Pad!Join(q) PROVE \E j \in Pad!Row : <<j, c>> \in p /\ Reach(p, i, j)
    <3>1. PICK j \in Pad!Row : <<j, c>> \in q /\ Share(q, i, j)
      BY <2>1, JoinFacts
    <3>2. PICK a \in Pad!Row : <<a, c>> \in p /\ Share(p, j, a)
      BY <1>2, <3>1
    <3>3. Reach(p, i, a)
      BY <1>3, <3>1, <3>2, Shorter
    <3> QED BY <3>2, <3>3
  <2>2. ASSUME NEW j \in Pad!Row, <<j, c>> \in p, Reach(p, i, j) PROVE <<i, c>> \in Pad!Join(q)
    <3>1. Share(p, j, j)
      BY <2>2 DEF Share
    <3>2. <<j, c>> \in q /\ Share(q, i, j)
      BY <1>2, <1>3, <2>2, <3>1
    <3> QED BY <3>2, JoinFacts
  <2> QED BY <2>1, <2>2
<1>5. Pad!Join(q) \in Pad!Matrix
  BY JoinFacts
<1> QED BY <1>1, <1>4, <1>5

\* The filter only removes keys, among them those of the columns it gathered.
LEMMA GhostFacts ==
  ASSUME NEW m \in Pad!Matrix
  PROVE  /\ Pad!kb_rmv_ghost_key(m) \in Pad!Matrix /\ Pad!kb_rmv_ghost_key(m) \subseteq m
         /\ \A i \in Pad!Row, c \in Pad!Col :
              <<i, c>> \in Pad!kb_rmv_ghost_key(m) => <<i, c>> \in m /\ c \notin Pad!MixFinal(m, i)
<1>1. \A x : x \in Pad!kb_rmv_ghost_key(m)
               <=> \E i \in Pad!Row : \E c \in Pad!Cols(m, i) \ Pad!MixFinal(m, i) : x = <<i, c>>
  <2>1. \A x : x \in Pad!kb_rmv_ghost_key(m)
                 <=> \E i \in Pad!Row : x \in {i} \X (Pad!Cols(m, i) \ Pad!MixFinal(m, i))
    BY DEF Pad!kb_rmv_ghost_key
  <2>2. \A a, S : \A x : x \in {a} \X S <=> \E c \in S : x = <<a, c>>
    OBVIOUS
  <2> QED BY <2>1, <2>2
<1>2. \A i : \A c : c \in Pad!Cols(m, i) <=> c \in Pad!Col /\ <<i, c>> \in m
  BY DEF Pad!Cols
<1>3. Pad!kb_rmv_ghost_key(m) \subseteq m
  BY <1>1, <1>2
<1>4. ASSUME NEW i \in Pad!Row, NEW c \in Pad!Col, <<i, c>> \in Pad!kb_rmv_ghost_key(m)
      PROVE  <<i, c>> \in m /\ c \notin Pad!MixFinal(m, i)
  <2>1. PICK j \in Pad!Row : \E e \in Pad!Cols(m, j) \ Pad!MixFinal(m, j) : <<i, c>> = <<j, e>>
    BY <1>1, <1>4
  <2>2. i = j /\ c \in Pad!Cols(m, i) \ Pad!MixFinal(m, i)
    BY <2>1
  <2> QED BY <1>2, <2>1, <2>2
<1> QED BY <1>3, <1>4 DEF Pad!Matrix

LEMMA TwoColumns ==
  ASSUME Pad!KeyScanAssumption, NEW S \in SUBSET Pad!Col, NEW c \in S, NEW d \in S, c # d
  PROVE  Pad!Cardinality(S) > 1
<1>1. IsFiniteSet(S)
  BY PadConstants, FS_Subset
<1>2. Cardinality({c}) = 1 /\ IsFiniteSet({c})
  BY FS_Singleton
<1>3. Cardinality({c} \cup {d}) = 2 /\ {c} \cup {d} \subseteq S
  BY <1>2, FS_AddElement
<1>4. Cardinality({c} \cup {d}) <= Cardinality(S) /\ Cardinality(S) \in Nat
  BY <1>1, <1>3, FS_Subset, FS_CardinalityType
<1>5. Pad!Cardinality(S) = Cardinality(S)
  BY DEF Pad!Cardinality, Cardinality
<1> QED BY <1>3, <1>4, <1>5

\* No key stays that the wires made.
LEMMA GhostsRemoved ==
  ASSUME Pad!KeyScanAssumption, NEW p \in Pad!Matrix
  PROVE  Pad!kb_rmv_ghost_key(Pad!Join(Pad!Join(p))) \subseteq p
<1>1. PICK m \in Pad!Matrix : m = Pad!Join(Pad!Join(p))
  BY WiresRead
<1>2. \A i \in Pad!Row, c \in Pad!Col :
        <<i, c>> \in m <=> \E j \in Pad!Row : <<j, c>> \in p /\ Reach(p, i, j)
  BY <1>1, WiresRead
<1>3. SUFFICES ASSUME NEW i \in Pad!Row, NEW c \in Pad!Col,
                      <<i, c>> \in Pad!kb_rmv_ghost_key(m), <<i, c>> \notin p
               PROVE  FALSE
  <2>1. \A k \in Pad!kb_rmv_ghost_key(m) : k \in Pad!Row \X Pad!Col
    BY GhostFacts DEF Pad!Matrix, Pad!Key
  <2> QED BY <1>1, <2>1
<1>4. <<i, c>> \in m /\ c \notin Pad!MixFinal(m, i)
  BY <1>3, GhostFacts
<1>5. PICK a \in Pad!Row : <<a, c>> \in p /\ Reach(p, i, a)
  BY <1>2, <1>4
<1>6. a # i
  BY <1>3, <1>5
<1>7. /\ Reach(p, a, i) /\ Share(p, i, i)
      /\ \A z \in Pad!Row : (Reach(p, a, z) => Reach(p, i, z)) /\ (Reach(p, i, z) => Reach(p, a, z))
  BY <1>5, ReachFacts
<1>8. PICK S \in SUBSET Pad!Col : S = Pad!Cols(m, i)
  BY DEF Pad!Cols
<1>9. Pad!Cols(m, a) = S
  <2>1. \A e \in Pad!Col : <<i, e>> \in m <=> <<a, e>> \in m
    BY <1>2, <1>7
  <2> QED BY <1>8, <2>1 DEF Pad!Cols
<1>10. Pad!Cardinality(S) > 1
  <2>1. PICK d \in Pad!Col : <<i, d>> \in p
    BY <1>7 DEF Share
  <2>2. Reach(p, i, i)
    BY <1>7 DEF Reach
  <2>3. <<i, d>> \in m /\ d # c
    BY <1>2, <1>3, <2>1, <2>2
  <2> QED BY <1>4, <1>8, <2>3, TwoColumns DEF Pad!Cols
<1>11. Pad!Mix(m, i, a) = S /\ Pad!Mix(m, a, i) = S
  BY <1>8, <1>9, <1>10 DEF Pad!Mix
<1>12. c \in S
  BY <1>4, <1>8 DEF Pad!Cols
<1>13. \A j, l : j \in 0 .. i /\ l \in j + 1 .. Drive - 1 /\ c \in Pad!Mix(m, j, l) => c \in Pad!MixFinal(m, i)
  BY DEF Pad!MixFinal
<1>14. /\ i < a => i \in 0 .. i /\ a \in i + 1 .. Drive - 1
       /\ a < i => a \in 0 .. i /\ i \in a + 1 .. Drive - 1
       /\ i < a \/ a < i
  BY <1>6, PadConstants
<1> QED BY <1>4, <1>11, <1>12, <1>13, <1>14

\* A single row reads its own keys.
LEMMA OneRowReads ==
  ASSUME Pad!KeyScanAssumption, Drive = 1, NEW p \in Pad!Matrix
  PROVE  Pad!Join(Pad!Join(p)) = p
<1>1. Pad!Row = {0}
  BY PadConstants
<1>2. Pad!Join(Pad!Join(p)) \in Pad!Matrix
  BY WiresRead
<1>3. \A i \in Pad!Row, c \in Pad!Col : <<i, c>> \in Pad!Join(Pad!Join(p)) <=> <<i, c>> \in p
  <2> SUFFICES ASSUME NEW i \in Pad!Row, NEW c \in Pad!Col
               PROVE  <<i, c>> \in Pad!Join(Pad!Join(p)) <=> <<i, c>> \in p
    OBVIOUS
  <2>1. <<i, c>> \in p => Reach(p, i, i)
    BY DEF Reach, Share
  <2>2. <<i, c>> \in Pad!Join(Pad!Join(p)) <=> \E j \in Pad!Row : <<j, c>> \in p /\ Reach(p, i, j)
    BY WiresRead
  <2> QED BY <1>1, <2>1, <2>2
<1> QED BY <1>2, <1>3 DEF Pad!Matrix, Pad!Key

\* Numbers have a least one.
LEMMA LeastNumber ==
  ASSUME NEW T, T \subseteq Nat, T # {}
  PROVE  \E x \in T : \A y \in T : x <= y
<1> DEFINE R == {ss \in Nat \X Nat : ss[1] < ss[2]}
<1>1. OpToRel(<, Nat) = R
  BY DEF OpToRel
<1>2. IsWellFoundedOn(R, Nat)
  <2> HIDE DEF R
  <2> QED
    BY <1>1, NatLessThanWellFounded
<1>3. PICK x \in T : \A y \in T : ~ (<<y, x>> \in R)
  <2> HIDE DEF R
  <2> QED
    BY <1>2, WFMin
<1>4. ASSUME NEW y \in T PROVE x <= y
  <2>1. x \in Nat /\ y \in Nat /\ ~(<<y, x>> \in R)
    BY <1>3
  <2>2. <<y, x>> \in Nat \X Nat /\ <<y, x>>[1] = y /\ <<y, x>>[2] = x
    BY <2>1
  <2>3. ~(y < x)
    BY <2>1, <2>2
  <2> QED
    BY <2>1, <2>3
<1> QED
  BY <1>3, <1>4

-----------------------------------------------------------------------------
\* The ring of matrices.
RingType == [slot : [0 .. 3 -> Pad!Matrix], wptr : 0 .. 7, rptr : 0 .. 7]

\* The pointers count modulo eight, the slots modulo four.
LEMMA Positions ==
  ASSUME NEW w \in 0 .. 7, NEW r \in 0 .. 7, (w - r) % 8 <= 4
  PROVE  /\ w % 4 \in 0 .. 3 /\ r % 4 \in 0 .. 3 /\ (w - 1) % 4 \in 0 .. 3
         /\ (w + 1) % 8 \in 0 .. 7 /\ (((w + 1) % 8) - 1) % 4 = w % 4
         /\ (((w + 1) % 8) - 4) % 8 \in 0 .. 7 /\ (w + 1) % 8 # r
         /\ (((w + 1) % 8) - ((((w + 1) % 8) - 4) % 8)) % 8 = 4
         /\ (w + 1) % 8 # (((w + 1) % 8) - 4) % 8
         /\ w = r => (((w + 1) % 8) - r) % 8 = 1
         /\ w # r => /\ (r + 1) % 8 \in 0 .. 7 /\ (w - ((r + 1) % 8)) % 8 <= 4
                     /\ w = (r + 1) % 8 => (w - 1) % 4 = r % 4
                     /\ w # (r + 1) % 8 => (w - 1) % 4 # r % 4
<1>1. w \in {0, 1, 2, 3, 4, 5, 6, 7} /\ r \in {0, 1, 2, 3, 4, 5, 6, 7}
  OBVIOUS
<1> QED BY <1>1, SMTT(60)

\* A matrix queued is the newest, also where it overwrites the oldest.
LEMMA Pushed ==
  ASSUME NEW b \in RingType, (b.wptr - b.rptr) % 8 <= 4, NEW m \in Pad!Matrix
  PROVE  LET q == Pad!Push(b, m) IN
         /\ q \in RingType /\ (q.wptr - q.rptr) % 8 <= 4 /\ q.wptr # q.rptr
         /\ q.slot[(q.wptr - 1) % 4] = m
         /\ b.wptr = b.rptr => q.rptr = b.rptr /\ q.slot[q.rptr % 4] = m /\ q.wptr = (q.rptr + 1) % 8
<1> DEFINE q == Pad!Push(b, m)
<1>1. b.wptr \in 0 .. 7 /\ b.rptr \in 0 .. 7 /\ b.slot \in [0 .. 3 -> Pad!Matrix]
  BY DEF RingType
<1>2. PICK v \in 0 .. 7 : v = (b.wptr + 1) % 8
  BY <1>1, Positions
<1>3. PICK u \in 0 .. 7 : u = (v - 4) % 8
  BY <1>1, <1>2, Positions
<1>4. PICK i \in 0 .. 3 : i = b.wptr % 4
  BY <1>1, Positions
<1>5. /\ (v - 1) % 4 = i /\ v # b.rptr /\ (v - u) % 8 = 4 /\ v # u
      /\ b.wptr = b.rptr => (v - b.rptr) % 8 = 1
  BY <1>1, <1>2, <1>3, <1>4, Positions
<1>6. q = [slot |-> [b.slot EXCEPT ![i] = m], wptr |-> v,
           rptr |-> IF (v - b.rptr) % 8 > 4 THEN u ELSE b.rptr]
  BY <1>2, <1>3, <1>4 DEF Pad!Push
<1>7. (v - b.rptr) % 8 \in Int
  BY <1>1
<1> HIDE DEF q
<1>8. q.slot[i] = m /\ q.wptr = v /\ q.rptr \in {u, b.rptr} /\ q \in RingType
  <2>1. [b.slot EXCEPT ![i] = m] \in [0 .. 3 -> Pad!Matrix]
    BY <1>1
  <2> QED BY <1>1, <1>6, <2>1 DEF RingType
<1>9. (q.wptr - q.rptr) % 8 <= 4 /\ q.wptr # q.rptr
  <2>1. CASE (v - b.rptr) % 8 > 4
    <3>1. q.rptr = u /\ q.wptr = v
      BY <1>6, <2>1
    <3> QED BY <1>5, <3>1
  <2>2. CASE ~ ((v - b.rptr) % 8 > 4)
    <3>1. q.rptr = b.rptr /\ q.wptr = v
      BY <1>6, <2>2
    <3> QED BY <1>5, <1>7, <2>2, <3>1
  <2> QED BY <2>1, <2>2
<1>10. b.wptr = b.rptr => q.rptr = b.rptr /\ q.slot[q.rptr % 4] = m /\ q.wptr = (q.rptr + 1) % 8
  BY <1>2, <1>4, <1>5, <1>6, <1>8
<1> QED BY <1>5, <1>8, <1>9, <1>10 DEF q

\* Reading the oldest leaves the newest, unless it is that.
LEMMA Popped ==
  ASSUME NEW b \in RingType, (b.wptr - b.rptr) % 8 <= 4, b.wptr # b.rptr, Pad!KeyScanAssumption
  PROVE  LET q == Pad!Pop(b) IN
         /\ q \in RingType /\ (q.wptr - q.rptr) % 8 <= 4
         /\ q.wptr = b.wptr /\ q.rptr = (b.rptr + 1) % 8
         /\ q.wptr = q.rptr => b.slot[b.rptr % 4] = b.slot[(b.wptr - 1) % 4]
         /\ q.wptr # q.rptr => q.slot[(q.wptr - 1) % 4] = b.slot[(b.wptr - 1) % 4]
<1> DEFINE q == Pad!Pop(b)
<1>1. b.wptr \in 0 .. 7 /\ b.rptr \in 0 .. 7 /\ b.slot \in [0 .. 3 -> Pad!Matrix]
  BY DEF RingType
<1>2. PICK v \in 0 .. 7 : v = (b.rptr + 1) % 8
  BY <1>1, Positions
<1>3. PICK i \in 0 .. 3 : i = b.rptr % 4
  BY <1>1, Positions
<1>4. PICK j \in 0 .. 3 : j = (b.wptr - 1) % 4
  BY <1>1, Positions
<1>5. (b.wptr - v) % 8 <= 4 /\ (b.wptr = v => j = i) /\ (b.wptr # v => j # i)
  BY <1>1, <1>2, <1>3, <1>4, Positions
<1>6. q = [b EXCEPT !.slot[i] = {}, !.rptr = v]
  BY <1>2, <1>3 DEF Pad!Pop
<1>7. {} \in Pad!Matrix
  BY DEF Pad!Matrix
<1> HIDE DEF q
<1>8. q.slot = [b.slot EXCEPT ![i] = {}] /\ q.wptr = b.wptr /\ q.rptr = v /\ q \in RingType
  BY <1>1, <1>6, <1>7 DEF RingType
<1> QED BY <1>1, <1>2, <1>3, <1>4, <1>5, <1>8 DEF q

-----------------------------------------------------------------------------
\* Types of the event and of the repeat timer.
EventType == [ret : BOOLEAN, keys : Pad!Matrix, ctrl : SUBSET Modifier, fn : BOOLEAN]
RepType == [key_change_flg : {"NONE", "CHANGE", "SAME"}, key_repeat_flg : BOOLEAN, age : 0 .. Interval]

\* The rows read what the wires make of the keys; the debounced matrix is what two scans agreed on
\* and the newest in the ring.
PadInv ==
  /\ Pad!TypeOK /\ key_event \in EventType
  /\ key_reading = Pad!Join(Pad!Join(key_pressed))
  /\ Pad!Debounced
  /\ Pad!NewestKept

LEMMA PadStart ==
  ASSUME Pad!KeyScanAssumption, Pad!Init
  PROVE  PadInv
<1>1. /\ key_pressed = {} /\ key_reading = {} /\ key_scan = [pre |-> {}, last |-> {}]
      /\ key_hold = [release_cnt |-> 0, ret_last |-> {}]
      /\ key_buff = [slot |-> [i \in 0 .. 3 |-> {}], wptr |-> 0, rptr |-> 0]
      /\ key_rep = [key_change_flg |-> "NONE", key_repeat_flg |-> FALSE, age |-> Interval]
      /\ key_event = [ret |-> FALSE, keys |-> {}, ctrl |-> {}, fn |-> FALSE]
      /\ key_past = [agreed |-> {}, shown |-> {}]
  BY DEF Pad!Init
<1>2. {} \in Pad!Matrix
  BY DEF Pad!Matrix
<1>3. key_event \in EventType /\ key_scan \in [pre : Pad!Matrix, last : Pad!Matrix]
      /\ key_past \in [agreed : Pad!Matrix, shown : Pad!Matrix]
  BY <1>1, <1>2 DEF EventType
<1>4. key_rep \in RepType /\ key_hold \in [release_cnt : 0 .. 6, ret_last : SUBSET Pad!Col]
  BY <1>1, PadConstants DEF RepType
<1>5. key_buff \in RingType /\ (key_buff.wptr - key_buff.rptr) % 8 <= 4
  BY <1>1, <1>2 DEF RingType
<1>6. Pad!TypeOK
  BY <1>1, <1>2, <1>3, <1>4, <1>5 DEF Pad!TypeOK, EventType, RepType, RingType
<1>7. Pad!Join({}) = {}
  BY DEF Pad!Join, Pad!Linked
<1>8. Pad!Debounced /\ Pad!NewestKept
  BY <1>1 DEF Pad!Debounced, Pad!NewestKept
<1> QED BY <1>1, <1>3, <1>6, <1>7, <1>8 DEF PadInv

\* What the invariant says of the types, in the form the steps need.
LEMMA PadTypes ==
  ASSUME PadInv
  PROVE  /\ key_pressed \in Pad!Matrix /\ key_reading \in Pad!Matrix
         /\ key_scan \in [pre : Pad!Matrix, last : Pad!Matrix]
         /\ key_hold \in [release_cnt : 0 .. 6, ret_last : SUBSET Pad!Col]
         /\ key_buff \in RingType /\ (key_buff.wptr - key_buff.rptr) % 8 <= 4
         /\ key_rep \in RepType /\ key_event \in EventType
         /\ key_past \in [agreed : Pad!Matrix, shown : Pad!Matrix]
BY DEF PadInv, Pad!TypeOK, RingType, RepType

LEMMA PadTypeIs ==
  /\ key_pressed \in Pad!Matrix /\ key_reading \in Pad!Matrix
  /\ key_scan \in [pre : Pad!Matrix, last : Pad!Matrix]
  /\ key_hold \in [release_cnt : 0 .. 6, ret_last : SUBSET Pad!Col]
  /\ key_buff \in RingType /\ (key_buff.wptr - key_buff.rptr) % 8 <= 4
  /\ key_rep \in RepType /\ key_event \in EventType
  /\ key_past \in [agreed : Pad!Matrix, shown : Pad!Matrix]
  => Pad!TypeOK
BY DEF Pad!TypeOK, RingType, RepType, EventType

LEMMA PadPress ==
  ASSUME Pad!KeyScanAssumption, PadInv, Pad!PressOrRelease
  PROVE  PadInv'
<1>1. /\ UNCHANGED <<key_scan, key_hold, key_buff, key_rep, key_event, key_past>>
      /\ key_reading' = Pad!Join(Pad!Join(key_pressed'))
  BY DEF Pad!PressOrRelease
<1>2. key_pressed' \in Pad!Matrix
  BY PadTypes DEF Pad!PressOrRelease, Pad!Matrix
<1>3. key_reading' \in Pad!Matrix
  BY <1>1, <1>2, WiresRead
<1>4. Pad!TypeOK' /\ key_event' \in EventType
  BY <1>1, <1>2, <1>3 DEF PadInv, Pad!TypeOK
<1>5. Pad!Debounced' /\ Pad!NewestKept'
  BY <1>1 DEF PadInv, Pad!Debounced, Pad!NewestKept
<1> QED BY <1>1, <1>4, <1>5 DEF PadInv

LEMMA ElapsedType ==
  ASSUME Pad!KeyScanAssumption, PadInv
  PROVE  Pad!Elapsed \in 0 .. Interval /\ (Interval # 0 => Pad!Elapsed # 0)
<1>1. key_rep.age \in 0 .. Interval /\ Interval \in Nat
  BY PadTypes, PadConstants DEF RepType
<1> QED BY <1>1 DEF Pad!Elapsed

LEMMA PadIdle ==
  ASSUME Pad!KeyScanAssumption, PadInv, Pad!kb_scan_idle
  PROVE  PadInv'
<1>1. /\ UNCHANGED <<key_pressed, key_reading, key_scan, key_hold, key_buff, key_past>>
      /\ key_event' = [key_event EXCEPT !.ret = FALSE]
      /\ key_rep' = key_rep \/ key_rep' = [key_rep EXCEPT !.key_change_flg = "NONE", !.age = Pad!Elapsed]
  BY DEF Pad!kb_scan_idle
<1>2. key_rep' \in RepType
  BY <1>1, PadTypes, ElapsedType DEF RepType
<1>3. key_event' \in EventType
  BY <1>1, PadTypes DEF EventType
<1>4. Pad!TypeOK'
  BY <1>1, <1>2, <1>3 DEF PadInv, Pad!TypeOK, RepType, EventType
<1>5. Pad!Debounced' /\ Pad!NewestKept'
  BY <1>1 DEF PadInv, Pad!Debounced, Pad!NewestKept
<1> QED BY <1>1, <1>3, <1>4, <1>5 DEF PadInv

\* The repeat timer.
LEMMA TimerFacts ==
  ASSUME Pad!KeyScanAssumption, PadInv, NEW changed \in BOOLEAN
  PROVE  LET t == Pad!RepeatTimer(changed) IN
         /\ t.rep \in RepType /\ t.push \in BOOLEAN /\ (changed => t.push)
         /\ t.rep.key_repeat_flg = key_rep.key_repeat_flg
         /\ KB_REPEAT_KEY_ENABLE /\ changed => t.rep.key_change_flg = "CHANGE"
         /\ ~ changed => /\ t.rep.key_change_flg # "NONE" => key_rep.key_change_flg # "NONE"
                         /\ KB_REPEAT_KEY_ENABLE => t.rep.key_change_flg # "CHANGE"
                         /\ t.rep.age = 0 /\ key_rep.age # 0 =>
                              key_rep.key_change_flg # "NONE" /\ key_rep.key_repeat_flg
         /\ ~ KB_REPEAT_KEY_ENABLE => t.rep = key_rep
<1> DEFINE t == Pad!RepeatTimer(changed)
<1>1. PICK e \in 0 .. Interval : e = Pad!Elapsed /\ (Interval # 0 => e # 0)
  BY ElapsedType
<1>2. PICK f \in {"NONE", "SAME"} : f = IF key_rep.key_change_flg = "CHANGE" THEN "SAME" ELSE key_rep.key_change_flg
  BY PadTypes DEF RepType
<1>3. key_rep \in RepType /\ key_rep.age \in 0 .. Interval /\ Interval \in Nat /\ 0 \in 0 .. Interval
  BY PadTypes, PadConstants DEF RepType
<1>4. CASE ~ KB_REPEAT_KEY_ENABLE
  <2>1. t = [rep |-> key_rep, push |-> changed]
    BY <1>4 DEF Pad!RepeatTimer
  <2> HIDE DEF t
  <2>2. t.rep = key_rep /\ t.push = changed
    BY <2>1
  <2> QED BY <1>3, <1>4, <2>2 DEF t
<1>5. CASE KB_REPEAT_KEY_ENABLE /\ changed
  <2>1. t = [rep |-> [key_rep EXCEPT !.key_change_flg = "CHANGE", !.age = 0], push |-> TRUE]
    BY <1>5 DEF Pad!RepeatTimer
  <2> HIDE DEF t
  <2>2. [key_rep EXCEPT !.key_change_flg = "CHANGE", !.age = 0] \in RepType
    BY <1>3 DEF RepType
  <2>3. t.push = TRUE /\ t.rep = [key_rep EXCEPT !.key_change_flg = "CHANGE", !.age = 0]
    BY <2>1
  <2>4. t.rep.key_repeat_flg = key_rep.key_repeat_flg /\ t.rep.key_change_flg = "CHANGE"
    BY <1>3, <2>3 DEF RepType
  <2> QED BY <1>5, <2>2, <2>3, <2>4 DEF t
<1>6. CASE KB_REPEAT_KEY_ENABLE /\ ~ changed
  <2> DEFINE due == f = "SAME" /\ key_rep.key_repeat_flg /\ e = Interval
  <2>1. t = [rep |-> [key_rep EXCEPT !.key_change_flg = f, !.age = IF due THEN 0 ELSE e], push |-> due]
    BY <1>1, <1>2, <1>6, Zenon DEF Pad!RepeatTimer
  <2>2. due \in BOOLEAN
    OBVIOUS
  <2>3. PICK a \in 0 .. Interval : a = IF due THEN 0 ELSE e
    BY <1>1, <1>3
  <2>4. a = 0 /\ key_rep.age # 0 => due
    BY <1>1, <1>3, <2>3
  <2>5. due => key_rep.key_repeat_flg /\ key_rep.key_change_flg # "NONE"
    BY <1>2
  <2> HIDE DEF t, due
  <2>6. t.push = due /\ t.rep = [key_rep EXCEPT !.key_change_flg = f, !.age = a]
    BY <2>1, <2>3
  <2>7. t.rep \in RepType
    BY <1>3, <2>6 DEF RepType
  <2>8. t.rep.key_repeat_flg = key_rep.key_repeat_flg /\ t.rep.key_change_flg = f /\ t.rep.age = a
    BY <1>3, <2>6 DEF RepType
  <2>9. f # "NONE" => key_rep.key_change_flg # "NONE"
    BY <1>2
  <2> QED BY <1>6, <2>2, <2>4, <2>5, <2>6, <2>7, <2>8, <2>9 DEF t
<1> QED BY <1>4, <1>5, <1>6

\* A pass that reads the matrix: with m read and cur filtered it queues cur if it changed, and reads
\* the oldest out if the caller wants it.
LEMMA PadPass ==
  ASSUME Pad!KeyScanAssumption, PadInv, NEW s \in Status, Pad!kb_scan_key_value(s)
  PROVE  \E m, cur \in Pad!Matrix :
           /\ m = IF KB_RM_GHOST_KEY_EN THEN Pad!kb_rmv_ghost_key(key_reading) ELSE key_reading
           /\ cur = IF s.poweron THEN m ELSE Pad!Filter(m, key_scan)
           /\ Pad!Scanned(s, m, cur)
<1>1. PICK m, cur : /\ m = IF KB_RM_GHOST_KEY_EN THEN Pad!kb_rmv_ghost_key(key_reading) ELSE key_reading
                    /\ cur = IF s.poweron THEN m ELSE Pad!Filter(m, key_scan)
                    /\ Pad!Scanned(s, m, cur)
  BY DEF Pad!kb_scan_key_value
<1>2. m \in Pad!Matrix
  BY <1>1, PadTypes, GhostFacts
<1>3. cur \in Pad!Matrix
  BY <1>1, <1>2 DEF Pad!Filter, Pad!Matrix
<1> QED BY <1>1, <1>2, <1>3

\* The parts of a pass: the timer t, the ring q with what was queued, whether the caller reads, and
\* the matrix at the front of the ring.
LEMMA PassParts ==
  ASSUME Pad!KeyScanAssumption, PadInv, NEW s \in Status, NEW m \in Pad!Matrix, NEW cur \in Pad!Matrix,
         Pad!Scanned(s, m, cur)
  PROVE  \E t : \E q \in RingType : \E out \in Pad!Matrix : \E reads \in BOOLEAN :
           /\ t = Pad!RepeatTimer(cur # key_scan.last)
           /\ q = IF t.push THEN Pad!Push(key_buff, cur) ELSE key_buff
           /\ (q.wptr - q.rptr) % 8 <= 4 /\ out = q.slot[q.rptr % 4]
           /\ reads <=> s.read /\ ~ s.invalid /\ q.wptr # q.rptr
           /\ key_scan' = [pre |-> m, last |-> cur]
           /\ key_buff' = IF reads THEN Pad!Pop(q) ELSE q
           /\ key_event' = IF reads THEN Pad!Remapped(out, Pad!FnSeen(key_reading))
                           ELSE [Pad!NoEvent EXCEPT !.ret = s.invalid]
           /\ key_rep' = IF reads THEN Pad!RepeatKey(t.rep, Pad!Remapped(out, Pad!FnSeen(key_reading))) ELSE t.rep
           /\ key_past' = [agreed |-> {k \in Pad!Key : IF s.poweron \/ (k \in m) = (k \in key_scan.pre)
                                                       THEN k \in m ELSE k \in key_past.agreed},
                           shown |-> IF reads THEN out ELSE key_past.shown]
<1> DEFINE t == Pad!RepeatTimer(cur # key_scan.last)
           q == IF t.push THEN Pad!Push(key_buff, cur) ELSE key_buff
           out == q.slot[q.rptr % 4]
           reads == s.read /\ ~ s.invalid /\ q.wptr # q.rptr
<1>1. /\ key_scan' = [pre |-> m, last |-> cur]
      /\ key_buff' = IF reads THEN Pad!Pop(q) ELSE q
      /\ key_event' = IF reads THEN Pad!Remapped(out, Pad!FnSeen(key_reading))
                      ELSE [Pad!NoEvent EXCEPT !.ret = s.invalid]
      /\ key_rep' = IF reads THEN Pad!RepeatKey(t.rep, Pad!Remapped(out, Pad!FnSeen(key_reading))) ELSE t.rep
      /\ key_past' = [agreed |-> {k \in Pad!Key : IF s.poweron \/ (k \in m) = (k \in key_scan.pre)
                                                  THEN k \in m ELSE k \in key_past.agreed},
                      shown |-> IF reads THEN out ELSE key_past.shown]
  BY Zenon DEF Pad!Scanned
<1>2. q \in RingType /\ (q.wptr - q.rptr) % 8 <= 4
  <2>1. key_buff \in RingType /\ (key_buff.wptr - key_buff.rptr) % 8 <= 4
    BY PadTypes
  <2>2. Pad!Push(key_buff, cur) \in RingType
        /\ (Pad!Push(key_buff, cur).wptr - Pad!Push(key_buff, cur).rptr) % 8 <= 4
    BY <2>1, Pushed
  <2> QED BY <2>1, <2>2
<1>3. out \in Pad!Matrix
  <2> HIDE DEF q
  <2>1. q.rptr \in 0 .. 7 /\ q.wptr \in 0 .. 7 /\ q.slot \in [0 .. 3 -> Pad!Matrix]
    BY <1>2 DEF RingType
  <2>2. q.rptr % 4 \in 0 .. 3
    BY <1>2, <2>1, Positions
  <2> QED BY <2>1, <2>2
<1>4. reads \in BOOLEAN
  BY Zenon
<1> HIDE DEF t, q, out, reads
<1>5. /\ t = Pad!RepeatTimer(cur # key_scan.last)
      /\ q = IF t.push THEN Pad!Push(key_buff, cur) ELSE key_buff
      /\ out = q.slot[q.rptr % 4]
      /\ reads <=> s.read /\ ~ s.invalid /\ q.wptr # q.rptr
  BY DEF t, q, out, reads
<1> QED BY <1>1, <1>2, <1>3, <1>4, <1>5, Zenon

LEMMA RemappedType ==
  ASSUME Pad!KeyScanAssumption, NEW m \in Pad!Matrix, NEW fn \in BOOLEAN
  PROVE  Pad!Remapped(m, fn) \in EventType
BY DEF Pad!Remapped, Pad!Plain, EventType, Pad!Matrix

\* Whether the event's key repeats is decided when the event is read, after a change.
LEMMA RepeatKeyFacts ==
  ASSUME Pad!KeyScanAssumption, NEW r \in RepType, NEW e
  PROVE  LET k == Pad!RepeatKey(r, e) IN
         /\ k \in RepType /\ k.age = r.age /\ k.key_change_flg = r.key_change_flg
         /\ (KB_REPEAT_KEY_ENABLE /\ r.key_change_flg = "CHANGE")
              => (k.key_repeat_flg <=> \E x \in Repeatable : e.keys = {x})
         /\ ~ (KB_REPEAT_KEY_ENABLE /\ r.key_change_flg = "CHANGE") => k = r
<1> DEFINE k == Pad!RepeatKey(r, e)
<1>1. PICK b \in BOOLEAN : b = (\E x \in Repeatable : e.keys = {x})
  BY Zenon
<1>2. k = IF KB_REPEAT_KEY_ENABLE /\ r.key_change_flg = "CHANGE" THEN [r EXCEPT !.key_repeat_flg = b] ELSE r
  BY <1>1, Zenon DEF Pad!RepeatKey
<1> HIDE DEF k
<1>3. [r EXCEPT !.key_repeat_flg = b] \in RepType
  BY DEF RepType
<1>4. /\ [r EXCEPT !.key_repeat_flg = b].key_repeat_flg = b
      /\ [r EXCEPT !.key_repeat_flg = b].age = r.age
      /\ [r EXCEPT !.key_repeat_flg = b].key_change_flg = r.key_change_flg
  BY DEF RepType
<1>5. /\ k \in RepType /\ k.age = r.age /\ k.key_change_flg = r.key_change_flg
      /\ (KB_REPEAT_KEY_ENABLE /\ r.key_change_flg = "CHANGE") => k.key_repeat_flg = b
      /\ ~ (KB_REPEAT_KEY_ENABLE /\ r.key_change_flg = "CHANGE") => k = r
  BY <1>2, <1>3, <1>4, Zenon
<1> QED BY <1>1, <1>5, Zenon DEF k

\* The scans after the last key are counted.
LEMMA HoldFacts ==
  ASSUME PadInv
  PROVE  LET h == Pad!Hold(key_reading) IN
         /\ h \in [release_cnt : 0 .. 6, ret_last : SUBSET Pad!Col]
         /\ key_reading # {} => h.release_cnt = 5
         /\ key_reading = {} /\ key_hold.release_cnt > 0 => h.release_cnt = key_hold.release_cnt - 1
<1>1. key_hold \in [release_cnt : 0 .. 6, ret_last : SUBSET Pad!Col] /\ key_reading \subseteq Pad!Row \X Pad!Col
  BY PadTypes DEF Pad!Matrix, Pad!Key
<1> DEFINE ret == {k[2] : k \in key_reading}
<1>2. ret \in SUBSET Pad!Col /\ (ret = {} <=> key_reading = {})
  BY <1>1
<1>3. Pad!Hold(key_reading) = IF ret # {} THEN [release_cnt |-> 5, ret_last |-> ret]
        ELSE [key_hold EXCEPT !.release_cnt = IF key_hold.release_cnt = 0 THEN 0 ELSE key_hold.release_cnt - 1]
  BY DEF Pad!Hold
<1> HIDE DEF ret
<1> QED BY <1>1, <1>2, <1>3

\* A pass that reads the matrix keeps the invariant.
LEMMA PadScan ==
  ASSUME Pad!KeyScanAssumption, PadInv, NEW s \in Status, Pad!kb_scan_key_value(s)
  PROVE  PadInv'
<1>1. PICK m, cur \in Pad!Matrix :
        /\ cur = IF s.poweron THEN m ELSE Pad!Filter(m, key_scan)
        /\ Pad!Scanned(s, m, cur)
  BY PadPass
<1>2. PICK t : \E q \in RingType : \E out \in Pad!Matrix : \E reads \in BOOLEAN :
           /\ t = Pad!RepeatTimer(cur # key_scan.last)
           /\ q = IF t.push THEN Pad!Push(key_buff, cur) ELSE key_buff
           /\ (q.wptr - q.rptr) % 8 <= 4 /\ out = q.slot[q.rptr % 4]
           /\ reads <=> s.read /\ ~ s.invalid /\ q.wptr # q.rptr
           /\ key_scan' = [pre |-> m, last |-> cur]
           /\ key_buff' = IF reads THEN Pad!Pop(q) ELSE q
           /\ key_event' = IF reads THEN Pad!Remapped(out, Pad!FnSeen(key_reading))
                           ELSE [Pad!NoEvent EXCEPT !.ret = s.invalid]
           /\ key_rep' = IF reads THEN Pad!RepeatKey(t.rep, Pad!Remapped(out, Pad!FnSeen(key_reading))) ELSE t.rep
           /\ key_past' = [agreed |-> {k \in Pad!Key : IF s.poweron \/ (k \in m) = (k \in key_scan.pre)
                                                       THEN k \in m ELSE k \in key_past.agreed},
                           shown |-> IF reads THEN out ELSE key_past.shown]
  BY <1>1, PassParts
<1>3. PICK q \in RingType, out \in Pad!Matrix, reads \in BOOLEAN :
           /\ q = IF t.push THEN Pad!Push(key_buff, cur) ELSE key_buff
           /\ (q.wptr - q.rptr) % 8 <= 4 /\ out = q.slot[q.rptr % 4]
           /\ reads => q.wptr # q.rptr
           /\ key_scan' = [pre |-> m, last |-> cur]
           /\ key_buff' = IF reads THEN Pad!Pop(q) ELSE q
           /\ key_event' = IF reads THEN Pad!Remapped(out, Pad!FnSeen(key_reading))
                           ELSE [Pad!NoEvent EXCEPT !.ret = s.invalid]
           /\ key_rep' = IF reads THEN Pad!RepeatKey(t.rep, Pad!Remapped(out, Pad!FnSeen(key_reading))) ELSE t.rep
           /\ key_past' = [agreed |-> {k \in Pad!Key : IF s.poweron \/ (k \in m) = (k \in key_scan.pre)
                                                       THEN k \in m ELSE k \in key_past.agreed},
                           shown |-> IF reads THEN out ELSE key_past.shown]
  BY <1>2, Zenon
<1>4. UNCHANGED <<key_pressed, key_reading>> /\ key_hold' = Pad!Hold(key_reading)
  BY DEF Pad!kb_scan_key_value
<1>5. t.rep \in RepType /\ (cur # key_scan.last => t.push)
  <2>1. (cur # key_scan.last) \in BOOLEAN
    OBVIOUS
  <2> QED BY <1>2, <2>1, TimerFacts
<1>6. key_scan \in [pre : Pad!Matrix, last : Pad!Matrix] /\ key_scan' \in [pre : Pad!Matrix, last : Pad!Matrix]
      /\ key_scan'.pre = m /\ key_scan'.last = cur
  BY <1>3, PadTypes
<1>7. key_past \in [agreed : Pad!Matrix, shown : Pad!Matrix] /\ key_past' \in [agreed : Pad!Matrix, shown : Pad!Matrix]
  BY <1>3, PadTypes DEF Pad!Matrix
<1>8. key_buff' \in RingType /\ (key_buff'.wptr - key_buff'.rptr) % 8 <= 4
  BY <1>3, Popped
<1>9. key_event' \in EventType
  <2>1. Pad!FnSeen(key_reading) \in BOOLEAN
    BY Zenon DEF Pad!FnSeen
  <2>2. Pad!Remapped(out, Pad!FnSeen(key_reading)) \in EventType
    BY <2>1, RemappedType
  <2>3. s.invalid \in BOOLEAN
    BY DEF Pad!KeyScanAssumption
  <2>4. [Pad!NoEvent EXCEPT !.ret = s.invalid] \in EventType
    <3>1. Pad!NoEvent \in EventType
      <4>1. key_event \in EventType /\ {} \in Pad!Matrix /\ {} \in SUBSET Modifier
        BY PadTypes DEF Pad!Matrix
      <4> QED BY <4>1 DEF Pad!NoEvent, EventType
    <3> HIDE DEF Pad!NoEvent
    <3> QED BY <2>3, <3>1 DEF EventType
  <2> QED BY <1>3, <2>2, <2>4
<1>10. key_rep' \in RepType
  BY <1>3, <1>5, RepeatKeyFacts
<1>11. key_hold' \in [release_cnt : 0 .. 6, ret_last : SUBSET Pad!Col]
  BY <1>4, HoldFacts
<1>12. Pad!TypeOK'
  <2>1. key_pressed' \in Pad!Matrix /\ key_reading' \in Pad!Matrix
    BY <1>4, PadTypes
  <2> QED BY <1>6, <1>7, <1>8, <1>9, <1>10, <1>11, <2>1 DEF Pad!TypeOK, RingType, RepType, EventType
<1>13. Pad!Debounced'
  <2>1. key_scan.last = key_past.agreed /\ key_scan.last \subseteq Pad!Key /\ m \subseteq Pad!Key
    BY <1>6 DEF PadInv, Pad!Debounced, Pad!Matrix
  <2>2. key_past'.agreed = {k \in Pad!Key : IF s.poweron \/ (k \in m) = (k \in key_scan.pre)
                                           THEN k \in m ELSE k \in key_past.agreed}
    BY <1>3
  <2>3. cur = key_past'.agreed
    <3>1. CASE s.poweron
      BY <1>1, <2>1, <2>2, <3>1
    <3>2. CASE ~ s.poweron
      <4>1. cur = {k \in Pad!Key : IF k \in key_scan.last THEN k \in m \cup key_scan.pre ELSE k \in m \cap key_scan.pre}
        BY <1>1, <3>2 DEF Pad!Filter
      <4> QED BY <2>1, <2>2, <3>2, <4>1
    <3> QED BY <3>1, <3>2
  <2> QED BY <1>6, <2>3 DEF Pad!Debounced
<1>14. Pad!NewestKept'
  <2>1. key_buff \in RingType /\ (key_buff.wptr - key_buff.rptr) % 8 <= 4
    BY PadTypes
  <2>2. cur = IF q.wptr = q.rptr THEN key_past.shown ELSE q.slot[(q.wptr - 1) % 4]
    <3>1. CASE t.push
      <4>1. q = Pad!Push(key_buff, cur)
        BY <1>3, <3>1
      <4>2. q.wptr # q.rptr /\ q.slot[(q.wptr - 1) % 4] = cur
        BY <2>1, <4>1, Pushed
      <4> QED BY <4>2
    <3>2. CASE ~ t.push
      <4>1. q = key_buff /\ cur = key_scan.last
        BY <1>3, <1>5, <3>2
      <4> QED BY <4>1 DEF PadInv, Pad!NewestKept
    <3> QED BY <3>1, <3>2
  <2>3. key_past'.shown = IF reads THEN out ELSE key_past.shown
    BY <1>3
  <2>4. CASE reads
    <3>1. q.wptr # q.rptr /\ key_buff' = Pad!Pop(q) /\ key_past'.shown = q.slot[q.rptr % 4]
      BY <1>3, <2>3, <2>4
    <3>2. /\ key_buff'.wptr = q.wptr
          /\ key_buff'.wptr = key_buff'.rptr => q.slot[q.rptr % 4] = q.slot[(q.wptr - 1) % 4]
          /\ key_buff'.wptr # key_buff'.rptr =>
               key_buff'.slot[(key_buff'.wptr - 1) % 4] = q.slot[(q.wptr - 1) % 4]
      BY <1>3, <3>1, Popped
    <3> QED BY <1>6, <2>2, <3>1, <3>2 DEF Pad!NewestKept
  <2>5. CASE ~ reads
    <3>1. key_buff' = q /\ key_past'.shown = key_past.shown
      BY <1>3, <2>3, <2>5
    <3> QED BY <1>6, <2>2, <3>1 DEF Pad!NewestKept
  <2> QED BY <2>4, <2>5
<1>15. key_reading' = Pad!Join(Pad!Join(key_pressed'))
  BY <1>4 DEF PadInv
<1> QED BY <1>9, <1>12, <1>13, <1>14, <1>15 DEF PadInv

LEMMA PadStep ==
  ASSUME Pad!KeyScanAssumption, PadInv, [Pad!Next]_(Pad!vars)
  PROVE  PadInv'
<1>1. CASE UNCHANGED Pad!vars
  <2>1. UNCHANGED <<key_pressed, key_reading, key_scan, key_hold, key_buff, key_rep, key_event, key_past>>
    BY <1>1 DEF Pad!vars
  <2> QED BY <2>1 DEF PadInv, Pad!TypeOK, Pad!Debounced, Pad!NewestKept
<1> QED BY <1>1, PadPress, PadIdle, PadScan DEF Pad!Next, Pad!kb_scan_key

-----------------------------------------------------------------------------
\* Without KB_REPEAT_KEY_ENABLE nothing touches the repeat timer.
LEMMA PadNeverRepeats ==
  ASSUME Pad!KeyScanAssumption, PadInv, [Pad!Next]_(Pad!vars), ~ KB_REPEAT_KEY_ENABLE
  PROVE  key_rep' = key_rep
<1>1. ASSUME NEW s \in Status, Pad!kb_scan_key_value(s) PROVE key_rep' = key_rep
  <2>1. PICK m, cur \in Pad!Matrix : Pad!Scanned(s, m, cur)
    BY <1>1, PadPass
  <2>2. \E t : \E q \in RingType : \E out \in Pad!Matrix : \E reads \in BOOLEAN :
           /\ t = Pad!RepeatTimer(cur # key_scan.last)
           /\ key_rep' = IF reads THEN Pad!RepeatKey(t.rep, Pad!Remapped(out, Pad!FnSeen(key_reading))) ELSE t.rep
    BY <2>1, PassParts
  <2>3. PICK t, e : /\ t = Pad!RepeatTimer(cur # key_scan.last)
                    /\ key_rep' = t.rep \/ key_rep' = Pad!RepeatKey(t.rep, e)
    BY <2>2
  <2>4. (cur # key_scan.last) \in BOOLEAN
    OBVIOUS
  <2>5. t.rep = key_rep /\ t.rep \in RepType
    BY <2>3, <2>4, TimerFacts
  <2>6. Pad!RepeatKey(t.rep, e) = t.rep
    BY <2>5, RepeatKeyFacts
  <2> QED BY <2>3, <2>5, <2>6
<1>2. CASE Pad!PressOrRelease \/ Pad!kb_scan_idle \/ UNCHANGED Pad!vars
  BY <1>2 DEF Pad!PressOrRelease, Pad!kb_scan_idle, Pad!vars
<1> QED BY <1>1, <1>2 DEF Pad!Next, Pad!kb_scan_key

\* A key that appears is down.
LEMMA PadNoGhost ==
  ASSUME Pad!KeyScanAssumption, PadInv, [Pad!Next]_(Pad!vars), KB_RM_GHOST_KEY_EN \/ Drive = 1
  PROVE  key_scan'.last \ key_scan.last \subseteq key_pressed
<1>1. ASSUME NEW s \in Status, Pad!kb_scan_key_value(s)
      PROVE  key_scan'.last \ key_scan.last \subseteq key_pressed
  <2>1. PICK m, cur \in Pad!Matrix :
           /\ m = IF KB_RM_GHOST_KEY_EN THEN Pad!kb_rmv_ghost_key(key_reading) ELSE key_reading
           /\ cur = IF s.poweron THEN m ELSE Pad!Filter(m, key_scan)
           /\ Pad!Scanned(s, m, cur)
    BY <1>1, PadPass
  <2>2. key_scan'.last = cur
    BY <2>1 DEF Pad!Scanned
  <2>3. m \subseteq key_pressed
    <3>1. key_reading = Pad!Join(Pad!Join(key_pressed)) /\ key_pressed \in Pad!Matrix
      BY PadTypes DEF PadInv
    <3> QED BY <2>1, <3>1, GhostsRemoved, OneRowReads
  <2>4. cur \ key_scan.last \subseteq m
    BY <2>1 DEF Pad!Filter
  <2> QED BY <2>2, <2>3, <2>4
<1>2. CASE Pad!PressOrRelease \/ Pad!kb_scan_idle \/ UNCHANGED Pad!vars
  BY <1>2 DEF Pad!PressOrRelease, Pad!kb_scan_idle, Pad!vars
<1> QED BY <1>1, <1>2 DEF Pad!Next, Pad!kb_scan_key

\* The caller reads every event, as the main loops do.
Reads == \A s \in Status : s.read /\ ~ s.invalid

\* The last scans after a key see nothing: of the six before the scan stops the first leaves nothing
\* to filter, the second nothing in the matrix; and nothing waits in the ring.
RestInv ==
  /\ key_buff.wptr = key_buff.rptr
  /\ key_hold.release_cnt <= 4 => key_scan.pre = {}
  /\ key_hold.release_cnt <= 3 => key_scan.last = {}

\* The repeat timer knows whether the matrix is a single key that repeats.
RepeatInv ==
  key_rep.key_change_flg # "NONE" =>
    /\ KB_REPEAT_KEY_ENABLE
    /\ key_rep.key_repeat_flg => \E k \in Repeatable : Pad!Plain(key_scan.last) = {k}

LEMMA RestStart ==
  ASSUME Pad!Init
  PROVE  RestInv /\ RepeatInv
BY DEF Pad!Init, RestInv, RepeatInv

\* Of more than one key that is no modifier an event shows two, if it has the room.
LEMMA OneKeySeen ==
  ASSUME Pad!KeyScanAssumption, KB_RETURN_KEY_MAX >= 2, NEW m \in Pad!Matrix, NEW k, NEW fn,
         Pad!Remapped(m, fn).keys = {k}
  PROVE  Pad!Plain(m) = {k}
<1>1. Pad!Plain(m) \cap Pad!Seen(m) = {k}
  BY DEF Pad!Remapped
<1>2. Pad!Plain(m) \subseteq m /\ m \subseteq Pad!Row \X Pad!Col /\ Pad!Row \subseteq Nat /\ Pad!Col \subseteq Nat
  BY PadConstants DEF Pad!Plain, Pad!Matrix, Pad!Key
<1>3. SUFFICES ASSUME NEW x \in Pad!Plain(m), x # k PROVE FALSE
  BY <1>1
<1> DEFINE S == Pad!Plain(m) \ {k}
           Rows == {l[1] : l \in S}
<1>4. PICK r \in Rows : \A y \in Rows : r <= y
  <2>0. S \subseteq Nat \X Nat /\ x \in S
    BY <1>2, <1>3
  <2> HIDE DEF S
  <2>1. Rows \subseteq Nat /\ Rows # {}
    BY ONLY <2>0
  <2> HIDE DEF Rows
  <2> QED BY <2>1, LeastNumber
<1> DEFINE Columns == {l[2] : l \in {l \in S : l[1] = r}}
<1>5. PICK c \in Columns : \A y \in Columns : c <= y
  <2>0. S \subseteq Nat \X Nat /\ r \in Rows
    BY <1>2, <1>4
  <2> HIDE DEF S
  <2>1. Columns \subseteq Nat /\ Columns # {}
    <3>1. PICK l \in S : l[1] = r
      BY ONLY <2>0
    <3>2. l[2] \in Columns
      BY ONLY <3>1
    <3>3. Columns \subseteq Nat
      BY ONLY <2>0
    <3> QED BY ONLY <3>2, <3>3
  <2> HIDE DEF Columns
  <2> QED BY <2>1, LeastNumber
<1>6. PICK a \in S : a[1] = r /\ a[2] = c
  BY <1>5
<1>7. \A l \in S : ~ Pad!Before(l, a)
  <2> SUFFICES ASSUME NEW l \in S, Pad!Before(l, a) PROVE FALSE
    OBVIOUS
  <2>1. l[1] \in Nat /\ l[2] \in Nat /\ a[1] \in Nat /\ a[2] \in Nat
    BY <1>2
  <2>2. l[1] \in Rows
    OBVIOUS
  <2>3. l[1] = r => l[2] \in Columns
    OBVIOUS
  <2>4. r <= l[1] /\ (l[1] = r => c <= l[2])
    BY <1>4, <1>5, <2>2, <2>3
  <2> HIDE DEF Rows, Columns, S
  <2> QED BY <1>6, <2>1, <2>4 DEF Pad!Before
<1> DEFINE B == {l \in Pad!Plain(m) : Pad!Before(l, a)}
<1>8. B \subseteq {k}
  BY <1>7
<1>9. Cardinality(B) <= 1 /\ Pad!Cardinality(B) = Cardinality(B) /\ Cardinality(B) \in Nat
  <2>1. IsFiniteSet({k}) /\ Cardinality({k}) = 1
    BY FS_Singleton
  <2> HIDE DEF B
  <2>2. IsFiniteSet(B) /\ Cardinality(B) <= 1 /\ Cardinality(B) \in Nat
    BY <1>8, <2>1, FS_Subset, FS_CardinalityType
  <2>3. Pad!Cardinality(B) = Cardinality(B)
    BY DEF Pad!Cardinality, Cardinality
  <2> QED BY <2>2, <2>3
<1>10. a \in Pad!Plain(m) /\ a \in m /\ a # k
  BY <1>2
<1>11. Pad!Cardinality(B) < KB_RETURN_KEY_MAX
  <2> HIDE DEF B
  <2> QED BY <1>9, PadConstants
<1>12. a \in Pad!Seen(m)
  BY <1>10, <1>11 DEF Pad!Seen
<1> QED BY <1>1, <1>10, <1>12

\* What a pass does when every event is read.
LEMMA PassReads ==
  ASSUME Pad!KeyScanAssumption, Reads, PadInv, RestInv, NEW s \in Status, Pad!kb_scan_key_value(s)
  PROVE  \E m, cur \in Pad!Matrix : \E fn, t :
           /\ m = IF KB_RM_GHOST_KEY_EN THEN Pad!kb_rmv_ghost_key(key_reading) ELSE key_reading
           /\ cur = IF s.poweron THEN m ELSE Pad!Filter(m, key_scan)
           /\ t = Pad!RepeatTimer(cur # key_scan.last)
           /\ key_scan'.pre = m /\ key_scan'.last = cur
           /\ key_buff'.wptr = key_buff'.rptr
           /\ key_rep' = IF t.push THEN Pad!RepeatKey(t.rep, Pad!Remapped(cur, fn)) ELSE t.rep
<1>1. PICK m, cur \in Pad!Matrix :
           /\ m = IF KB_RM_GHOST_KEY_EN THEN Pad!kb_rmv_ghost_key(key_reading) ELSE key_reading
           /\ cur = IF s.poweron THEN m ELSE Pad!Filter(m, key_scan)
           /\ Pad!Scanned(s, m, cur)
  BY PadPass
<1> DEFINE fn == Pad!FnSeen(key_reading)
<1>2. PICK t : \E q \in RingType : \E out \in Pad!Matrix : \E reads \in BOOLEAN :
           /\ t = Pad!RepeatTimer(cur # key_scan.last)
           /\ q = IF t.push THEN Pad!Push(key_buff, cur) ELSE key_buff
           /\ (q.wptr - q.rptr) % 8 <= 4 /\ out = q.slot[q.rptr % 4]
           /\ reads <=> s.read /\ ~ s.invalid /\ q.wptr # q.rptr
           /\ key_scan' = [pre |-> m, last |-> cur]
           /\ key_buff' = IF reads THEN Pad!Pop(q) ELSE q
           /\ key_rep' = IF reads THEN Pad!RepeatKey(t.rep, Pad!Remapped(out, fn)) ELSE t.rep
  BY <1>1, PassParts
<1>3. PICK q \in RingType, out \in Pad!Matrix, reads \in BOOLEAN :
           /\ q = IF t.push THEN Pad!Push(key_buff, cur) ELSE key_buff
           /\ (q.wptr - q.rptr) % 8 <= 4 /\ out = q.slot[q.rptr % 4]
           /\ reads <=> s.read /\ ~ s.invalid /\ q.wptr # q.rptr
           /\ key_scan' = [pre |-> m, last |-> cur]
           /\ key_buff' = IF reads THEN Pad!Pop(q) ELSE q
           /\ key_rep' = IF reads THEN Pad!RepeatKey(t.rep, Pad!Remapped(out, fn)) ELSE t.rep
  BY <1>2, Zenon
<1>4. reads <=> q.wptr # q.rptr
  BY <1>3 DEF Reads
<1>5. key_scan'.pre = m /\ key_scan'.last = cur
  BY <1>3
<1>6. key_buff \in RingType /\ (key_buff.wptr - key_buff.rptr) % 8 <= 4 /\ key_buff.wptr = key_buff.rptr
  BY PadTypes DEF RestInv
<1>7. CASE t.push
  <2>1. q = Pad!Push(key_buff, cur)
    BY <1>3, <1>7
  <2>2. q.wptr # q.rptr /\ q.slot[q.rptr % 4] = cur /\ q.wptr = (q.rptr + 1) % 8
    BY <1>6, <2>1, Pushed
  <2>3. out = cur /\ key_buff' = Pad!Pop(q) /\ key_rep' = Pad!RepeatKey(t.rep, Pad!Remapped(cur, fn))
    BY <1>3, <1>4, <2>2
  <2>4. key_buff'.wptr = key_buff'.rptr
    BY <1>3, <2>2, <2>3, Popped
  <2> HIDE DEF fn
  <2> QED BY <1>1, <1>2, <1>5, <1>7, <2>3, <2>4
<1>8. CASE ~ t.push
  <2>1. q = key_buff
    BY <1>3, <1>8
  <2>2. key_buff'.wptr = key_buff'.rptr /\ key_rep' = t.rep
    BY <1>3, <1>4, <1>6, <2>1
  <2> HIDE DEF fn
  <2> QED BY <1>1, <1>2, <1>5, <1>8, <2>2
<1> QED BY <1>7, <1>8

LEMMA RestStep ==
  ASSUME Pad!KeyScanAssumption, Reads, PadInv, RestInv, [Pad!Next]_(Pad!vars)
  PROVE  RestInv'
<1>1. ASSUME NEW s \in Status, Pad!kb_scan_key_value(s) PROVE RestInv'
  <2>1. PICK m, cur \in Pad!Matrix :
           /\ m = IF KB_RM_GHOST_KEY_EN THEN Pad!kb_rmv_ghost_key(key_reading) ELSE key_reading
           /\ cur = IF s.poweron THEN m ELSE Pad!Filter(m, key_scan)
           /\ key_scan'.pre = m /\ key_scan'.last = cur
           /\ key_buff'.wptr = key_buff'.rptr
    BY <1>1, PassReads
  <2>2. key_hold' = Pad!Hold(key_reading) /\ (key_reading # {} \/ key_hold.release_cnt > 0)
    BY <1>1 DEF Pad!kb_scan_key_value
  <2>3. CASE key_reading # {}
    <3>1. key_hold'.release_cnt = 5
      BY <2>2, <2>3, HoldFacts
    <3> QED BY <2>1, <3>1 DEF RestInv
  <2>4. CASE key_reading = {}
    <3>1. key_hold.release_cnt \in 0 .. 6 /\ key_hold'.release_cnt = key_hold.release_cnt - 1
      BY <2>2, <2>4, HoldFacts, PadTypes
    <3>2. m = {}
      BY <2>1, <2>4, GhostFacts DEF Pad!Matrix
    <3>3. key_hold'.release_cnt <= 3 => cur = {}
      BY <2>1, <3>1, <3>2 DEF RestInv, Pad!Filter
    <3> QED BY <2>1, <3>2, <3>3 DEF RestInv
  <2> QED BY <2>3, <2>4
<1>2. CASE Pad!PressOrRelease \/ Pad!kb_scan_idle \/ UNCHANGED Pad!vars
  BY <1>2 DEF RestInv, Pad!PressOrRelease, Pad!kb_scan_idle, Pad!vars
<1> QED BY <1>1, <1>2 DEF Pad!Next, Pad!kb_scan_key

LEMMA RestShown ==
  ASSUME PadInv, RestInv
  PROVE  Pad!ReleasedWhenIdle
BY DEF PadInv, RestInv, Pad!NewestKept, Pad!ReleasedWhenIdle

LEMMA RepeatStep ==
  ASSUME Pad!KeyScanAssumption, Reads, KB_RETURN_KEY_MAX >= 2, PadInv, RestInv, RepeatInv, [Pad!Next]_(Pad!vars)
  PROVE  /\ RepeatInv'
         /\ key_rep'.age = 0 /\ key_rep.age # 0 /\ key_scan'.last = key_scan.last
              => \E k \in Repeatable : Pad!Plain(key_scan.last) = {k}
<1>0. key_rep \in RepType /\ Interval \in Nat /\ key_rep.age \in 0 .. Interval
  BY PadTypes, PadConstants DEF RepType
<1>1. ASSUME NEW s \in Status, Pad!kb_scan_key_value(s)
      PROVE  /\ RepeatInv'
             /\ key_rep'.age = 0 /\ key_rep.age # 0 /\ key_scan'.last = key_scan.last
                  => \E k \in Repeatable : Pad!Plain(key_scan.last) = {k}
  <2>0. PICK m, cur \in Pad!Matrix : \E fn, t :
           /\ t = Pad!RepeatTimer(cur # key_scan.last)
           /\ key_scan'.last = cur
           /\ key_rep' = IF t.push THEN Pad!RepeatKey(t.rep, Pad!Remapped(cur, fn)) ELSE t.rep
    BY <1>1, PassReads
  <2>1. PICK fn : \E t :
           /\ t = Pad!RepeatTimer(cur # key_scan.last)
           /\ key_scan'.last = cur
           /\ key_rep' = IF t.push THEN Pad!RepeatKey(t.rep, Pad!Remapped(cur, fn)) ELSE t.rep
    BY <2>0
  <2>2. PICK t : /\ t = Pad!RepeatTimer(cur # key_scan.last)
                 /\ key_rep' = IF t.push THEN Pad!RepeatKey(t.rep, Pad!Remapped(cur, fn)) ELSE t.rep
    BY <2>1
  <2>3. PICK ch \in BOOLEAN : ch = (cur # key_scan.last)
    BY Zenon
  <2>4. t = Pad!RepeatTimer(ch)
    BY <2>2, <2>3, Zenon
  <2>5. /\ t.rep \in RepType /\ t.push \in BOOLEAN /\ (ch => t.push)
        /\ t.rep.key_repeat_flg = key_rep.key_repeat_flg
        /\ KB_REPEAT_KEY_ENABLE /\ ch => t.rep.key_change_flg = "CHANGE"
        /\ ~ ch => /\ t.rep.key_change_flg # "NONE" => key_rep.key_change_flg # "NONE"
                   /\ KB_REPEAT_KEY_ENABLE => t.rep.key_change_flg # "CHANGE"
                   /\ t.rep.age = 0 /\ key_rep.age # 0 =>
                        key_rep.key_change_flg # "NONE" /\ key_rep.key_repeat_flg
        /\ ~ KB_REPEAT_KEY_ENABLE => t.rep = key_rep
    BY <2>4, TimerFacts
  <2> DEFINE e == Pad!Remapped(cur, fn)
  <2>6. LET k == Pad!RepeatKey(t.rep, e) IN
         /\ k \in RepType /\ k.age = t.rep.age /\ k.key_change_flg = t.rep.key_change_flg
         /\ (KB_REPEAT_KEY_ENABLE /\ t.rep.key_change_flg = "CHANGE")
              => (k.key_repeat_flg <=> \E x \in Repeatable : e.keys = {x})
         /\ ~ (KB_REPEAT_KEY_ENABLE /\ t.rep.key_change_flg = "CHANGE") => k = t.rep
    <3> HIDE DEF e
    <3> QED BY <2>5, RepeatKeyFacts
  <2>7. \A x : e.keys = {x} => Pad!Plain(cur) = {x}
    BY OneKeySeen
  <2> HIDE DEF e
  <2>8. key_rep'.age = t.rep.age /\ key_rep'.key_change_flg = t.rep.key_change_flg
    BY <2>2, <2>6 DEF e
  <2>9. RepeatInv'
    <3>1. CASE ~ KB_REPEAT_KEY_ENABLE
      <4>1. key_rep' = key_rep
        BY <2>2, <2>5, <2>6, <3>1 DEF e
      <4> QED BY <3>1, <4>1 DEF RepeatInv
    <3>2. CASE KB_REPEAT_KEY_ENABLE /\ ch
      <4>1. key_rep'.key_repeat_flg <=> \E x \in Repeatable : e.keys = {x}
        BY <2>2, <2>5, <2>6, <3>2 DEF e
      <4> QED BY <2>1, <2>7, <3>2, <4>1 DEF RepeatInv
    <3>3. CASE KB_REPEAT_KEY_ENABLE /\ ~ ch
      <4>1. key_rep' = t.rep
        BY <2>2, <2>5, <2>6, <3>3 DEF e
      <4>2. key_scan'.last = key_scan.last
        BY <2>1, <2>3, <3>3
      <4> QED BY <2>5, <3>3, <4>1, <4>2 DEF RepeatInv
    <3> QED BY <3>1, <3>2, <3>3
  <2>10. ASSUME key_rep'.age = 0, key_rep.age # 0, key_scan'.last = key_scan.last
         PROVE  \E k \in Repeatable : Pad!Plain(key_scan.last) = {k}
    <3>1. ~ ch
      BY <2>1, <2>3, <2>10
    <3> QED BY <2>5, <2>8, <2>10, <3>1 DEF RepeatInv
  <2> QED BY <2>9, <2>10
<1>2. CASE Pad!kb_scan_idle
  <2>1. /\ key_scan' = key_scan
        /\ key_rep' = IF KB_REPEAT_KEY_ENABLE THEN [key_rep EXCEPT !.key_change_flg = "NONE", !.age = Pad!Elapsed]
                      ELSE key_rep
    BY <1>2 DEF Pad!kb_scan_idle
  <2>2. Pad!Elapsed \in 0 .. Interval /\ (Interval # 0 => Pad!Elapsed # 0)
    BY ElapsedType
  <2>3. CASE KB_REPEAT_KEY_ENABLE
    <3>1. key_rep'.key_change_flg = "NONE" /\ key_rep'.age = Pad!Elapsed
      BY <1>0, <2>1, <2>3 DEF RepType
    <3> QED BY <1>0, <2>2, <3>1 DEF RepeatInv
  <2>4. CASE ~ KB_REPEAT_KEY_ENABLE
    BY <2>1, <2>4 DEF RepeatInv
  <2> QED BY <2>3, <2>4
<1>3. CASE Pad!PressOrRelease \/ UNCHANGED Pad!vars
  <2>1. key_scan' = key_scan /\ key_rep' = key_rep
    BY <1>3 DEF Pad!PressOrRelease, Pad!vars
  <2> QED BY <2>1 DEF RepeatInv
<1> QED BY <1>1, <1>2, <1>3 DEF Pad!Next, Pad!kb_scan_key

-----------------------------------------------------------------------------
LEMMA PadHolds ==
  ASSUME Pad!KeyScanAssumption
  PROVE  Pad!Spec => []PadInv
<1>1. Pad!Init => PadInv
  BY PadStart
<1>2. PadInv /\ [Pad!Next]_(Pad!vars) => PadInv'
  BY PadStep
<1> QED BY <1>1, <1>2, PTL DEF Pad!Spec

LEMMA RestHolds ==
  ASSUME Pad!KeyScanAssumption, Reads
  PROVE  Pad!Spec => []RestInv
<1>1. Pad!Init => RestInv
  BY RestStart
<1>2. PadInv /\ RestInv /\ [Pad!Next]_(Pad!vars) => RestInv'
  BY RestStep
<1> QED BY <1>1, <1>2, PadHolds, PTL DEF Pad!Spec

\* The key scan keeps its types (keyboard.c).
THEOREM PadTypeCorrect ==
  ASSUME Pad!KeyScanAssumption
  PROVE  Pad!Spec => []Pad!TypeOK
<1>1. PadInv => Pad!TypeOK
  BY DEF PadInv
<1> QED BY <1>1, PadHolds, PTL

\* The debounced matrix is for each key what two scans in a row agreed on (key_debounce_filter).
THEOREM PadDebounced ==
  ASSUME Pad!KeyScanAssumption
  PROVE  Pad!Spec => []Pad!Debounced
<1>1. PadInv => Pad!Debounced
  BY DEF PadInv
<1> QED BY <1>1, PadHolds, PTL

\* The newest matrix is the last event or in the ring, which overwrites only older ones, whatever
\* callers do (kb_scan_key_value).
THEOREM PadNewestKept ==
  ASSUME Pad!KeyScanAssumption
  PROVE  Pad!Spec => []Pad!NewestKept
<1>1. PadInv => Pad!NewestKept
  BY DEF PadInv
<1> QED BY <1>1, PadHolds, PTL

\* When the scan stops, the release has been filtered and reported to a caller who reads
\* (kb_key_pressed).
THEOREM PadReleases ==
  ASSUME Pad!KeyScanAssumption, Reads
  PROVE  Pad!Spec => []Pad!ReleasedWhenIdle
<1>1. PadInv /\ RestInv => Pad!ReleasedWhenIdle
  BY RestShown
<1> QED BY <1>1, PadHolds, RestHolds, PTL

\* Where ghost keys are removed a key that appears is down, whatever keys the wires join
\* (kb_rmv_ghost_key).
THEOREM PadShowsKeysDown ==
  ASSUME Pad!KeyScanAssumption
  PROVE  Pad!Spec => Pad!NoGhostKey
<1>1. PadInv /\ [Pad!Next]_(Pad!vars)
        => [KB_RM_GHOST_KEY_EN => key_scan'.last \ key_scan.last \subseteq key_pressed]_(Pad!vars)
  BY PadNoGhost
<1> QED BY <1>1, PadHolds, PTL DEF Pad!Spec, Pad!NoGhostKey

\* A caller who reads sees repeats only of a single key that repeats; an event has room for two, or
\* two keys would look like one (kb_scan_key_value, kb_remap_key_code).
THEOREM PadRepeatsHeld ==
  ASSUME Pad!KeyScanAssumption, Reads, KB_RETURN_KEY_MAX >= 2
  PROVE  Pad!Spec => Pad!RepeatsHeldKey
<1>1. Pad!Init => RepeatInv
  BY RestStart
<1>2. PadInv /\ RestInv /\ RepeatInv /\ [Pad!Next]_(Pad!vars) => RepeatInv'
  BY RepeatStep
<1>3. PadInv /\ RestInv /\ RepeatInv /\ [Pad!Next]_(Pad!vars)
        => [key_rep'.age = 0 /\ key_rep.age # 0 /\ key_scan'.last = key_scan.last
              => \E k \in Repeatable : Pad!Plain(key_scan.last) = {k}]_(Pad!vars)
  BY RepeatStep
<1> QED BY <1>1, <1>2, <1>3, PadHolds, RestHolds, PTL DEF Pad!Spec, Pad!RepeatsHeldKey

-----------------------------------------------------------------------------
(***************************************************************************)
(* Learning an infrared code, for any carrier, any times of the gaps, any   *)
(* thresholds above them, and a record of any length.                      *)
(***************************************************************************)
CONSTANTS Cycle, Gaps, Threshold, End, CHECK, MIN, MAX, MaxBurst, MaxStarts
VARIABLES irl_state, irl_edges, irl_inCarrier, irl_since, irl_first, irl_checks, irl_cycle, irl_cnt,
          irl_buf, irl_irq, irl_quiet, irl_pc, irl_signal, irl_starts

Ear == INSTANCE IrLearn WITH
  state <- irl_state, edges <- irl_edges, inCarrier <- irl_inCarrier, since <- irl_since,
  first <- irl_first, checks <- irl_checks, cycle <- irl_cycle, cnt <- irl_cnt, buf <- irl_buf,
  irq <- irl_irq, quiet <- irl_quiet, pc <- irl_pc, signal <- irl_signal, starts <- irl_starts

\* Nothing of a signal is recorded.
EarEmpty ==
  irl_edges = 0 /\ irl_signal = <<>> /\ irl_cnt = 0 /\ irl_cycle = 0 /\ irl_checks <= 1

\* One edge is.
EarFirst ==
  irl_edges = 1 /\ irl_signal = <<1>> /\ irl_cnt = 0 /\ irl_cycle = 0 /\ irl_checks <= 1

\* The sections before the last burst are recorded, and of that burst what its edges tell.
EarHears ==
  LET n == Len(irl_signal) IN
  /\ irl_edges >= 2 /\ n % 2 = 1 /\ irl_first = Cycle
  /\ irl_inCarrier => /\ irl_cnt = n - 1 /\ irl_signal[n] >= 2
                      /\ irl_since = (irl_signal[n] - 1) * Cycle
                      /\ (n = 1 /\ irl_signal[n] = 2) \/ irl_buf[n] = irl_since
  /\ ~ irl_inCarrier => irl_cnt = n - 2 /\ irl_signal[n] = 1 /\ irl_since = 0
  /\ \A i \in 1 .. n - 1 : irl_buf[i] = Ear!Section(i)
  /\ n > 1 => irl_checks = CHECK /\ irl_cycle = Cycle

\* The carrier is found in the first burst.
EarFinds ==
  Len(irl_signal) = 1 =>
    /\ irl_signal[1] = 2 => irl_checks <= 1 /\ irl_cycle = 0
    /\ irl_signal[1] > 2 => irl_cycle = Cycle
    /\ irl_checks = CHECK \/ irl_checks + 2 >= irl_signal[1]

EarType ==
  /\ Ear!TypeOK /\ irl_first <= Threshold
  /\ irl_state \in {"wait", "begin", "sample_end"} => irl_cnt < MAX

EarInv ==
  /\ EarType
  /\ irl_pc \in {"clearing", "cleared"} => irl_checks <= 1
  /\ irl_pc = "cleared" => irl_state = "disable" /\ EarEmpty
  /\ irl_pc # "clearing" =>
       /\ irl_state = "wait" => EarEmpty
       /\ irl_state = "begin" => EarFirst \/ (EarHears /\ EarFinds)
       /\ irl_state = "sample_end" => EarHears
  /\ irl_pc = "ending" => \/ irl_state = "begin" /\ irl_quiet
                          \/ irl_state = "sample_end"
                          \/ irl_state = "first_too_long" /\ irl_cnt = 0
  /\ Ear!LearnedRight

LEMMA EarConstants ==
  ASSUME Ear!IrLearnAssumption
  PROVE  /\ Cycle \in Nat /\ Cycle >= 1 /\ Threshold \in Nat /\ End \in Nat /\ CHECK \in Nat
         /\ MIN \in Nat /\ MIN >= 1 /\ MAX \in Nat /\ MaxBurst \in Nat /\ MaxBurst >= 1 /\ MaxStarts \in Nat
         /\ Cycle < Threshold /\ Threshold < End /\ CHECK >= 2 /\ MIN < MAX
         /\ \A g \in Gaps : g \in Nat /\ Threshold < g /\ g < End
BY DEF Ear!IrLearnAssumption

\* A burst with one more edge takes one cycle more.
LEMMA BurstTimes ==
  ASSUME NEW c \in Nat, NEW k \in Nat
  PROVE  /\ k * c \in Nat /\ (k - 1) * c + c = k * c
         /\ k >= 1 => (k - 1) * c \in Nat
         /\ (2 - 1) * c = c
BY SMT

LEMMA ThirdOf ==
  ASSUME NEW a \in Nat
  PROVE  a \div 3 \in Nat /\ a \div 3 <= a
BY SMT

\* What an edge may bring: nothing was sent, a burst grows or a gap ends, or it comes late.
LEMMA EarIntervals ==
  ASSUME Ear!IrLearnAssumption, irl_signal \in Seq(Nat), NEW dt \in Ear!Intervals
  PROVE  /\ dt \in Nat /\ dt >= 1 /\ Ear!SignalAfter(dt) \in Seq(Nat)
         /\ irl_signal = <<>> => Ear!SignalAfter(dt) = <<1>>
         /\ irl_quiet => dt = End + 1
         /\ irl_signal # <<>> =>
              \/ dt = Cycle /\ Ear!SignalAfter(dt) = [irl_signal EXCEPT ![Len(irl_signal)] = @ + 1]
              \/ dt \in Gaps /\ ~ irl_quiet /\ (Len(irl_signal) = 1 => irl_signal[1] >= CHECK + 2)
                 /\ Ear!SignalAfter(dt) = irl_signal \o <<dt, 1>>
              \/ dt = End + 1 /\ Ear!SignalAfter(dt) = irl_signal
<1>1. dt \in Nat /\ dt >= 1
  BY EarConstants DEF Ear!Intervals
<1>3. irl_quiet \/ irl_signal = <<>> => dt = End + 1
  BY DEF Ear!Intervals
<1>4. Cycle \notin Gaps /\ End + 1 \notin Gaps /\ End + 1 # Cycle
  BY EarConstants
<1>2. irl_signal = <<>> => Ear!SignalAfter(dt) = <<1>>
  BY <1>3, <1>4 DEF Ear!SignalAfter
<1>5. CASE irl_signal = <<>>
  <2>1. <<1>> \in Seq(Nat)
    OBVIOUS
  <2> QED BY <1>1, <1>2, <1>3, <1>5, <2>1
<1>6. CASE irl_signal # <<>>
  <2>1. CASE dt = Cycle
    <3>1. Ear!SignalAfter(dt) = [irl_signal EXCEPT ![Len(irl_signal)] = @ + 1]
      BY <1>4, <1>6, <2>1 DEF Ear!SignalAfter, Ear!Grown
    <3>2. Len(irl_signal) \in 1 .. Len(irl_signal) /\ irl_signal[Len(irl_signal)] \in Nat
      BY <1>6
    <3>3. [irl_signal EXCEPT ![Len(irl_signal)] = @ + 1] \in Seq(Nat)
      BY <3>2
    <3> QED BY <1>1, <1>3, <1>6, <2>1, <3>1, <3>3
  <2>2. CASE dt \in Gaps
    <3>1. Ear!SignalAfter(dt) = irl_signal \o <<dt, 1>>
      BY <1>4, <1>6, <2>2 DEF Ear!SignalAfter
    <3>2. irl_signal \o <<dt, 1>> \in Seq(Nat)
      BY <1>1
    <3>3. ~ irl_quiet /\ (Len(irl_signal) = 1 => irl_signal[1] >= CHECK + 2)
      BY <1>4, <1>6, <2>2 DEF Ear!Intervals, Ear!GapMayCome
    <3> QED BY <1>1, <1>6, <2>2, <3>1, <3>2, <3>3
  <2>3. CASE dt \notin Gaps \cup {Cycle}
    <3>1. dt = End + 1
      BY <2>3 DEF Ear!Intervals
    <3>2. Ear!SignalAfter(dt) = irl_signal
      BY <1>6, <2>3 DEF Ear!SignalAfter
    <3> QED BY <1>1, <1>3, <1>6, <3>1, <3>2
  <2> QED BY <2>1, <2>2, <2>3
<1> QED BY <1>5, <1>6

LEMMA EarTypeIs ==
  ASSUME EarType, Ear!IrLearnAssumption
  PROVE  /\ irl_edges \in 0 .. 3 /\ irl_inCarrier \in BOOLEAN /\ irl_since \in Nat /\ irl_first \in Nat
         /\ irl_cycle \in Nat /\ irl_checks \in Nat /\ irl_checks <= CHECK /\ irl_cnt \in Nat
         /\ irl_cnt <= MAX /\ irl_buf \in [1 .. MAX -> Nat] /\ irl_irq \in BOOLEAN
         /\ irl_quiet \in BOOLEAN /\ irl_signal \in Seq(Nat) /\ irl_starts \in 0 .. MaxStarts
         /\ irl_first <= Threshold
BY EarConstants DEF EarType, Ear!TypeOK

\* An interval taken for the carrier's cycle, or not any more.
LEMMA EarChecked ==
  ASSUME EarType, Ear!IrLearnAssumption, NEW dt \in Nat, Ear!Check(dt)
  PROVE  /\ irl_cycle' \in Nat /\ irl_checks' \in 0 .. CHECK
         /\ irl_checks < CHECK => /\ irl_checks' = irl_checks + 1
                                  /\ irl_cycle' = IF irl_cycle < dt THEN dt ELSE irl_cycle
         /\ irl_checks = CHECK => irl_checks' = irl_checks /\ irl_cycle' = irl_cycle
<1>1. irl_checks \in Nat /\ irl_checks <= CHECK /\ irl_cycle \in Nat /\ CHECK \in Nat
  BY EarTypeIs, EarConstants
<1>2. CASE irl_checks < CHECK
  BY <1>1, <1>2 DEF Ear!Check, Ear!Longer
<1>3. CASE irl_checks = CHECK
  BY <1>1, <1>3 DEF Ear!Check
<1> QED BY <1>1, <1>2, <1>3

\* What an edge does to the record, whatever is in it.
LEMMA EarEdgeTypes ==
  ASSUME EarType, Ear!IrLearnAssumption, irl_state \in Ear!Heard, NEW dt \in Ear!Intervals,
         Ear!ir_record(dt), irl_signal' = Ear!SignalAfter(dt),
         UNCHANGED <<irl_irq, irl_pc, irl_starts>>, irl_quiet' = FALSE
  PROVE  /\ EarType'
         /\ irl_state' \in {"wait", "begin", "sample_end", "first_too_long", "no_carrier", "full"}
         /\ irl_checks' <= irl_checks + 1
<1>1. /\ irl_edges \in 0 .. 3 /\ irl_inCarrier \in BOOLEAN /\ irl_since \in Nat /\ irl_first \in Nat
      /\ irl_cycle \in Nat /\ irl_checks \in Nat /\ irl_checks <= CHECK /\ irl_cnt \in Nat
      /\ irl_cnt < MAX /\ irl_buf \in [1 .. MAX -> Nat] /\ irl_signal \in Seq(Nat)
      /\ irl_first <= Threshold /\ MAX \in Nat /\ Threshold \in Nat /\ CHECK \in Nat
  BY EarTypeIs, EarConstants DEF EarType, Ear!Heard
<1>2. dt \in Nat /\ irl_signal' \in Seq(Nat)
  BY <1>1, EarIntervals
<1>3. irl_edges' \in 0 .. 3
  BY <1>1 DEF Ear!ir_record, Ear!Limit
<1>4. irl_pc \in {"loop", "clearing", "cleared", "over_time", "ending"}
  BY DEF EarType, Ear!TypeOK
<1>5. SUFFICES
        /\ irl_state' \in {"wait", "begin", "sample_end", "first_too_long", "no_carrier", "full"}
        /\ irl_checks' \in 0 .. CHECK /\ irl_checks' <= irl_checks + 1
        /\ irl_inCarrier' \in BOOLEAN /\ irl_since' \in Nat /\ irl_first' \in Nat /\ irl_cycle' \in Nat
        /\ irl_first' <= Threshold /\ irl_cnt' \in 0 .. MAX /\ irl_buf' \in [1 .. MAX -> Nat]
        /\ irl_state' \in {"wait", "begin", "sample_end"} => irl_cnt' < MAX
  <2>1. irl_irq' \in BOOLEAN /\ irl_starts' \in 0 .. MaxStarts
    BY EarTypeIs
  <2>2. irl_quiet' \in BOOLEAN
    OBVIOUS
  <2> QED BY <1>2, <1>3, <1>4, <1>5, <2>1, <2>2 DEF EarType, Ear!TypeOK, Ear!Ended, Ear!Heard
<1>6. \A n \in Nat, t \in Nat : Ear!Enter(n, t) \in [1 .. MAX -> Nat]
  BY <1>1 DEF Ear!Enter
<1>7. \A n \in Nat : \A s : /\ (n >= MAX => Ear!StateAt(n, s) = "full")
                              /\ (n < MAX => Ear!StateAt(n, s) = s)
  BY <1>1 DEF Ear!StateAt
<1>8. CASE Ear!FirstEdge
  BY <1>1, <1>8 DEF Ear!FirstEdge
<1>9. CASE Ear!SecondEdge(dt)
  <2>1. CASE dt > Threshold
    BY <1>1, <1>9, <2>1 DEF Ear!SecondEdge
  <2>2. CASE ~ dt > Threshold
    <3>1. irl_inCarrier' = TRUE /\ irl_first' = dt /\ irl_since' = dt /\ dt <= Threshold
          /\ irl_state' = irl_state /\ UNCHANGED <<irl_checks, irl_cycle, irl_cnt, irl_buf>>
      BY <1>1, <1>2, <1>9, <2>2 DEF Ear!SecondEdge
    <3> QED BY <1>1, <1>2, <3>1 DEF Ear!Heard
  <2> QED BY <2>1, <2>2
<1>10. CASE Ear!CarrierEdge(dt)
  <2>1. irl_cnt' \in Nat /\ irl_cnt' <= MAX /\ irl_since' \in Nat /\ irl_inCarrier' = TRUE
        /\ irl_first' = irl_first
    BY <1>1, <1>2, <1>10 DEF Ear!CarrierEdge
  <2>2. irl_buf' \in [1 .. MAX -> Nat]
    BY <1>6, <1>10, <2>1 DEF Ear!CarrierEdge
  <2>3. irl_state' = Ear!StateAt(irl_cnt', irl_state)
    BY <1>10 DEF Ear!CarrierEdge
  <2>4. irl_cycle' \in Nat /\ irl_checks' \in 0 .. CHECK /\ irl_checks' <= irl_checks + 1
    BY <1>1, <1>2, <1>10, EarChecked DEF Ear!CarrierEdge
  <2> QED BY <1>1, <1>7, <2>1, <2>2, <2>3, <2>4 DEF Ear!Heard
<1>11. CASE Ear!GapEdge(dt)
  <2>1. irl_first' = irl_first /\ Threshold < dt
    BY <1>11 DEF Ear!GapEdge
  <2>2. CASE irl_inCarrier
    <3>1. irl_inCarrier' = FALSE /\ irl_since' = 0 /\ irl_cnt' = irl_cnt + 1
          /\ irl_state' = Ear!StateAt(irl_cnt', irl_state)
      BY <1>11, <2>2 DEF Ear!GapEdge
    <3>2. irl_cycle' \in Nat /\ irl_checks' \in 0 .. CHECK /\ irl_checks' <= irl_checks + 1
      BY <1>1, <1>2, <1>11, <2>2, EarChecked DEF Ear!GapEdge
    <3>3. Ear!BurstWhole \in [1 .. MAX -> Nat]
      BY <1>1 DEF Ear!BurstWhole
    <3>4. dt - irl_first \div 3 \in Nat
      BY <1>1, <1>2, <2>1, ThirdOf
    <3>5. irl_buf' \in [1 .. MAX -> Nat]
      <4>1. irl_buf' = IF irl_cnt' < MAX THEN [Ear!BurstWhole EXCEPT ![irl_cnt' + 1] = dt - irl_first \div 3]
                       ELSE Ear!BurstWhole
        BY <1>11, <2>2 DEF Ear!GapEdge
      <4> DEFINE whole == Ear!BurstWhole
                 gap == dt - irl_first \div 3
      <4> HIDE DEF whole, gap
      <4>2. irl_buf' = IF irl_cnt' < MAX THEN [whole EXCEPT ![irl_cnt' + 1] = gap] ELSE whole
        BY <4>1 DEF whole, gap
      <4>3. whole \in [1 .. MAX -> Nat] /\ gap \in Nat
        BY <3>3, <3>4 DEF whole, gap
      <4> QED BY ONLY <4>2, <4>3
    <3>6. irl_cnt' \in Nat /\ irl_cnt' <= MAX /\ (irl_cnt' >= MAX \/ irl_cnt' < MAX)
      BY ONLY <1>1, <3>1
    <3>7. irl_state' = "full" \/ (irl_state' = irl_state /\ irl_cnt' < MAX)
      BY ONLY <1>7, <3>1, <3>6
    <3>8. irl_state \in {"wait", "begin"} /\ irl_first' \in Nat /\ irl_first' <= Threshold
      BY <1>1, <2>1 DEF Ear!Heard
    <3>9. irl_cnt' \in 0 .. MAX /\ irl_since' \in Nat
      BY ONLY <1>1, <3>1, <3>6
    <3>10. irl_inCarrier' \in BOOLEAN
      BY <3>1, Zenon
    <3> QED BY <3>2, <3>5, <3>7, <3>8, <3>9, <3>10
  <2>3. CASE ~ irl_inCarrier
    BY <1>1, <1>11, <2>1, <2>3 DEF Ear!GapEdge
  <2> QED BY <2>2, <2>3
<1>12. CASE Ear!LateEdge(dt)
  <2>1. irl_cycle' \in Nat /\ irl_checks' \in 0 .. CHECK /\ irl_checks' <= irl_checks + 1
    BY <1>1, <1>2, <1>12, EarChecked DEF Ear!LateEdge
  <2> QED BY <1>1, <1>7, <1>12, <2>1 DEF Ear!LateEdge
<1> QED BY <1>8, <1>9, <1>10, <1>11, <1>12 DEF Ear!ir_record

\* The first two edges.
LEMMA EarBegins ==
  ASSUME EarType, Ear!IrLearnAssumption, irl_state \in Ear!Heard, NEW dt \in Ear!Intervals,
         Ear!ir_record(dt), irl_signal' = Ear!SignalAfter(dt),
         EarEmpty \/ (EarFirst /\ irl_state = "begin")
  PROVE  /\ \/ irl_state' = "begin" /\ (EarFirst \/ (EarHears /\ EarFinds))'
            \/ irl_state' = "first_too_long" /\ irl_cnt' = 0
         /\ irl_quiet /\ EarFirst => irl_state' = "first_too_long"
<1> USE EarConstants
<1>1. CASE EarEmpty
  <2>1. irl_signal' = <<1>>
    BY <1>1, EarIntervals, EarTypeIs DEF EarEmpty
  <2>2. Ear!FirstEdge /\ irl_edges' = 1
    BY <1>1 DEF EarEmpty, Ear!ir_record, Ear!Limit
  <2> QED BY <1>1, <2>1, <2>2 DEF EarEmpty, EarFirst, Ear!FirstEdge
<1>2. CASE EarFirst /\ irl_state = "begin"
  <2>1. Ear!SecondEdge(dt) /\ irl_edges' = 2
    BY <1>2 DEF EarFirst, Ear!ir_record, Ear!Limit
  <2>2. irl_signal # <<>> /\ Len(irl_signal) = 1 /\ irl_signal[1] = 1
    BY <1>2 DEF EarFirst
  <2>s. irl_signal \in Seq(Nat) /\ Cycle \notin Gaps /\ End + 1 # Cycle
    BY EarTypeIs
  <2>a. /\ dt = Cycle => Ear!SignalAfter(dt) = [irl_signal EXCEPT ![Len(irl_signal)] = @ + 1]
        /\ dt # Cycle => dt = End + 1
    <3>1. \/ dt = Cycle /\ Ear!SignalAfter(dt) = [irl_signal EXCEPT ![Len(irl_signal)] = @ + 1]
          \/ dt \in Gaps /\ irl_signal[1] >= CHECK + 2
          \/ dt = End + 1
      BY ONLY Ear!IrLearnAssumption, <2>2, <2>s, EarIntervals, dt \in Ear!Intervals
    <3> QED BY <2>2, <2>s, <3>1
  <2>3. CASE dt = Cycle
    <3>1. irl_inCarrier' = TRUE /\ irl_first' = Cycle /\ irl_since' = Cycle /\ irl_state' = irl_state
          /\ UNCHANGED <<irl_checks, irl_cycle, irl_cnt, irl_buf>>
      BY <2>1, <2>3 DEF Ear!SecondEdge
    <3>2. irl_signal' = <<2>>
      <4>1. irl_signal' = [irl_signal EXCEPT ![1] = @ + 1]
        BY <2>2, <2>3, <2>a
      <4> QED BY <1>2, <4>1 DEF EarFirst
    <3>3. (2 - 1) * Cycle = Cycle
      BY BurstTimes
    <3>4. Len(irl_signal') = 1 /\ irl_signal'[1] = 2
      BY <3>2
    <3>5. EarHears'
      BY <1>2, <2>1, <3>1, <3>3, <3>4 DEF EarFirst, EarHears
    <3>6. EarFinds'
      BY <1>2, <3>1, <3>4, EarTypeIs DEF EarFirst, EarFinds
    <3>7. irl_state' = "begin" /\ ~ irl_quiet
      BY <1>2, <2>3, <2>s, <3>1 DEF Ear!Intervals
    <3> QED BY <3>5, <3>6, <3>7
  <2>4. CASE dt # Cycle
    <3>1. dt = End + 1
      BY <2>4, <2>a
    <3> QED BY <1>2, <2>1, <3>1 DEF EarFirst, Ear!SecondEdge
  <2> QED BY <2>3, <2>4
<1> QED BY <1>1, <1>2

\* A burst grows.
LEMMA EarBurst ==
  ASSUME EarType, Ear!IrLearnAssumption, irl_state = "begin", EarHears, EarFinds,
         irl_signal' = [irl_signal EXCEPT ![Len(irl_signal)] = @ + 1],
         irl_edges' >= 2, Ear!CarrierEdge(Cycle)
  PROVE  irl_state' = "full" \/ (irl_state' = "begin" /\ EarHears' /\ EarFinds')
<1> DEFINE s == irl_signal
           t == irl_signal'
<1>1. /\ irl_cnt \in Nat /\ irl_cnt < MAX /\ irl_buf \in [1 .. MAX -> Nat] /\ s \in Seq(Nat)
      /\ irl_since \in Nat /\ irl_checks \in Nat /\ irl_checks <= CHECK /\ irl_cycle \in Nat
      /\ MAX \in Nat /\ CHECK \in Nat /\ CHECK >= 2 /\ Cycle \in Nat /\ Cycle >= 1
      /\ irl_inCarrier \in BOOLEAN
  BY EarTypeIs, EarConstants DEF EarType
<1>2. PICK n \in Nat : n = Len(s)
  BY <1>1
<1>3. n % 2 = 1 /\ n >= 1
  <2>1. n % 2 = 1
    BY <1>2 DEF EarHears
  <2> QED BY <2>1
<1>4. PICK k \in Nat : s[n] = k
  BY <1>1, <1>2, <1>3
<1>5. t \in Seq(Nat) /\ Len(t) = n /\ t[n] = k + 1 /\ \A i \in 1 .. n - 1 : t[i] = s[i]
  BY <1>1, <1>2, <1>3, <1>4
<1>6. /\ irl_first' = Cycle /\ irl_inCarrier' = TRUE /\ irl_since' = irl_since + Cycle
      /\ irl_cnt' = IF irl_inCarrier THEN irl_cnt ELSE irl_cnt + 1
      /\ irl_buf' = Ear!Enter(irl_cnt', irl_since') /\ irl_state' = Ear!StateAt(irl_cnt', irl_state)
      /\ Ear!Check(Cycle)
  BY DEF Ear!CarrierEdge, EarHears
<1>7. irl_cnt' = n - 1 /\ k >= 1 /\ irl_since' = k * Cycle
  <2>1. CASE irl_inCarrier
    <3>1. irl_cnt = n - 1 /\ k >= 2 /\ irl_since = (k - 1) * Cycle
      BY <1>2, <1>4, <2>1 DEF EarHears
    <3> QED BY <1>1, <1>6, <2>1, <3>1, BurstTimes
  <2>2. CASE ~ irl_inCarrier
    <3>1. irl_cnt = n - 2 /\ k = 1 /\ irl_since = 0
      BY <1>2, <1>4, <2>2 DEF EarHears
    <3>2. 1 * Cycle = Cycle
      BY <1>1
    <3> QED BY <1>1, <1>2, <1>6, <2>2, <3>1, <3>2
  <2> QED BY <2>1, <2>2
<1>8. CASE n - 1 >= MAX
  BY <1>6, <1>7, <1>8 DEF Ear!StateAt
<1>9. CASE n - 1 < MAX
  <2>1. irl_state' = "begin" /\ irl_buf' = [irl_buf EXCEPT ![n] = k * Cycle]
    <3>1. irl_buf' = [irl_buf EXCEPT ![(n - 1) + 1] = k * Cycle]
      BY <1>6, <1>7, <1>9 DEF Ear!Enter
    <3>2. irl_state' = "begin"
      BY <1>1, <1>6, <1>7, <1>9 DEF Ear!StateAt
    <3>3. (n - 1) + 1 = n
      BY <1>3
    <3> QED BY <3>1, <3>2, <3>3
  <2>2. irl_buf'[n] = k * Cycle /\ \A i \in 1 .. n - 1 : irl_buf'[i] = irl_buf[i]
    <3>1. n \in 1 .. MAX
      BY <1>1, <1>3, <1>9
    <3>2. ASSUME NEW v, irl_buf' = [irl_buf EXCEPT ![n] = v]
          PROVE  irl_buf'[n] = v /\ \A i \in 1 .. n - 1 : irl_buf'[i] = irl_buf[i]
      BY <1>1, <1>3, <3>1, <3>2
    <3> QED BY <2>1, <3>2
  <2>3. \A i \in 1 .. n - 1 : irl_buf'[i] = Ear!Section(i)'
    <3>1. \A i \in 1 .. n - 1 : irl_buf[i] = Ear!Section(i)
      BY <1>2 DEF EarHears
    <3>2. \A i \in 1 .. n - 1 : Ear!Section(i)' = Ear!Section(i)
      BY <1>5 DEF Ear!Section
    <3> QED BY <2>2, <3>1, <3>2
  <2>4. /\ n > 1 => irl_checks' = CHECK /\ irl_cycle' = Cycle
        /\ n = 1 => k >= 2 /\ irl_cycle' = Cycle /\ (irl_checks' = CHECK \/ irl_checks' + 2 >= k + 1)
    <3>1. /\ irl_checks < CHECK => /\ irl_checks' = irl_checks + 1
                                   /\ irl_cycle' = IF irl_cycle < Cycle THEN Cycle ELSE irl_cycle
          /\ irl_checks = CHECK => irl_checks' = irl_checks /\ irl_cycle' = irl_cycle
      BY <1>1, <1>6, EarChecked
    <3>2. n > 1 => irl_checks = CHECK /\ irl_cycle = Cycle
      BY <1>2 DEF EarHears
    <3>3. n = 1 => irl_inCarrier /\ k >= 2
      BY <1>1, <1>2, <1>4 DEF EarHears
    <3>4. n = 1 => /\ k = 2 => irl_checks <= 1 /\ irl_cycle = 0
                   /\ k > 2 => irl_cycle = Cycle
                   /\ irl_checks = CHECK \/ irl_checks + 2 >= k
      BY <1>2, <1>4 DEF EarFinds
    <3> QED BY ONLY <1>1, <1>4, <3>1, <3>2, <3>3, <3>4
  <2>5. EarHears'
    <3>1. k + 1 >= 2 /\ ((k + 1) - 1) * Cycle = k * Cycle
      BY <1>7
    <3> QED BY <1>3, <1>5, <1>6, <1>7, <2>2, <2>3, <2>4, <3>1 DEF EarHears
  <2>6. EarFinds'
    BY <1>5, <2>4 DEF EarFinds
  <2> QED BY <2>1, <2>5, <2>6
<1> QED BY <1>1, <1>8, <1>9

\* A gap ends.
LEMMA EarGap ==
  ASSUME EarType, Ear!IrLearnAssumption, irl_state = "begin", EarHears, EarFinds, NEW dt \in Gaps,
         irl_signal' = irl_signal \o <<dt, 1>>, Len(irl_signal) = 1 => irl_signal[1] >= CHECK + 2,
         irl_edges' >= 2, Ear!GapEdge(dt)
  PROVE  irl_state' \in {"full", "no_carrier"} \/ (irl_state' = "begin" /\ EarHears' /\ EarFinds')
<1> DEFINE s == irl_signal
           t == irl_signal'
<1>1. /\ irl_cnt \in Nat /\ irl_cnt < MAX /\ irl_buf \in [1 .. MAX -> Nat] /\ s \in Seq(Nat)
      /\ irl_checks \in Nat /\ irl_checks <= CHECK /\ irl_cycle \in Nat
      /\ MAX \in Nat /\ CHECK \in Nat /\ CHECK >= 2 /\ Cycle \in Nat /\ Cycle >= 1 /\ dt \in Nat
      /\ irl_inCarrier \in BOOLEAN
  BY EarTypeIs, EarConstants DEF EarType
<1>2. PICK n \in Nat : n = Len(s)
  BY <1>1
<1>3. n % 2 = 1 /\ n >= 1 /\ (n + 1) % 2 = 0 /\ (n + 2) % 2 = 1
  <2>1. n % 2 = 1
    BY <1>2 DEF EarHears
  <2> QED BY <2>1
<1>4. PICK k \in Nat : s[n] = k
  BY <1>1, <1>2, <1>3
<1>5. /\ t \in Seq(Nat) /\ Len(t) = n + 2 /\ t[n] = k /\ t[n + 1] = dt /\ t[n + 2] = 1
      /\ \A i \in 1 .. n - 1 : t[i] = s[i]
  BY <1>1, <1>2, <1>3, <1>4
<1>6. CASE ~ irl_inCarrier
  BY <1>6 DEF Ear!GapEdge
<1>7. CASE irl_inCarrier
  <2>1. /\ irl_inCarrier' = FALSE /\ irl_since' = 0 /\ irl_cnt' = irl_cnt + 1 /\ irl_first' = Cycle
        /\ irl_buf' = IF irl_cnt' < MAX THEN [Ear!BurstWhole EXCEPT ![irl_cnt' + 1] = dt - Cycle \div 3]
                      ELSE Ear!BurstWhole
        /\ irl_state' = Ear!StateAt(irl_cnt', irl_state) /\ Ear!Check(dt)
    BY <1>7 DEF Ear!GapEdge, EarHears
  <2>2. irl_cnt = n - 1 /\ k >= 2 /\ irl_buf[n] = (k - 1) * Cycle
    <3>1. /\ irl_cnt = n - 1 /\ k >= 2 /\ irl_since = (k - 1) * Cycle
          /\ (n = 1 /\ k = 2) \/ irl_buf[n] = irl_since
      BY <1>2, <1>4, <1>7 DEF EarHears
    <3>2. n = 1 => k >= CHECK + 2
      BY <1>2, <1>4
    <3> QED BY <1>1, <1>4, <3>1, <3>2
  <2>3. irl_checks' = CHECK /\ irl_cycle' = Cycle
    <3>1. irl_checks = CHECK => irl_checks' = irl_checks /\ irl_cycle' = irl_cycle
      BY <1>1, <2>1, EarChecked
    <3>2. n > 1 => irl_checks = CHECK /\ irl_cycle = Cycle
      BY <1>2 DEF EarHears
    <3>3. n = 1 => /\ k >= CHECK + 2 /\ (k > 2 => irl_cycle = Cycle)
                   /\ irl_checks = CHECK \/ irl_checks + 2 >= k
      BY <1>2, <1>4 DEF EarFinds
    <3> QED BY ONLY <1>1, <1>3, <1>4, <3>1, <3>2, <3>3
  <2>4. irl_cnt' = n
    BY <1>1, <2>1, <2>2
  <2>5. CASE n >= MAX
    BY <2>1, <2>4, <2>5 DEF Ear!StateAt
  <2>6. CASE n < MAX
    <3>1. irl_state' = "begin"
      BY <1>1, <2>1, <2>4, <2>6 DEF Ear!StateAt
    <3>2. PICK v : v = dt - Cycle \div 3
      OBVIOUS
    <3>3. Ear!BurstWhole = [irl_buf EXCEPT ![n] = k * Cycle]
      <4>1. Ear!BurstWhole = [irl_buf EXCEPT ![irl_cnt + 1] = irl_buf[irl_cnt + 1] + irl_first]
        BY DEF Ear!BurstWhole
      <4>2. irl_cnt + 1 = n /\ irl_first = Cycle
        BY <1>1, <2>2 DEF EarHears
      <4>3. irl_buf[n] + Cycle = k * Cycle
        BY <1>1, <2>2, BurstTimes
      <4> QED BY <4>1, <4>2, <4>3
    <3>4. irl_buf' = [[irl_buf EXCEPT ![n] = k * Cycle] EXCEPT ![n + 1] = v]
      BY <2>1, <2>4, <2>6, <3>2, <3>3
    <3>5. /\ irl_buf'[n] = k * Cycle /\ irl_buf'[n + 1] = v
          /\ \A i \in 1 .. n - 1 : irl_buf'[i] = irl_buf[i]
      <4>1. n \in 1 .. MAX /\ n + 1 \in 1 .. MAX
        BY <1>1, <1>3, <2>6
      <4>2. ASSUME NEW u, irl_buf' = [[irl_buf EXCEPT ![n] = u] EXCEPT ![n + 1] = v]
            PROVE  /\ irl_buf'[n] = u /\ irl_buf'[n + 1] = v
                   /\ \A i \in 1 .. n - 1 : irl_buf'[i] = irl_buf[i]
        BY <1>1, <1>3, <4>1, <4>2
      <4> QED BY <3>4, <4>2
    <3>6. \A i \in 1 .. n + 1 : irl_buf'[i] = Ear!Section(i)'
      <4>1. \A i \in 1 .. n - 1 : irl_buf[i] = Ear!Section(i)
        BY <1>2 DEF EarHears
      <4>2. \A i \in 1 .. n - 1 : Ear!Section(i)' = Ear!Section(i)
        BY <1>5 DEF Ear!Section
      <4>3. Ear!Section(n)' = k * Cycle /\ Ear!Section(n + 1)' = v
        BY <1>3, <1>5, <3>2 DEF Ear!Section
      <4>4. \A i \in 1 .. n + 1 : i \in 1 .. n - 1 \/ i = n \/ i = n + 1
        OBVIOUS
      <4> QED BY <3>5, <4>1, <4>2, <4>3, <4>4
    <3>7. EarHears'
      <4>1. n + 2 = Len(t) /\ (n + 2) - 1 = n + 1 /\ (n + 2) - 2 = n /\ n + 2 > 1
        BY <1>5
      <4> QED BY <1>3, <1>5, <2>1, <2>3, <2>4, <3>6, <4>1 DEF EarHears
    <3>8. EarFinds'
      <4>1. Len(t) # 1
        BY <1>3, <1>5
      <4> QED BY <4>1 DEF EarFinds
    <3> QED BY <3>1, <3>7, <3>8
  <2> QED BY <1>1, <2>5, <2>6
<1> QED BY <1>1, <1>6, <1>7

\* An edge comes late.
LEMMA EarLate ==
  ASSUME EarType, Ear!IrLearnAssumption, EarHears, irl_signal' = irl_signal,
         irl_edges' >= 2, NEW dt \in Nat, Ear!LateEdge(dt)
  PROVE  (EarHears' /\ irl_state' = "sample_end") \/ irl_state' = "full"
<1>1. /\ UNCHANGED <<irl_inCarrier, irl_since, irl_first, irl_cnt, irl_buf>>
      /\ irl_state' = Ear!StateAt(irl_cnt, "sample_end") /\ Ear!Check(dt)
  BY DEF Ear!LateEdge
<1>2. irl_checks = CHECK => irl_checks' = irl_checks /\ irl_cycle' = irl_cycle
  BY <1>1, EarChecked
<1>3. \A i : Ear!Section(i)' = Ear!Section(i)
  BY DEF Ear!Section
<1>4. EarHears'
  BY <1>1, <1>2, <1>3 DEF EarHears
<1> QED BY <1>1, <1>4 DEF Ear!StateAt

LEMMA EarRecords ==
  ASSUME EarType, Ear!IrLearnAssumption, irl_state = "begin", EarHears, EarFinds,
         NEW dt \in Ear!Intervals, Ear!ir_record(dt), irl_signal' = Ear!SignalAfter(dt)
  PROVE  /\ \/ irl_state' \in {"full", "no_carrier"}
            \/ irl_state' = "begin" /\ EarHears' /\ EarFinds'
            \/ irl_state' = "sample_end" /\ EarHears'
         /\ irl_quiet => irl_state' = "sample_end"
<1>1. irl_edges \in 0 .. 3 /\ irl_edges > 1 /\ irl_signal \in Seq(Nat) /\ irl_signal # <<>>
  <2>1. Len(irl_signal) % 2 = 1 /\ irl_edges >= 2
    BY DEF EarHears
  <2>2. irl_signal # <<>>
    BY <2>1
  <2> QED BY <2>1, <2>2, EarTypeIs
<1>2. irl_edges' >= 2 /\ (Ear!CarrierEdge(dt) \/ Ear!GapEdge(dt) \/ Ear!LateEdge(dt))
  BY <1>1 DEF Ear!ir_record, Ear!Limit
<1>3. /\ dt \in Nat /\ (irl_quiet => dt = End + 1)
      /\ \/ dt = Cycle /\ Ear!SignalAfter(dt) = [irl_signal EXCEPT ![Len(irl_signal)] = @ + 1]
         \/ dt \in Gaps /\ (Len(irl_signal) = 1 => irl_signal[1] >= CHECK + 2)
            /\ Ear!SignalAfter(dt) = irl_signal \o <<dt, 1>>
         \/ dt = End + 1 /\ Ear!SignalAfter(dt) = irl_signal
  BY <1>1, EarIntervals
<1>4. CASE Ear!CarrierEdge(dt)
  <2>1. dt < Threshold
    BY <1>4 DEF Ear!CarrierEdge
  <2>2. dt \notin Gaps /\ dt # End + 1
    BY <1>3, <2>1, EarConstants
  <2> QED BY <1>2, <1>3, <1>4, <2>2, EarBurst
<1>5. CASE Ear!GapEdge(dt)
  <2>1. Threshold < dt /\ dt < End
    BY <1>5 DEF Ear!GapEdge
  <2>2. dt # Cycle /\ dt # End + 1
    BY <1>3, <2>1, EarConstants
  <2> QED BY <1>2, <1>3, <1>5, <2>2, EarGap
<1>6. CASE Ear!LateEdge(dt)
  <2>1. End < dt
    BY <1>6 DEF Ear!LateEdge
  <2>2. dt \notin Gaps /\ dt # Cycle
    BY <1>3, <2>1, EarConstants
  <2>3. (EarHears' /\ irl_state' = "sample_end") \/ irl_state' = "full"
    BY <1>2, <1>3, <1>6, <2>2, EarLate
  <2>4. irl_cnt < MAX => irl_state' = "sample_end"
    BY <1>6, EarTypeIs, EarConstants DEF Ear!LateEdge, Ear!StateAt
  <2>5. irl_cnt < MAX
    BY DEF EarType
  <2> QED BY <2>3, <2>4, <2>5
<1> QED BY <1>2, <1>4, <1>5, <1>6

-----------------------------------------------------------------------------
LEMMA EarStart ==
  ASSUME Ear!IrLearnAssumption, Ear!Init
  PROVE  EarInv
<1>1. EarType
  <2>1. irl_signal \in Seq(Nat) /\ irl_buf \in [1 .. MAX -> Nat]
    BY DEF Ear!Init
  <2>2. irl_inCarrier \in BOOLEAN /\ {irl_irq, irl_quiet} \subseteq BOOLEAN
    BY Zenon DEF Ear!Init
  <2> QED BY <2>1, <2>2, EarConstants DEF Ear!Init, EarType, Ear!TypeOK, Ear!Ended, Ear!Heard
<1> QED BY <1>1 DEF Ear!Init, EarInv, Ear!LearnedRight

LEMMA EarEdge ==
  ASSUME Ear!IrLearnAssumption, EarInv, Ear!Edge
  PROVE  EarInv'
<1>1. PICK dt \in Ear!Intervals : Ear!ir_record(dt) /\ irl_signal' = Ear!SignalAfter(dt)
  BY DEF Ear!Edge
<1>2. /\ irl_state \in Ear!Heard /\ (irl_pc = "clearing" => irl_checks = 0)
      /\ irl_quiet' = FALSE /\ UNCHANGED <<irl_irq, irl_pc, irl_starts>>
  BY DEF Ear!Edge
<1>3. EarType
  BY DEF EarInv
<1>4. /\ EarType' /\ irl_checks' <= irl_checks + 1
      /\ irl_state' \in {"wait", "begin", "sample_end", "first_too_long", "no_carrier", "full"}
  BY <1>1, <1>2, <1>3, EarEdgeTypes
<1>5. Ear!LearnedRight'
  BY <1>4 DEF Ear!LearnedRight
<1>6. irl_pc # "cleared"
  BY <1>2 DEF EarInv, Ear!Heard
<1>7. CASE irl_pc = "clearing"
  <2>1. irl_checks' <= 1 /\ irl_pc' = "clearing"
    BY <1>2, <1>3, <1>4, <1>7, EarTypeIs DEF EarType, Ear!TypeOK
  <2> QED BY <1>4, <1>5, <2>1 DEF EarInv
<1>8. CASE irl_pc # "clearing"
  <2>1. CASE EarEmpty \/ (EarFirst /\ irl_state = "begin")
    <3>1. /\ \/ irl_state' = "begin" /\ (EarFirst \/ (EarHears /\ EarFinds))'
             \/ irl_state' = "first_too_long" /\ irl_cnt' = 0
          /\ irl_quiet /\ EarFirst => irl_state' = "first_too_long"
      BY <1>1, <1>2, <1>3, <2>1, EarBegins
    <3>2. irl_pc = "ending" => irl_quiet /\ EarFirst
      BY <1>2, <2>1 DEF EarInv, Ear!Heard, EarEmpty, EarFirst, EarHears
    <3> QED BY <1>2, <1>4, <1>5, <1>6, <1>8, <3>1, <3>2 DEF EarInv
  <2>2. CASE irl_state = "begin" /\ EarHears /\ EarFinds
    <3>1. /\ \/ irl_state' \in {"full", "no_carrier"}
             \/ irl_state' = "begin" /\ EarHears' /\ EarFinds'
             \/ irl_state' = "sample_end" /\ EarHears'
          /\ irl_quiet => irl_state' = "sample_end"
      BY <1>1, <1>3, <2>2, EarRecords
    <3>2. irl_pc = "ending" => irl_quiet
      BY <2>2 DEF EarInv
    <3> QED BY <1>2, <1>4, <1>5, <1>6, <1>8, <3>1, <3>2 DEF EarInv
  <2> QED BY <1>2, <1>8, <2>1, <2>2 DEF EarInv, Ear!Heard
<1> QED BY <1>7, <1>8

LEMMA EarStartClearing ==
  ASSUME Ear!IrLearnAssumption, EarInv, Ear!StartClearing
  PROVE  EarInv'
<1>1. /\ irl_pc' = "clearing" /\ irl_state' = irl_state /\ irl_state # "success"
      /\ irl_inCarrier' = FALSE /\ irl_since' = 0 /\ irl_first' = 0 /\ irl_checks' = 0
      /\ UNCHANGED <<irl_edges, irl_cycle, irl_cnt, irl_buf, irl_irq, irl_quiet, irl_signal>>
      /\ irl_starts < MaxStarts /\ irl_starts' = irl_starts + 1
  BY DEF Ear!StartClearing
<1>2. EarType
  BY DEF EarInv
<1>3. irl_starts' \in 0 .. MaxStarts
  BY <1>1, <1>2, EarTypeIs, EarConstants
<1>4. irl_inCarrier' \in BOOLEAN
  BY <1>1, Zenon
<1>5. EarType'
  BY <1>1, <1>2, <1>3, <1>4, EarConstants DEF EarType, Ear!TypeOK
<1> QED BY <1>1, <1>5 DEF EarInv, Ear!LearnedRight

LEMMA EarStartEnds ==
  ASSUME Ear!IrLearnAssumption, EarInv, Ear!StartEnds
  PROVE  EarInv'
<1>1. EarType
  BY DEF EarInv
<1>2. CASE Ear!StartCleared
  <2>1. /\ irl_pc = "clearing" /\ irl_pc' = "cleared" /\ irl_state' = "disable" /\ irl_edges' = 0
        /\ irl_cycle' = 0 /\ irl_cnt' = 0 /\ irl_buf' = [i \in 1 .. MAX |-> 0] /\ irl_irq' = TRUE
        /\ irl_signal' = <<>>
        /\ UNCHANGED <<irl_inCarrier, irl_since, irl_first, irl_checks, irl_quiet, irl_starts>>
    BY <1>2 DEF Ear!StartCleared
  <2>2. irl_signal' \in Seq(Nat) /\ irl_buf' \in [1 .. MAX -> Nat]
    BY <2>1
  <2>3. irl_irq' \in BOOLEAN
    BY <2>1, Zenon
  <2>4. EarType'
    BY <1>1, <2>1, <2>2, <2>3, EarConstants DEF EarType, Ear!TypeOK, Ear!Ended, Ear!Heard
  <2>5. EarEmpty'
    BY <2>1 DEF EarInv, EarEmpty
  <2> QED BY <2>1, <2>4, <2>5 DEF EarInv, Ear!LearnedRight
<1>3. CASE Ear!StartWaiting
  <2>1. /\ irl_pc = "cleared" /\ irl_pc' = "loop" /\ irl_state' = "wait" /\ irl_quiet' = FALSE
        /\ UNCHANGED <<irl_edges, irl_inCarrier, irl_since, irl_first, irl_checks, irl_cycle, irl_cnt,
                       irl_buf, irl_irq, irl_signal, irl_starts>>
    BY <1>3 DEF Ear!StartWaiting, Ear!recVars
  <2>2. EarEmpty /\ EarEmpty'
    BY <2>1 DEF EarInv, EarEmpty
  <2>3. irl_quiet' \in BOOLEAN
    BY <2>1, Zenon
  <2>4. EarType'
    BY <1>1, <2>1, <2>2, <2>3, EarConstants DEF EarType, Ear!TypeOK, Ear!Heard, EarEmpty
  <2> QED BY <2>1, <2>2, <2>4 DEF EarInv, Ear!LearnedRight
<1> QED BY <1>2, <1>3 DEF Ear!StartEnds

\* The record does not change.
LEMMA EarKept ==
  ASSUME UNCHANGED <<irl_edges, irl_inCarrier, irl_since, irl_first, irl_checks, irl_cycle, irl_cnt,
                     irl_buf, irl_signal>>
  PROVE  EarEmpty' = EarEmpty /\ EarFirst' = EarFirst /\ EarHears' = EarHears /\ EarFinds' = EarFinds
<1>1. \A i : Ear!Section(i)' = Ear!Section(i)
  BY DEF Ear!Section
<1> QED BY <1>1 DEF EarEmpty, EarFirst, EarHears, EarFinds

LEMMA EarDetects ==
  ASSUME Ear!IrLearnAssumption, EarInv,
         Ear!Silence \/ Ear!DetectOverTime \/ Ear!DetectEnd \/ Ear!StopOverTime \/ UNCHANGED Ear!vars
  PROVE  EarInv'
<1>1. /\ UNCHANGED <<irl_edges, irl_inCarrier, irl_since, irl_first, irl_checks, irl_cycle, irl_cnt,
                     irl_buf, irl_signal, irl_starts>>
      /\ irl_irq' \in {irl_irq, FALSE} /\ irl_quiet' \in {irl_quiet, TRUE}
  BY DEF Ear!Silence, Ear!DetectOverTime, Ear!DetectEnd, Ear!StopOverTime, Ear!vars, Ear!recVars
<1>2. EarEmpty' = EarEmpty /\ EarFirst' = EarFirst /\ EarHears' = EarHears /\ EarFinds' = EarFinds
  BY <1>1, EarKept
<1>3. irl_irq' \in BOOLEAN /\ irl_quiet' \in BOOLEAN
  BY <1>1, Zenon DEF EarInv, EarType, Ear!TypeOK
<1>4. \/ irl_state' = irl_state /\ irl_pc' = irl_pc /\ (irl_quiet => irl_quiet')
      \/ irl_state' = irl_state /\ irl_pc = "loop" /\ irl_pc' = "over_time"
      \/ /\ irl_state' = irl_state /\ irl_pc = "loop" /\ irl_pc' = "ending" /\ irl_quiet' = irl_quiet
         /\ (irl_state = "begin" /\ irl_quiet) \/ irl_state = "sample_end"
      \/ irl_state' = "over_time" /\ irl_pc' = "loop"
  BY DEF Ear!Silence, Ear!DetectOverTime, Ear!DetectEnd, Ear!StopOverTime, Ear!vars, Ear!recVars
<1>5. EarType'
  BY <1>1, <1>3, <1>4 DEF EarInv, EarType, Ear!TypeOK, Ear!Ended, Ear!Heard
<1>6. Ear!LearnedRight'
  <2>1. \A i : Ear!Section(i)' = Ear!Section(i)
    BY <1>1 DEF Ear!Section
  <2>2. irl_state' = "success" => irl_state = "success"
    BY <1>4
  <2> QED BY <1>1, <2>1, <2>2 DEF EarInv, Ear!LearnedRight
<1> QED BY <1>1, <1>2, <1>4, <1>5, <1>6 DEF EarInv

\* The code is complete, with the last cycle put into it.
LEMMA EarEnds ==
  ASSUME Ear!IrLearnAssumption, EarInv, Ear!StopEnd
  PROVE  EarInv'
<1>1. /\ irl_pc = "ending" /\ irl_pc' = "loop" /\ irl_irq' = FALSE
      /\ UNCHANGED <<irl_edges, irl_inCarrier, irl_since, irl_first, irl_checks, irl_cycle, irl_cnt,
                     irl_quiet, irl_signal, irl_starts>>
  BY DEF Ear!StopEnd
<1>2. EarType /\ irl_irq' \in BOOLEAN
  BY <1>1, Zenon DEF EarInv
<1>3. CASE irl_cnt <= MIN
  <2>1. irl_state' = "too_few" /\ irl_buf' = irl_buf
    BY <1>2, <1>3, EarTypeIs, EarConstants DEF Ear!StopEnd
  <2>2. EarType'
    BY <1>1, <1>2, <2>1 DEF EarType, Ear!TypeOK, Ear!Ended, Ear!Heard
  <2> QED BY <1>1, <2>1, <2>2 DEF EarInv, Ear!LearnedRight
<1>4. CASE irl_cnt > MIN
  <2>1. irl_state' = "success" /\ irl_buf' = [irl_buf EXCEPT ![irl_cnt] = @ + irl_cycle]
    BY <1>4 DEF Ear!StopEnd
  <2>2. /\ irl_cnt \in Nat /\ irl_cnt >= 2 /\ irl_cnt <= MAX /\ irl_buf \in [1 .. MAX -> Nat]
        /\ irl_cycle \in Nat /\ Cycle \in Nat /\ MAX \in Nat /\ irl_signal \in Seq(Nat)
    BY <1>2, <1>4, EarTypeIs, EarConstants
  <2>3. irl_buf' \in [1 .. MAX -> Nat]
    BY <2>1, <2>2
  <2>4. EarType'
    BY <1>1, <1>2, <2>1, <2>3 DEF EarType, Ear!TypeOK, Ear!Ended
  <2>5. Ear!LearnedRight'
    <3>1. SUFFICES ASSUME irl_signal[Len(irl_signal)] > 1
          PROVE  /\ irl_cycle = Cycle /\ Len(irl_signal) = irl_cnt + 1
                 /\ \A i \in 1 .. irl_cnt - 1 : irl_buf'[i] = Ear!Section(i)
                 /\ irl_buf'[irl_cnt] + irl_buf'[irl_cnt + 1]
                      = Ear!Section(irl_cnt) + Ear!Section(irl_cnt + 1)
      <4>1. \A i : Ear!Section(i)' = Ear!Section(i)
        BY <1>1 DEF Ear!Section
      <4> QED BY <1>1, <4>1 DEF Ear!LearnedRight
    <3>2. EarHears
      BY <1>1, <2>2 DEF EarInv, EarFirst
    <3>3. PICK n \in Nat : n = Len(irl_signal)
      BY <2>2
    <3>4. n % 2 = 1 /\ n >= 1
      <4>1. n % 2 = 1
        BY <3>2, <3>3 DEF EarHears
      <4> QED BY <4>1
    <3>5. PICK k \in Nat : irl_signal[n] = k
      BY <2>2, <3>3, <3>4
    <3>6. /\ irl_cnt = n - 1 /\ irl_cycle = Cycle
          /\ irl_buf[n] = (k - 1) * Cycle /\ k >= 2
          /\ \A i \in 1 .. n - 1 : irl_buf[i] = Ear!Section(i)
      <4>1. irl_inCarrier
        BY <3>1, <3>2, <3>3, <3>5 DEF EarHears
      <4>2. irl_cnt = n - 1
        BY <3>2, <3>3, <4>1 DEF EarHears
      <4>3. n > 1
        BY <2>2, <3>3, <4>2
      <4> QED BY <3>2, <3>3, <3>5, <4>1, <4>2, <4>3 DEF EarHears
    <3>7. Ear!Section(n) = k * Cycle /\ n <= MAX
      <4>1. Ear!Section(n) = k * Cycle
        BY <3>4, <3>5 DEF Ear!Section
      <4>2. irl_cnt < MAX
        BY <1>1, <1>4, <2>2 DEF EarInv, EarType
      <4> QED BY <2>2, <3>6, <4>1, <4>2
    <3>8. PICK u \in Nat : u = (k - 1) * Cycle
      BY <2>2, <3>5, <3>6, BurstTimes
    <3>9. u + Cycle = k * Cycle
      BY <2>2, <3>5, <3>8, BurstTimes
    <3>10. /\ irl_buf'[n] = irl_buf[n] /\ irl_buf'[n - 1] = irl_buf[n - 1] + Cycle
           /\ \A i \in 1 .. n - 2 : irl_buf'[i] = irl_buf[i]
      <4>1. irl_buf' = [irl_buf EXCEPT ![n - 1] = irl_buf[n - 1] + Cycle]
        BY <2>1, <3>6
      <4>2. n - 1 \in 1 .. MAX /\ n \in 1 .. MAX /\ n # n - 1
        BY <2>2, <3>3, <3>6, <3>7
      <4>3. ASSUME NEW v, irl_buf' = [irl_buf EXCEPT ![n - 1] = v]
            PROVE  /\ irl_buf'[n] = irl_buf[n] /\ irl_buf'[n - 1] = v
                   /\ \A i \in 1 .. n - 2 : irl_buf'[i] = irl_buf[i]
        BY <2>2, <4>2, <4>3
      <4> QED BY <4>1, <4>3
    <3>11. irl_buf[n - 1] \in Nat /\ irl_buf[n - 1] = Ear!Section(n - 1)
      BY <2>2, <3>3, <3>6, <3>7
    <3>12. irl_buf'[n - 1] + irl_buf'[n] = Ear!Section(n - 1) + Ear!Section(n)
      <4>1. irl_buf'[n - 1] = Ear!Section(n - 1) + Cycle /\ irl_buf'[n] = u /\ Ear!Section(n - 1) \in Nat
            /\ Ear!Section(n) = u + Cycle
        BY <3>6, <3>7, <3>8, <3>9, <3>10, <3>11
      <4> QED BY <2>2, <4>1
    <3>13. irl_cnt + 1 = n /\ irl_cnt - 1 = n - 2 /\ irl_cnt = n - 1
      BY <3>3, <3>6
    <3>14. \A i \in 1 .. n - 2 : irl_buf'[i] = Ear!Section(i)
      BY <3>3, <3>6, <3>10
    <3> QED BY <3>3, <3>6, <3>12, <3>13, <3>14
  <2> QED BY <1>1, <2>1, <2>4, <2>5 DEF EarInv
<1> QED BY <1>2, <1>3, <1>4, EarTypeIs, EarConstants

LEMMA EarStep ==
  ASSUME Ear!IrLearnAssumption, EarInv, [Ear!Next]_(Ear!vars)
  PROVE  EarInv'
BY EarEdge, EarStartClearing, EarStartEnds, EarDetects, EarEnds
   DEF Ear!Next, Ear!ir_learn_start, Ear!ir_learn_detect

LEMMA EarHolds ==
  ASSUME Ear!IrLearnAssumption
  PROVE  Ear!Spec => []EarInv
<1>1. Ear!Init => EarInv
  BY EarStart
<1>2. EarInv /\ [Ear!Next]_(Ear!vars) => EarInv'
  BY EarStep
<1> QED BY <1>1, <1>2, PTL DEF Ear!Spec

\* Every variable of the learning keeps its type: nothing is written behind the buffer.
THEOREM LearnTypeCorrect ==
  ASSUME Ear!IrLearnAssumption
  PROVE  Ear!Spec => []Ear!TypeOK
<1>1. EarInv => Ear!TypeOK
  BY DEF EarInv, EarType
<1> QED BY <1>1, EarHolds, PTL

\* For any carrier, any gaps and any room, and wherever the interrupts fall, a code that was learned
\* is the one that came in, but for the cycle that the last gap got from the last burst.
THEOREM LearnsWhatCame ==
  ASSUME Ear!IrLearnAssumption
  PROVE  Ear!Spec => []Ear!LearnedRight
<1>1. EarInv => Ear!LearnedRight
  BY DEF EarInv
<1> QED BY <1>1, EarHolds, PTL

-----------------------------------------------------------------------------
(***************************************************************************)
(* Infrared sending, for any keys, with a learned code or without one, and  *)
(* with keys pressed together or one at a time.                            *)
(***************************************************************************)
CONSTANTS Codes, Switch, Power, NoCode, Learned, Rollover
VARIABLES irs_down, irs_seen, irs_mode, irs_keyType, irs_irHeld, irs_hw, irs_ctrl, irs_pending, irs_dma,
          irs_buf, irs_air, irs_done, irs_mask

Beam == INSTANCE IrSend WITH
  down <- irs_down, seen <- irs_seen, mode <- irs_mode, keyType <- irs_keyType, irHeld <- irs_irHeld,
  hw <- irs_hw, ctrl <- irs_ctrl, pending <- irs_pending, dma <- irs_dma, buf <- irs_buf,
  air <- irs_air, done <- irs_done, mask <- irs_mask

Buffers == {"nec", "learned"}
Waves == Beam!Wave \cup {Beam!Silence}
Nec(wave) == wave.kind \in {"code", "repeat"}
Repeating == irs_ctrl.is_sending # "none" /\ irs_ctrl.repeat

BeamType ==
  /\ irs_down \subseteq Beam!Keys /\ irs_seen \subseteq Beam!Keys /\ irs_mode \in {"ble", "ir"}
  /\ irs_keyType \in {"idle", "ble", "ir"} /\ irs_irHeld \in BOOLEAN /\ irs_hw \in BOOLEAN
  /\ irs_done \in BOOLEAN /\ irs_mask \in BOOLEAN
  /\ irs_ctrl \in [is_sending : {"none", "data", "repeat"}, repeat : BOOLEAN, last : Codes \cup {NoCode}]
  /\ irs_pending \in Codes \cup {NoCode} /\ irs_dma \in {"none", "nec", "learned"}
  /\ irs_buf \in [Buffers -> Waves] /\ irs_air.sent \in Waves /\ irs_air.asked \in Waves

\* What is sending keeps its interrupt, the PWM has a buffer when it is used, and a repeat has a code.
BeamBusy ==
  /\ irs_ctrl.is_sending # "none" => irs_mask /\ (irs_air # Beam!OffAir \/ irs_done)
  /\ irs_hw \/ irs_pending # NoCode \/ irs_mask => irs_dma # "none"
  /\ Repeating => irs_ctrl.last # NoCode

\* With one key at a time what an infrared key left lasts until it is up.
BeamAlone ==
  /\ irs_down = {} \/ \E k \in Beam!Keys : irs_down = {k}
  /\ irs_seen = {} \/ irs_down = {} \/ irs_seen = irs_down
  /\ irs_irHeld => irs_seen # {} /\ irs_keyType = "ir"
  /\ irs_pending # NoCode \/ Repeating \/ irs_ctrl.last # NoCode => irs_irHeld
  /\ irs_pending # NoCode => irs_seen = {irs_pending}
  /\ irs_ctrl.last # NoCode => irs_seen = {irs_ctrl.last}
  /\ Nec(irs_air.asked) =>
       irs_irHeld /\ irs_ctrl.is_sending # "none" /\ irs_seen = {irs_air.asked.code}

\* The buffer of the learned code holds no NEC frame, so that one on the air is the one asked for.
BeamOwn == ~ Nec(irs_buf["learned"]) /\ (Nec(irs_air.sent) => irs_air.sent = irs_air.asked)

BeamInv == BeamType /\ BeamBusy /\ BeamOwn /\ (~ Rollover => BeamAlone)

LEMMA BeamCounts ==
  /\ Beam!Cardinality({}) = 0
  /\ \A k : Beam!Cardinality({k}) = 1
<1>1. \A S : Beam!Cardinality(S) = Cardinality(S)
  BY DEF Beam!Cardinality, Cardinality
<1> QED BY <1>1, FS_EmptySet, FS_Singleton

LEMMA BeamWaves ==
  /\ \A k \in Codes : /\ [kind |-> "code", code |-> k] \in Beam!Wave
                      /\ [kind |-> "repeat", code |-> k] \in Beam!Wave
  /\ [kind |-> "learned", code |-> NoCode] \in Beam!Wave
  /\ Beam!Silence \notin Beam!Wave
<1>1. \A w \in Beam!Wave : w.kind # "silence"
  BY DEF Beam!Wave
<1>2. Beam!Silence.kind = "silence"
  BY DEF Beam!Silence
<1> QED BY <1>1, <1>2 DEF Beam!Wave

\* What the PWM does when sending starts.
LEMMA BeamSends ==
  ASSUME irs_buf \in [Buffers -> Waves], NEW where \in Buffers, NEW at \in Buffers, NEW w \in Beam!Wave,
         Beam!Send(where, at, w)
  PROVE  /\ irs_buf' \in [Buffers -> Waves] /\ irs_air'.sent \in Waves /\ irs_air'.asked \in Waves
         /\ irs_air' # Beam!OffAir
         /\ irs_air'.asked = w
         /\ BeamOwn /\ (where = "nec" \/ (at = where /\ ~ Nec(w))) => BeamOwn'
<1>1. w \in Waves /\ irs_buf' = [irs_buf EXCEPT ![where] = w]
  BY DEF Waves, Beam!Send
<1>2. irs_buf' \in [Buffers -> Waves]
  BY <1>1
<1>3. irs_air'.sent = (IF at = where THEN w ELSE irs_buf[at]) /\ irs_air'.asked = w
  BY DEF Beam!Send
<1>4. irs_air' # Beam!OffAir
  <2>1. Beam!OffAir.asked = Beam!Silence
    BY DEF Beam!OffAir
  <2> QED BY <1>3, <2>1, BeamWaves
<1>5. ASSUME BeamOwn, where = "nec" \/ (at = where /\ ~ Nec(w))
      PROVE  BeamOwn'
  <2>1. ~ Nec(irs_buf'["learned"])
    BY <1>1, <1>5 DEF BeamOwn, Buffers
  <2>2. irs_air'.sent = w \/ (irs_air'.sent = irs_buf[at] /\ at = "learned")
    BY <1>3, <1>5 DEF Buffers
  <2> QED BY <1>3, <1>5, <2>1, <2>2 DEF BeamOwn
<1> QED BY <1>1, <1>2, <1>3, <1>4, <1>5

LEMMA BeamOff ==
  /\ Beam!OffAir.sent \in Waves /\ Beam!OffAir.asked \in Waves
  /\ ~ Nec(Beam!OffAir.sent) /\ ~ Nec(Beam!OffAir.asked)
BY DEF Beam!OffAir, Beam!Silence, Waves, Nec

\* What became of the keys and of the rest, one by one.
CtrlType == [is_sending : {"none", "data", "repeat"}, repeat : BOOLEAN, last : Codes \cup {NoCode}]

LEMMA BeamReleases ==
  ASSUME irs_ctrl \in CtrlType, irs_air.sent \in Waves, irs_air.asked \in Waves, Beam!ir_send_release
  PROVE  /\ irs_ctrl' \in CtrlType /\ irs_ctrl'.is_sending = "none" /\ irs_ctrl'.last = NoCode
         /\ irs_air'.sent \in Waves /\ irs_air'.asked \in Waves
         /\ irs_air' \in {irs_air, Beam!OffAir}
         /\ irs_ctrl.is_sending # "none" => irs_air' = Beam!OffAir
         /\ irs_done' = FALSE /\ irs_mask' = FALSE
<1>1. irs_ctrl' = [irs_ctrl EXCEPT !.is_sending = "none", !.last = NoCode]
  BY DEF Beam!ir_send_release, Beam!Released
<1>2. irs_ctrl' \in CtrlType /\ irs_ctrl'.is_sending = "none" /\ irs_ctrl'.last = NoCode
  BY <1>1 DEF CtrlType
<1>3. irs_air' = irs_air \/ irs_air' = Beam!OffAir
  BY DEF Beam!ir_send_release
<1>4. irs_ctrl.is_sending # "none" => irs_air' = Beam!OffAir
  BY DEF Beam!ir_send_release
<1>5. irs_air'.sent \in Waves /\ irs_air'.asked \in Waves
  BY <1>3, BeamOff
<1>6. irs_done' = FALSE /\ irs_mask' = FALSE
  BY DEF Beam!ir_send_release
<1> QED BY <1>2, <1>3, <1>4, <1>5, <1>6

LEMMA BeamStart ==
  ASSUME Beam!IrSendAssumption, Beam!Init
  PROVE  BeamInv
<1>1. irs_irHeld \in BOOLEAN /\ irs_hw \in BOOLEAN /\ irs_done \in BOOLEAN /\ irs_mask \in BOOLEAN
  BY Zenon DEF Beam!Init
<1>2. irs_ctrl \in CtrlType /\ irs_ctrl.is_sending = "none" /\ irs_ctrl.last = NoCode
  BY DEF Beam!Init, Beam!Idle, CtrlType
<1>3. irs_buf \in [Buffers -> Waves]
  BY DEF Beam!Init, Buffers, Waves
<1>4. BeamType
  BY <1>1, <1>2, <1>3, BeamOff DEF Beam!Init, BeamType, CtrlType
<1>5. BeamOwn
  BY BeamOff DEF Beam!Init, Beam!Silence, BeamOwn, Nec
<1>6. irs_air = Beam!OffAir /\ irs_pending = NoCode /\ irs_down = {} /\ irs_seen = {} /\ ~ irs_irHeld
      /\ ~ irs_mask /\ ~ irs_hw
  BY DEF Beam!Init
<1>7. BeamAlone
  BY <1>2, <1>6, BeamOff DEF BeamAlone, Repeating
<1> QED BY <1>2, <1>4, <1>5, <1>6, <1>7 DEF BeamInv, BeamBusy, Repeating

LEMMA BeamTypeIs ==
  ASSUME BeamInv
  PROVE  /\ irs_ctrl \in CtrlType /\ irs_ctrl.is_sending \in {"none", "data", "repeat"}
         /\ irs_ctrl.repeat \in BOOLEAN /\ irs_ctrl.last \in Codes \cup {NoCode}
         /\ irs_pending \in Codes \cup {NoCode} /\ irs_dma \in {"none", "nec", "learned"}
         /\ irs_buf \in [Buffers -> Waves] /\ irs_air.sent \in Waves /\ irs_air.asked \in Waves
BY DEF BeamInv, BeamType, CtrlType

\* A waveform ends.
LEMMA BeamAllSent ==
  ASSUME BeamInv, Beam!AllSent
  PROVE  BeamInv'
<1>1. /\ irs_air' = Beam!OffAir /\ irs_done' = TRUE
      /\ UNCHANGED <<irs_down, irs_seen, irs_mode, irs_keyType, irs_irHeld, irs_hw, irs_ctrl, irs_pending,
                     irs_buf, irs_dma, irs_mask>>
  BY DEF Beam!AllSent, Beam!keyVars
<1>2. irs_done' \in BOOLEAN
  BY <1>1, Zenon
<1>3. BeamType'
  BY <1>1, <1>2, BeamOff DEF BeamInv, BeamType
<1>4. BeamOwn'
  BY <1>1, BeamOff DEF BeamInv, BeamOwn
<1>5. ~ Rollover => BeamAlone'
  BY <1>1, BeamOff DEF BeamInv, BeamAlone, Repeating
<1> QED BY <1>1, <1>3, <1>4, <1>5 DEF BeamInv, BeamBusy, Repeating

\* The interrupt at its end.
LEMMA BeamInterrupt ==
  ASSUME Beam!IrSendAssumption, BeamInv, Beam!rc_ir_irq_prc
  PROVE  BeamInv'
<1>1. /\ irs_done /\ irs_mask
      /\ UNCHANGED <<irs_down, irs_seen, irs_mode, irs_keyType, irs_irHeld, irs_hw, irs_pending, irs_dma>>
  BY DEF Beam!rc_ir_irq_prc, Beam!keyVars
<1>2. irs_dma \in Buffers
  BY <1>1, BeamTypeIs DEF BeamInv, BeamBusy, Buffers
<1>3. CASE /\ irs_ctrl.repeat /\ irs_ctrl.is_sending # "none" /\ irs_done' = FALSE
           /\ irs_ctrl' = [irs_ctrl EXCEPT !.is_sending = "repeat"]
           /\ Beam!Send("nec", irs_dma, [kind |-> "repeat", code |-> irs_ctrl.last])
           /\ UNCHANGED irs_mask
  <2>1. irs_ctrl.last \in Codes /\ "nec" \in Buffers
    BY <1>3, BeamTypeIs DEF BeamInv, BeamBusy, Repeating, Buffers
  <2>2. [kind |-> "repeat", code |-> irs_ctrl.last] \in Beam!Wave
    BY <2>1, BeamWaves
  <2>3. /\ irs_buf' \in [Buffers -> Waves] /\ irs_air'.sent \in Waves /\ irs_air'.asked \in Waves
        /\ irs_air' # Beam!OffAir
        /\ irs_air'.asked = [kind |-> "repeat", code |-> irs_ctrl.last]
        /\ BeamOwn'
    BY <1>2, <1>3, <2>1, <2>2, BeamTypeIs, BeamSends DEF BeamInv
  <2>4. /\ irs_ctrl' \in CtrlType /\ irs_ctrl'.is_sending = "repeat" /\ irs_ctrl'.last = irs_ctrl.last
        /\ irs_ctrl'.repeat = irs_ctrl.repeat
    BY <1>3, BeamTypeIs DEF CtrlType
  <2>5. irs_done' \in BOOLEAN
    BY <1>3, Zenon
  <2>6. BeamType'
    BY <1>1, <1>3, <2>3, <2>4, <2>5 DEF BeamInv, BeamType, CtrlType
  <2>7. irs_ctrl.last # NoCode
    BY <1>3 DEF BeamInv, BeamBusy, Repeating
  <2>8. BeamBusy'
    BY <1>1, <1>3, <2>3, <2>4, <2>7 DEF BeamInv, BeamBusy
  <2>9. irs_air'.asked.code = irs_ctrl.last
    BY <2>3
  <2>10. ~ Rollover => BeamAlone'
    BY <1>1, <1>3, <2>4, <2>7, <2>9 DEF BeamInv, BeamAlone, Repeating
  <2> QED BY <2>3, <2>6, <2>8, <2>10 DEF BeamInv
<1>4. CASE /\ irs_ctrl.repeat /\ irs_ctrl.is_sending = "none" /\ irs_done' = FALSE
           /\ UNCHANGED <<irs_ctrl, irs_buf, irs_air, irs_mask>>
  <2>1. irs_done' \in BOOLEAN
    BY <1>4, Zenon
  <2>2. BeamType'
    BY <1>1, <1>4, <2>1 DEF BeamInv, BeamType
  <2> QED BY <1>1, <1>4, <2>2 DEF BeamInv, BeamBusy, BeamAlone, BeamOwn, Repeating
<1>5. CASE Beam!ir_send_release /\ UNCHANGED irs_buf
  <2>1. /\ irs_ctrl' \in CtrlType /\ irs_ctrl'.is_sending = "none" /\ irs_ctrl'.last = NoCode
        /\ irs_air'.sent \in Waves /\ irs_air'.asked \in Waves
        /\ irs_air' \in {irs_air, Beam!OffAir}
        /\ irs_ctrl.is_sending # "none" => irs_air' = Beam!OffAir
        /\ irs_done' = FALSE /\ irs_mask' = FALSE
    BY <1>5, BeamTypeIs, BeamReleases
  <2>2. irs_done' \in BOOLEAN /\ irs_mask' \in BOOLEAN
    BY <2>1, Zenon
  <2>3. BeamType'
    BY <1>1, <1>5, <2>1, <2>2 DEF BeamInv, BeamType, CtrlType
  <2>4. BeamOwn'
    BY <1>5, <2>1, BeamOff DEF BeamInv, BeamOwn
  <2>5. ~ Rollover => BeamAlone'
    BY <1>1, <2>1, BeamOff DEF BeamInv, BeamAlone, Repeating
  <2> QED BY <1>1, <2>1, <2>3, <2>4, <2>5 DEF BeamInv, BeamBusy, Repeating
<1> QED BY <1>3, <1>4, <1>5 DEF Beam!rc_ir_irq_prc

\* The user.
LEMMA BeamKeys ==
  ASSUME Beam!IrSendAssumption, BeamInv, NEW k \in Beam!Keys, Beam!Press(k) \/ Beam!LiftKey(k)
  PROVE  BeamInv'
<1>1. UNCHANGED <<irs_seen, irs_mode, irs_keyType, irs_irHeld, irs_hw, irs_ctrl, irs_pending, irs_buf,
                  irs_dma, irs_air, irs_done, irs_mask>>
  BY DEF Beam!Press, Beam!LiftKey, Beam!pwmVars
<1>2. irs_down' \subseteq Beam!Keys
  BY DEF Beam!Press, Beam!LiftKey, BeamInv, BeamType
<1>3. ~ Rollover => /\ irs_down' = {} \/ \E j \in Beam!Keys : irs_down' = {j}
                    /\ irs_seen = {} \/ irs_down' = {} \/ irs_seen = irs_down'
  <2>1. SUFFICES ASSUME ~ Rollover
        PROVE  /\ irs_down' = {} \/ \E j \in Beam!Keys : irs_down' = {j}
               /\ irs_seen = {} \/ irs_down' = {} \/ irs_seen = irs_down'
    OBVIOUS
  <2>2. CASE Beam!Press(k)
    <3>1. irs_seen = {} /\ irs_down' = {k}
      BY <2>1, <2>2 DEF Beam!Press
    <3> QED BY <3>1
  <2>3. CASE Beam!LiftKey(k)
    <3>1. k \in irs_down /\ irs_down' = irs_down \ {k}
      BY <2>3 DEF Beam!LiftKey
    <3>2. irs_down' = {}
      BY <2>1, <3>1 DEF BeamInv, BeamAlone
    <3> QED BY <3>2
  <2> QED BY <2>2, <2>3
<1>4. BeamType'
  BY <1>1, <1>2 DEF BeamInv, BeamType
<1>5. BeamBusy' /\ BeamOwn'
  BY <1>1 DEF BeamInv, BeamBusy, BeamOwn, Repeating
<1>6. ~ Rollover => BeamAlone'
  BY <1>1, <1>3 DEF BeamInv, BeamAlone, Repeating
<1> QED BY <1>4, <1>5, <1>6 DEF BeamInv

\* The rest of ir_nec_send.
LEMMA BeamNec ==
  ASSUME Beam!IrSendAssumption, BeamInv, Beam!ir_nec_send
  PROVE  BeamInv'
<1>1. /\ irs_pending # NoCode /\ irs_pending' = NoCode /\ irs_done' = FALSE /\ irs_mask' = TRUE
      /\ irs_ctrl' = [is_sending |-> "data", repeat |-> TRUE, last |-> irs_pending]
      /\ Beam!Send("nec", irs_dma, [kind |-> "code", code |-> irs_pending])
      /\ UNCHANGED <<irs_down, irs_seen, irs_mode, irs_keyType, irs_irHeld, irs_hw, irs_dma>>
  BY DEF Beam!ir_nec_send, Beam!keyVars
<1>2. irs_dma \in Buffers /\ "nec" \in Buffers /\ irs_pending \in Codes
  BY <1>1, BeamTypeIs DEF BeamInv, BeamBusy, Buffers
<1>3. [kind |-> "code", code |-> irs_pending] \in Beam!Wave
  BY <1>2, BeamWaves
<1>4. /\ irs_buf' \in [Buffers -> Waves] /\ irs_air'.sent \in Waves /\ irs_air'.asked \in Waves
      /\ irs_air' # Beam!OffAir
      /\ irs_air'.asked = [kind |-> "code", code |-> irs_pending]
      /\ BeamOwn'
  BY <1>1, <1>2, <1>3, BeamTypeIs, BeamSends DEF BeamInv
<1>5. irs_done' \in BOOLEAN /\ irs_mask' \in BOOLEAN /\ TRUE \in BOOLEAN
  BY <1>1, Zenon
<1>6. irs_ctrl' \in CtrlType /\ irs_ctrl'.is_sending = "data" /\ irs_ctrl'.last = irs_pending
  BY <1>1, <1>2, <1>5 DEF CtrlType
<1>7. BeamType'
  BY <1>1, <1>4, <1>5, <1>6 DEF BeamInv, BeamType, CtrlType
<1>8. BeamBusy'
  BY <1>1, <1>2, <1>4, <1>6 DEF BeamInv, BeamBusy, Repeating, Buffers
<1>9. irs_air'.asked.code = irs_pending
  BY <1>4
<1>10. ~ Rollover => BeamAlone'
  BY <1>1, <1>6, <1>9 DEF BeamInv, BeamAlone
<1> QED BY <1>4, <1>7, <1>8, <1>10 DEF BeamInv

LEMMA BeamSleeps ==
  ASSUME Beam!IrSendAssumption, BeamInv, Beam!Sleep \/ UNCHANGED Beam!vars
  PROVE  BeamInv'
<1>1. CASE Beam!Sleep
  <2>1. /\ irs_seen = {} /\ irs_pending = NoCode /\ irs_hw' = FALSE /\ irs_dma' = "none" /\ irs_mask' = FALSE
        /\ irs_ctrl' = [is_sending |-> "none", repeat |-> FALSE, last |-> NoCode]
        /\ UNCHANGED <<irs_down, irs_seen, irs_mode, irs_keyType, irs_irHeld, irs_pending, irs_buf,
                       irs_air, irs_done>>
    BY <1>1 DEF Beam!Sleep, Beam!keyVars, Beam!Idle
  <2>2. irs_hw' \in BOOLEAN /\ irs_mask' \in BOOLEAN /\ FALSE \in BOOLEAN
    BY <2>1, Zenon
  <2>3. irs_ctrl' \in CtrlType /\ irs_ctrl'.is_sending = "none" /\ irs_ctrl'.last = NoCode
    BY <2>1, <2>2 DEF CtrlType
  <2>4. BeamType'
    BY <2>1, <2>2, <2>3 DEF BeamInv, BeamType, CtrlType
  <2>5. BeamOwn'
    BY <2>1 DEF BeamInv, BeamOwn
  <2>6. ~ Rollover => BeamAlone'
    BY <2>1, <2>3, <1>1 DEF Beam!Sleep, BeamInv, BeamAlone, Repeating
  <2> QED BY <2>1, <2>3, <2>4, <2>5, <2>6 DEF BeamInv, BeamBusy, Repeating
<1>2. CASE UNCHANGED Beam!vars
  <2>1. UNCHANGED <<irs_down, irs_seen, irs_mode, irs_keyType, irs_irHeld, irs_hw, irs_ctrl, irs_pending,
                    irs_dma, irs_buf, irs_air, irs_done, irs_mask>>
    BY <1>2 DEF Beam!vars, Beam!keyVars, Beam!pwmVars
  <2> QED BY <2>1 DEF BeamInv, BeamType, BeamBusy, BeamAlone, BeamOwn, Repeating
<1> QED BY <1>1, <1>2

\* What key_change_proc finds.
ChangeSeen ==
  /\ irs_seen # irs_down /\ irs_pending = NoCode /\ ~ (irs_done /\ irs_mask)
  /\ irs_seen' = irs_down /\ irs_down' = irs_down

\* With one key at a time a key that is seen new follows none, and leaves nothing of the last.
LEMMA BeamFresh ==
  ASSUME BeamInv, ~ Rollover, ChangeSeen, irs_down # {}
  PROVE  /\ irs_seen = {} /\ ~ irs_irHeld /\ ~ Repeating /\ irs_ctrl.last = NoCode
         /\ ~ Nec(irs_air.asked)
         /\ irs_down' = {} \/ \E j \in Beam!Keys : irs_down' = {j}
         /\ irs_seen' = {} \/ irs_down' = {} \/ irs_seen' = irs_down'
BY DEF BeamInv, BeamAlone, ChangeSeen

\* A key of the infrared mode.
LEMMA BeamStartNec ==
  ASSUME Beam!IrSendAssumption, BeamInv, ChangeSeen, NEW k \in Codes, k \in irs_down, Beam!StartNec(k)
  PROVE  BeamInv'
<1>1. /\ irs_keyType' = "ir" /\ UNCHANGED <<irs_mode, irs_mask, irs_buf>> /\ irs_down # {}
      /\ irs_pending = NoCode /\ ~ (irs_done /\ irs_mask) /\ irs_seen' = irs_down /\ irs_down' = irs_down
  BY DEF Beam!StartNec, ChangeSeen
<1>2. CASE irs_irHeld
  <2>1. UNCHANGED <<irs_irHeld, irs_hw, irs_ctrl, irs_pending, irs_dma, irs_done, irs_air>>
    BY <1>2 DEF Beam!StartNec
  <2>2. BeamType'
    BY <1>1, <2>1 DEF BeamInv, BeamType
  <2>3. ~ Rollover => FALSE
    BY <1>1, <1>2, BeamFresh
  <2> QED BY <1>1, <2>1, <2>2, <2>3 DEF BeamInv, BeamBusy, BeamOwn, Repeating
<1>3. CASE ~ irs_irHeld
  <2>1. /\ irs_irHeld' = TRUE /\ irs_hw' = TRUE
        /\ irs_hw => irs_dma' = irs_dma /\ irs_done' = irs_done
        /\ ~ irs_hw => irs_dma' = "nec" /\ irs_done' = FALSE
    BY <1>3 DEF Beam!StartNec, Beam!rc_ir_init
  <2>2. /\ \/ irs_ctrl' = irs_ctrl /\ irs_air' = irs_air
           \/ /\ irs_ctrl' = [irs_ctrl EXCEPT !.is_sending = "none"]
              /\ irs_air' \in {irs_air, Beam!OffAir}
           \/ irs_ctrl.is_sending = "none" /\ irs_ctrl' = irs_ctrl /\ irs_air' = irs_air
        /\ irs_pending' \in {irs_pending, k}
    BY <1>3 DEF Beam!StartNec, Beam!Check
  <2>3. /\ irs_ctrl' \in CtrlType /\ irs_ctrl'.repeat = irs_ctrl.repeat /\ irs_ctrl'.last = irs_ctrl.last
        /\ irs_ctrl'.is_sending \in {irs_ctrl.is_sending, "none"}
        /\ irs_ctrl'.is_sending # "none" => irs_air' = irs_air
    BY <2>2, BeamTypeIs DEF CtrlType
  <2>4. /\ irs_air'.sent \in Waves /\ irs_air'.asked \in Waves
        /\ irs_air' \in {irs_air, Beam!OffAir}
    BY <2>2, BeamTypeIs, BeamOff
  <2>5. irs_irHeld' \in BOOLEAN /\ irs_hw' \in BOOLEAN /\ irs_done' \in BOOLEAN
    BY <2>1, Zenon DEF BeamInv, BeamType
  <2>6. irs_dma' \in {irs_dma, "nec"} /\ irs_dma' # "none"
    BY <2>1 DEF BeamInv, BeamBusy
  <2>7. BeamType'
    BY <1>1, <2>2, <2>3, <2>4, <2>5, <2>6, BeamTypeIs DEF BeamInv, BeamType, CtrlType
  <2>8. BeamBusy'
    <3>1. irs_ctrl'.is_sending # "none" => irs_mask' /\ irs_air' # Beam!OffAir
      BY <1>1, <2>3 DEF BeamInv, BeamBusy
    <3>2. Repeating' => irs_ctrl'.last # NoCode
      BY <2>3 DEF BeamInv, BeamBusy, Repeating
    <3> QED BY <2>6, <3>1, <3>2 DEF BeamBusy
  <2>9. ~ Rollover => BeamAlone'
    <3>1. SUFFICES ASSUME ~ Rollover PROVE BeamAlone'
      OBVIOUS
    <3>2. irs_ctrl.last = NoCode /\ ~ Nec(irs_air.asked) /\ (\E j \in Beam!Keys : irs_down = {j})
      BY <1>1, <3>1, BeamFresh DEF BeamInv, BeamAlone
    <3>3. irs_down = {k} /\ ~ Nec(irs_air'.asked) /\ irs_ctrl'.last = NoCode
      BY <2>3, <2>4, <3>2, BeamOff
    <3> QED BY <1>1, <2>1, <2>2, <3>2, <3>3 DEF BeamAlone
  <2>10. BeamOwn'
    BY <1>1, <2>4, BeamOff DEF BeamInv, BeamOwn
  <2> QED BY <2>7, <2>8, <2>9, <2>10 DEF BeamInv
<1> QED BY <1>2, <1>3

\* The key of the learned code.
LEMMA BeamLearned ==
  ASSUME Beam!IrSendAssumption, BeamInv, Learned, ~ Rollover, ChangeSeen, irs_down # {}, Beam!SendLearned
  PROVE  BeamInv'
<1>1. /\ irs_dma' = "learned" /\ irs_done' = FALSE
      /\ irs_pending = NoCode /\ ~ (irs_done /\ irs_mask) /\ irs_seen' = irs_down /\ irs_down' = irs_down
      /\ UNCHANGED <<irs_mode, irs_keyType, irs_irHeld, irs_hw, irs_pending>>
  BY DEF Beam!SendLearned, ChangeSeen
<1>2. irs_done' \in BOOLEAN /\ TRUE \in BOOLEAN /\ FALSE \in BOOLEAN
  BY <1>1, Zenon
<1>3. /\ irs_seen = {} /\ ~ irs_irHeld /\ ~ Repeating /\ ~ Nec(irs_air.asked)
      /\ irs_down' = {} \/ \E j \in Beam!Keys : irs_down' = {j}
      /\ irs_seen' = {} \/ irs_down' = {} \/ irs_seen' = irs_down'
  BY BeamFresh
<1>4. CASE /\ irs_ctrl.is_sending # "none" /\ irs_ctrl' = [irs_ctrl EXCEPT !.last = NoCode]
           /\ UNCHANGED <<irs_air, irs_mask, irs_buf>>
  <2>1. /\ irs_ctrl' \in CtrlType /\ irs_ctrl'.is_sending = irs_ctrl.is_sending
        /\ irs_ctrl'.repeat = irs_ctrl.repeat /\ irs_ctrl'.last = NoCode
    BY <1>4, BeamTypeIs DEF CtrlType
  <2>2. BeamType'
    BY <1>1, <1>2, <1>4, <2>1 DEF BeamInv, BeamType, CtrlType
  <2>3. ~ Repeating'
    BY <1>3, <2>1 DEF Repeating
  <2>4. BeamBusy'
    BY <1>1, <1>4, <2>1, <2>3 DEF BeamInv, BeamBusy
  <2>5. BeamAlone'
    BY <1>1, <1>3, <1>4, <2>1, <2>3 DEF BeamAlone
  <2>6. BeamOwn'
    BY <1>4 DEF BeamInv, BeamOwn
  <2> QED BY <2>2, <2>4, <2>5, <2>6 DEF BeamInv
<1>5. CASE /\ irs_ctrl' = [is_sending |-> "data", repeat |-> FALSE, last |-> NoCode]
           /\ irs_mask' = TRUE
           /\ Beam!Send("learned", "learned", [kind |-> "learned", code |-> NoCode])
  <2>1. irs_ctrl' \in CtrlType /\ irs_ctrl'.is_sending = "data" /\ irs_ctrl'.last = NoCode
        /\ ~ irs_ctrl'.repeat
    BY <1>2, <1>5 DEF CtrlType
  <2>2. /\ irs_buf' \in [Buffers -> Waves] /\ irs_air'.sent \in Waves /\ irs_air'.asked \in Waves
        /\ irs_air' # Beam!OffAir
        /\ ~ Nec(irs_air'.asked) /\ BeamOwn'
    <3>1. "learned" \in Buffers
      BY DEF Buffers
    <3>2. ~ Nec([kind |-> "learned", code |-> NoCode])
      BY DEF Nec
    <3> QED BY <1>5, <3>1, <3>2, BeamTypeIs, BeamWaves, BeamSends DEF BeamInv
  <2>3. irs_mask' \in BOOLEAN
    BY <1>5, Zenon
  <2>4. BeamType'
    BY <1>1, <1>2, <2>1, <2>2, <2>3 DEF BeamInv, BeamType, CtrlType
  <2>5. ~ Repeating'
    BY <2>1 DEF Repeating
  <2>6. BeamBusy'
    BY <1>1, <1>5, <2>2, <2>5 DEF BeamBusy
  <2>7. BeamAlone'
    BY <1>1, <1>3, <2>1, <2>2, <2>5 DEF BeamAlone
  <2> QED BY <2>2, <2>4, <2>6, <2>7 DEF BeamInv
<1> QED BY <1>4, <1>5 DEF Beam!SendLearned

LEMMA BeamChange ==
  ASSUME Beam!IrSendAssumption, BeamInv, ~ Learned \/ ~ Rollover, Beam!key_change_proc
  PROVE  BeamInv'
<1> DEFINE Others == UNCHANGED <<irs_hw, irs_ctrl, irs_pending, irs_buf, irs_dma, irs_air, irs_done, irs_mask>>
<1>1. ChangeSeen
  BY DEF Beam!key_change_proc, ChangeSeen
<1>2. irs_seen' = irs_down /\ irs_down' = irs_down /\ irs_pending = NoCode
  BY <1>1 DEF ChangeSeen
<1>3. ASSUME irs_down # {}, Others, irs_irHeld' = irs_irHeld,
             irs_mode' \in {"ble", "ir"}, irs_keyType' \in {irs_keyType, "ble"}
      PROVE  BeamInv'
  <2>1. BeamType'
    BY <1>2, <1>3 DEF BeamInv, BeamType
  <2>2. BeamBusy' /\ BeamOwn'
    BY <1>3 DEF BeamInv, BeamBusy, BeamOwn, Repeating
  <2>3. ~ Rollover => BeamAlone'
    BY <1>1, <1>2, <1>3, BeamFresh DEF BeamAlone, Repeating
  <2> QED BY <2>1, <2>2, <2>3 DEF BeamInv
<1>4. ASSUME NEW k \in irs_down, Beam!OneKey(k) PROVE BeamInv'
  <2>1. irs_down # {} /\ k \in Beam!Keys
    BY <1>4 DEF BeamInv, BeamType
  <2>2. irs_mode \in {"ble", "ir"}
    BY DEF BeamInv, BeamType
  <2>3. CASE /\ irs_mode' = (IF irs_mode = "ble" THEN "ir" ELSE "ble") /\ Others
             /\ UNCHANGED <<irs_keyType, irs_irHeld>>
    BY <1>3, <2>1, <2>3
  <2>4. CASE Learned /\ Beam!SendLearned
    BY <1>1, <2>1, <2>4, BeamLearned
  <2>5. CASE Others /\ UNCHANGED <<irs_mode, irs_keyType, irs_irHeld>>
    BY <1>3, <2>1, <2>2, <2>5
  <2>6. CASE irs_keyType' = "ble" /\ Others /\ UNCHANGED <<irs_mode, irs_irHeld>>
    BY <1>3, <2>1, <2>2, <2>6
  <2>7. CASE k \in Codes /\ Beam!StartNec(k)
    BY <1>1, <2>1, <2>7, BeamStartNec
  <2> QED BY <1>4, <2>3, <2>4, <2>5, <2>6, <2>7 DEF Beam!OneKey, Beam!pwmVars
<1>5. CASE Beam!Cardinality(irs_down) = 2 /\ Others /\ UNCHANGED <<irs_mode, irs_keyType, irs_irHeld>>
  <2>1. irs_down # {}
    BY <1>5, BeamCounts
  <2> QED BY <1>3, <1>5, <2>1 DEF BeamInv, BeamType
<1>6. CASE irs_down = {} /\ Beam!NoKeyDown
  <2>1. CASE irs_keyType = "ir" /\ irs_irHeld
    <3>1. /\ irs_irHeld' = FALSE /\ irs_hw' = TRUE /\ Beam!ir_send_release
          /\ irs_dma' = (IF irs_hw THEN irs_dma ELSE "nec")
          /\ UNCHANGED <<irs_mode, irs_keyType, irs_pending, irs_buf>>
      BY <1>6, <2>1 DEF Beam!NoKeyDown
    <3>2. /\ irs_ctrl' \in CtrlType /\ irs_ctrl'.is_sending = "none" /\ irs_ctrl'.last = NoCode
          /\ irs_air'.sent \in Waves /\ irs_air'.asked \in Waves
          /\ irs_air' \in {irs_air, Beam!OffAir}
          /\ irs_ctrl.is_sending # "none" => irs_air' = Beam!OffAir
          /\ irs_done' = FALSE /\ irs_mask' = FALSE
      BY <3>1, BeamTypeIs, BeamReleases
    <3>3. irs_irHeld' \in BOOLEAN /\ irs_hw' \in BOOLEAN /\ irs_done' \in BOOLEAN /\ irs_mask' \in BOOLEAN
      BY <3>1, <3>2, Zenon
    <3>4. BeamType'
      BY <1>2, <3>1, <3>2, <3>3 DEF BeamInv, BeamType, CtrlType
    <3>5. BeamBusy' /\ BeamOwn'
      BY <3>1, <3>2, BeamOff DEF BeamInv, BeamBusy, BeamOwn, Repeating
    <3>6. ~ Rollover => ~ Nec(irs_air'.asked)
      BY <3>2, BeamOff DEF BeamInv, BeamAlone
    <3>7. ~ Rollover => BeamAlone'
      BY <1>2, <1>6, <3>1, <3>2, <3>6 DEF BeamAlone, Repeating
    <3> QED BY <3>4, <3>5, <3>7 DEF BeamInv
  <2>2. CASE ~ (irs_keyType = "ir" /\ irs_irHeld)
    <3>1. Others /\ UNCHANGED <<irs_mode, irs_keyType, irs_irHeld>>
      BY <1>6, <2>2 DEF Beam!NoKeyDown, Beam!pwmVars
    <3>2. BeamType'
      BY <1>2, <3>1 DEF BeamInv, BeamType
    <3>3. ~ Rollover => ~ irs_irHeld /\ ~ Nec(irs_air.asked)
      BY <2>2 DEF BeamInv, BeamAlone
    <3>4. ~ Rollover => BeamAlone'
      BY <1>2, <1>6, <3>1, <3>3 DEF BeamInv, BeamAlone, Repeating
    <3> QED BY <3>1, <3>2, <3>4 DEF BeamInv, BeamBusy, BeamOwn, Repeating
  <2> QED BY <2>1, <2>2
<1> QED BY <1>4, <1>5, <1>6 DEF Beam!key_change_proc, Beam!pwmVars

LEMMA BeamStep ==
  ASSUME Beam!IrSendAssumption, BeamInv, ~ Learned \/ ~ Rollover, [Beam!Next]_(Beam!vars)
  PROVE  BeamInv'
BY BeamAllSent, BeamInterrupt, BeamKeys, BeamChange, BeamNec, BeamSleeps DEF Beam!Next

LEMMA BeamHolds ==
  ASSUME Beam!IrSendAssumption, ~ Learned \/ ~ Rollover
  PROVE  Beam!Spec => []BeamInv
<1>1. Beam!Init => BeamInv
  BY BeamStart
<1>2. BeamInv /\ [Beam!Next]_(Beam!vars) => BeamInv'
  BY BeamStep
<1> QED BY <1>1, <1>2, PTL DEF Beam!Spec

LEMMA BeamShows ==
  ASSUME BeamInv
  PROVE  /\ Beam!TypeOK
         /\ ~ Rollover => Beam!SendsHeld
         /\ ~ Rollover => Beam!StopsWithKeys
         /\ Beam!NoSilentSending
<1>1. irs_buf.nec \in Waves /\ irs_buf.learned \in Waves
  BY BeamTypeIs DEF Buffers
<1>2. Beam!TypeOK
  BY <1>1 DEF BeamInv, BeamType, Beam!TypeOK, Waves
<1>3. ~ Rollover => Beam!SendsHeld
  BY DEF BeamInv, BeamOwn, BeamAlone, Beam!SendsHeld, Nec
<1>4. ~ Rollover => Beam!StopsWithKeys
  BY DEF BeamInv, BeamAlone, Beam!StopsWithKeys, Repeating
<1>5. Beam!NoSilentSending
  BY DEF BeamInv, BeamBusy, Beam!NoSilentSending
<1> QED BY <1>2, <1>3, <1>4, <1>5

\* With one key at a time nothing of an earlier key keeps a code key from being sent.
LEMMA BeamPress ==
  ASSUME Beam!IrSendAssumption, BeamInv, ~ Rollover, [Beam!Next]_(Beam!vars)
  PROVE  Beam!PressSends
<1>1. SUFFICES ASSUME irs_seen = {}, irs_mode = "ir", irs_ctrl.is_sending = "none",
                      NEW k \in Codes, irs_seen' = {k}
               PROVE  irs_pending' = k
  BY DEF Beam!PressSends
<1>2. irs_seen' # irs_seen
  BY <1>1
<1>3. Beam!key_change_proc
  BY <1>2 DEF Beam!Next, Beam!vars, Beam!keyVars, Beam!AllSent, Beam!rc_ir_irq_prc, Beam!Press, Beam!LiftKey,
              Beam!ir_nec_send, Beam!Sleep
<1>4. ChangeSeen /\ irs_down = {k}
  BY <1>1, <1>3 DEF Beam!key_change_proc, ChangeSeen
<1>5. Beam!OneKey(k)
  BY <1>3, <1>4, BeamCounts DEF Beam!key_change_proc
<1>6. k # Switch /\ k # Power /\ k # NoCode
  BY DEF Beam!IrSendAssumption
<1>7. Beam!StartNec(k)
  BY <1>1, <1>5, <1>6 DEF Beam!OneKey
<1>8. ~ irs_irHeld /\ irs_ctrl.last = NoCode
  BY <1>4, BeamFresh
<1> QED BY <1>1, <1>6, <1>7, <1>8 DEF Beam!StartNec, Beam!Check

\* Every variable of the infrared sending keeps its type: a repeat has a code, and the PWM sends from
\* a buffer it was given.
THEOREM BeamTypeCorrect ==
  ASSUME Beam!IrSendAssumption, ~ Learned \/ ~ Rollover
  PROVE  Beam!Spec => []Beam!TypeOK
BY BeamHolds, BeamShows, PTL

\* With one key at a time, and any keys, a NEC frame goes out only while its key is down, whatever
\* codes, learned ones included, repeats and sleep came before.
THEOREM BeamSendsHeld ==
  ASSUME Beam!IrSendAssumption, ~ Rollover
  PROVE  Beam!Spec => []Beam!SendsHeld
<1>1. BeamInv => Beam!SendsHeld
  BY BeamShows
<1> QED BY <1>1, BeamHolds, PTL

\* With one key at a time, and any keys, the repeats stop when it is up.
THEOREM BeamStopsWithKeys ==
  ASSUME Beam!IrSendAssumption, ~ Rollover
  PROVE  Beam!Spec => []Beam!StopsWithKeys
<1>1. BeamInv => Beam!StopsWithKeys
  BY BeamShows
<1> QED BY <1>1, BeamHolds, PTL

\* What keeps the remote awake is going out, or its end is about to be served.
THEOREM BeamNotSilent ==
  ASSUME Beam!IrSendAssumption, ~ Learned \/ ~ Rollover
  PROVE  Beam!Spec => []Beam!NoSilentSending
<1>1. BeamInv => Beam!NoSilentSending
  BY BeamShows
<1> QED BY <1>1, BeamHolds, PTL

\* With one key at a time each press of a code key of the infrared mode is sent while nothing else is.
THEOREM BeamPressSends ==
  ASSUME Beam!IrSendAssumption, ~ Rollover
  PROVE  Beam!Spec => [][Beam!PressSends]_(Beam!vars)
<1>1. BeamInv /\ [Beam!Next]_(Beam!vars) => [Beam!PressSends]_(Beam!vars)
  BY BeamPress
<1> QED BY <1>1, BeamHolds, PTL DEF Beam!Spec
=============================================================================
