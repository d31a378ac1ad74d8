------------------------------ MODULE UartProofs ------------------------------
(***************************************************************************)
(* Proofs about the two UARTs.  The software UART receives every byte as   *)
(* it was sent, once and in order, for every number of data bits, buffers  *)
(* and bytes, and however late its interrupts are below half a bit.  The   *)
(* UART of the BLE module keeps commands and events in order and sleeps    *)
(* over none of them, for rings of any size, any width of their pointers   *)
(* and any number of commands and events.                                  *)
(***************************************************************************)
EXTENDS SoftUart, WellFoundedInduction, TLAPS

\* An interrupt and the sample it leads to are late by less than a bit together,
\* and the main loop takes a packet before the ring is full.
InTime == 2 * Latency < Q /\ Prompt

-----------------------------------------------------------------------------
(***************************************************************************)
(* The invariant of the line.                                              *)
(***************************************************************************)
\* The level at place j of a byte: the start bit, the data bits, the stop bit.
BitAt(b, j) == IF j = 0 THEN 0 ELSE IF j = Bits + 1 THEN 1 ELSE b[j]

\* The byte on the line, the place of the level there now, and for how long it was.
LastSent == sent[Len(sent)]
Place == Bits + 2 - Len(wire)
Gone == Q - left

WireInv ==
  /\ sent \in Seq(Byte) /\ Len(sent) <= MaxBytes
  /\ wire \in Seq({0, 1}) /\ left \in 0 .. Q
  /\ wire = <<>> => left = 0
  /\ wire # <<>> =>
       /\ left # 0 /\ Place >= 0 /\ sent # <<>>
       /\ \A i \in 1 .. Len(wire) : wire[i] = BitAt(LastSent, Place + i - 1)

RxType ==
  /\ rx \in [state : {{"WAIT"}, {"WAIT", "DONE_CHECK"}, {"WORK"}, {"STOP_CHECK"}, {"DIS"}},
             bit_num : 0 .. Bits - 1, temp_byte : Byte,
             done_count : 0 .. UART_RECE_DONE_NUM, data_count : Nat]
  /\ gpio \in [en : BOOLEAN, age : NoIrq .. Latency]
  /\ timer \in [left : {Off} \cup 1 .. Q, age : NoIrq .. Latency]

\* The next sample is that of place k + 1; timer 0 runs late by what its start was.
Sampling(k) ==
  \/ timer.age = NoIrq /\ Place = k /\ Gone + timer.left - Q \in 0 .. Latency
  \/ timer.age = NoIrq /\ Place = k + 1 /\ Gone + timer.left \in 0 .. Latency
  \/ /\ timer.age # NoIrq /\ Place = k + 1 /\ Gone - timer.age \in 0 .. Latency
     /\ timer.left = Q - timer.age

\* No byte is being received: the line is idle, or has its stop bit, or the interrupt
\* of a start bit is to come.
Waiting ==
  /\ rx.state \in {{"WAIT"}, {"WAIT", "DONE_CHECK"}} /\ gpio.en /\ rx.bit_num = 0
  /\ "DONE_CHECK" \in rx.state => rx.done_count < UART_RECE_DONE_NUM
  /\ gpio.age = NoIrq => Len(wire) <= 1
  /\ gpio.age # NoIrq => wire # <<>> /\ Place = 0 /\ Gone = gpio.age

\* The bits sampled are those of the byte on the line.
Working ==
  /\ rx.state = {"WORK"} /\ ~ gpio.en /\ gpio.age = NoIrq
  /\ wire # <<>> /\ timer.left # Off /\ rx.done_count = 0 /\ Sampling(rx.bit_num)
  /\ \A i \in 1 .. rx.bit_num : rx.temp_byte[i] = LastSent[i]

Stopping ==
  /\ rx.state = {"STOP_CHECK"} /\ ~ gpio.en /\ gpio.age = NoIrq /\ rx.bit_num = 0
  /\ wire # <<>> /\ timer.left # Off /\ rx.done_count = 0 /\ Sampling(Bits)
  /\ rx.temp_byte = LastSent

Switched ==
  /\ rx.state = {"DIS"} /\ wire = <<>> /\ rx.bit_num = 0
  /\ gpio = [en |-> FALSE, age |-> NoIrq] /\ timer = [left |-> Off, age |-> NoIrq]

LineInv == WireInv /\ RxType /\ (Waiting \/ Working \/ Stopping \/ Switched)

-----------------------------------------------------------------------------
(***************************************************************************)
(* The invariant of the buffers.                                           *)
(***************************************************************************)
\* A byte is on the line whose stop bit has not been sampled.
Receiving == gpio.age # NoIrq \/ rx.state \in {{"WORK"}, {"STOP_CHECK"}}
Complete == IF Receiving THEN SubSeq(sent, 1, Len(sent) - 1) ELSE sent

Slots == [0 .. Num - 1 -> [len : Nat, data : Seq(Byte)]]

\* The packets in the ring "sl" between rd and wr, and the n bytes of the one being filled.
PacketAt(sl, i) == SubSeq(sl[Index(i)].data, 1, sl[Index(i)].len)
PacketsAt(sl, wr, rd) == [i \in 1 .. wr - rd |-> PacketAt(sl, rd + i - 1)]
FilledAt(sl, wr, n) == SubSeq(sl[Index(wr)].data, 1, n)
HeldAt(sl, wr, rd, n) == FlattenSeq(PacketsAt(sl, wr, rd)) \o FilledAt(sl, wr, n)

Ring(sl, wr, rd, n) ==
  /\ sl \in Slots /\ wr \in Nat /\ rd \in Nat /\ n \in Nat
  /\ rd <= wr /\ wr - rd <= Num /\ (wr - rd = Num => n = 0)
  /\ n <= Len(sl[Index(wr)].data)
  /\ \A i \in 0 .. Num - 1 : Len(sl[i].data) <= DataSize
  /\ \A i \in rd .. wr - 1 : sl[Index(i)].len <= Len(sl[Index(i)].data)

DataInv ==
  /\ Ring(slots, w, r, rx.data_count) /\ rx.data_count < DataSize
  /\ w - r = Num => timer.age = NoIrq
  /\ taken \in Seq(Byte) /\ taken \o HeldAt(slots, w, r, rx.data_count) = Complete

IInv == LineInv /\ DataInv

-----------------------------------------------------------------------------
(***************************************************************************)
(* Remainders.                                                             *)
(***************************************************************************)
LEMMA Division ==
  ASSUME NEW n \in Nat \ {0}, NEW x \in Int
  PROVE  \E q \in Int : \E e \in 0 .. n - 1 : x = n * q + e
<1>1. x % n \in 0 .. n - 1
  BY SMT
<1>2. x \div n \in Int
  BY SMT
<1>3. x = n * (x \div n) + (x % n)
  BY Z3
<1> QED BY ONLY <1>1, <1>2, <1>3

LEMMA OneDivision ==
  ASSUME NEW n \in Nat \ {0}, NEW q \in Int, NEW e \in 0 .. n - 1
  PROVE  /\ (n * q + e) % n = e
         /\ (n * q + e) \div n = q
  BY SMT

LEMMA ModShift ==
  ASSUME NEW n \in Nat \ {0}, NEW q \in Int, NEW y \in Int
  PROVE (y + n * q) % n = y % n
<1>1. PICK p \in Int, e \in 0 .. n - 1 : y = n * p + e
  BY Division
<1>2. y % n = e
  BY <1>1, OneDivision
<1>3. y + n * q = n * (p + q) + e
  BY <1>1, SMT
<1>4. p + q \in Int OBVIOUS
<1>5. (n * (p + q) + e) % n = e
  BY <1>4, OneDivision
<1> QED BY <1>2, <1>3, <1>5

LEMMA ModIs ==
  ASSUME NEW n \in Nat \ {0}, NEW x \in Int
  PROVE  /\ x % n \in 0 .. n - 1
         /\ \E q \in Int : x = (x % n) + n * q
<1>1. PICK p \in Int, e \in 0 .. n - 1 : x = n * p + e
  BY Division
<1>2. x % n = e
  BY <1>1, OneDivision
<1>3. x = e + n * p
  BY <1>1
<1> QED BY <1>2, <1>3

LEMMA ModSmall ==
  ASSUME NEW n \in Nat \ {0}, NEW d \in 0 .. n - 1
  PROVE  d % n = d
<1>1. (n * 0 + d) % n = d
  BY OneDivision
<1>2. n * 0 + d = d
  OBVIOUS
<1> QED BY <1>1, <1>2

LEMMA ModMinus ==
  ASSUME NEW n \in Nat \ {0}, NEW x \in Int, NEW y \in Int
  PROVE  ((x % n) - (y % n)) % n = (x - y) % n
<1> DEFINE a == x % n
           b == y % n
<1>0. a \in Int /\ b \in Int
  BY ModIs
<1>1. PICK p \in Int : x = a + n * p
  BY ModIs
<1>2. PICK q \in Int : y = b + n * q
  BY ModIs
<1> HIDE DEF a, b
<1>3. x - y = (a - b) + n * (p - q)
  BY <1>0, <1>1, <1>2
<1>4. a - b \in Int /\ p - q \in Int
  BY <1>0
<1>5. ((a - b) + n * (p - q)) % n = (a - b) % n
  BY <1>4, ModShift
<1> QED BY <1>3, <1>5 DEF a, b

LEMMA ModApart ==
  ASSUME NEW n \in Nat \ {0}, NEW x \in Int, NEW y \in Int, x < y, y - x < n
  PROVE  x % n # y % n
<1> SUFFICES ASSUME x % n = y % n PROVE FALSE
  OBVIOUS
<1>1. (y - x) % n = ((y % n) - (x % n)) % n
  BY ModMinus
<1>2. y - x \in 0 .. n - 1 /\ y - x # 0
  OBVIOUS
<1>3. (y - x) % n = y - x
  BY <1>2, ModSmall
<1>4. (y % n) - (x % n) = 0
  <2>1. x % n \in Int BY ModIs
  <2> QED BY <2>1
<1>5. 0 % n = 0
  BY ModSmall
<1> QED BY <1>1, <1>2, <1>3, <1>4, <1>5

-----------------------------------------------------------------------------
(***************************************************************************)
(* Induction on numbers, over sets.                                        *)
(***************************************************************************)
\* A set of numbers has a least one.
LEMMA LeastNumber ==
  ASSUME NEW T, T \subseteq Nat, T # {}
  PROVE  \E x \in T : \A y \in T : x <= y
<1> DEFINE R == {ss \in Nat \X Nat : ss[1] < ss[2]}
<1>1. OpToRel(<, Nat) = R
  BY DEF OpToRel
<1>2. IsWellFoundedOn(R, Nat)
  <2> HIDE DEF R
  <2> QED
    BY <1>1, NatLessThanWellFounded
<1>3. PICK x \in T : \A y \in T : ~ (<<y, x>> \in R)
  <2> HIDE DEF R
  <2> QED
    BY <1>2, WFMin
<1>4. ASSUME NEW y \in T PROVE x <= y
  <2>1. x \in Nat /\ y \in Nat /\ ~(<<y, x>> \in R)
    BY <1>3
  <2>2. <<y, x>> \in Nat \X Nat /\ <<y, x>>[1] = y /\ <<y, x>>[2] = x
    BY <2>1
  <2>3. ~(y < x)
    BY <2>1, <2>2
  <2> QED
    BY <2>1, <2>3
<1> QED
  BY <1>3, <1>4

\* A set of numbers that holds 0 and the number after each of its own holds all.
LEMMA Induction ==
  ASSUME NEW P, 0 \in P, \A n \in Nat : n \in P => n + 1 \in P
  PROVE  Nat \subseteq P
<1> DEFINE T == Nat \ P
<1>1. ASSUME T # {} PROVE FALSE
  <2>1. PICK x \in T : \A y \in T : x <= y
    BY <1>1, LeastNumber
  <2>2. x \in Nat /\ x # 0 /\ x \notin P
    BY <2>1
  <2>3. x - 1 \in Nat /\ x - 1 \notin T
    BY <2>1, <2>2
  <2>4. (x - 1) + 1 = x
    BY <2>2
  <2> QED
    BY <2>2, <2>3, <2>4
<1> QED
  BY <1>1

\* What n steps of F make of x.
Steps(h, x, n, F) == h[0] = x /\ \A k \in 1 .. n : h[k] = F[k][h[k - 1]]

\* They can be taken, whatever the steps are.
LEMMA Recursion ==
  ASSUME NEW S, NEW x \in S, NEW n \in Nat, NEW F \in [1 .. n -> [S -> S]]
  PROVE  \E h \in [0 .. n -> S] : Steps(h, x, n, F)
<1> DEFINE Upto(m, h) == h[0] = x /\ \A k \in 1 .. m : h[k] = F[k][h[k - 1]]
           P == {m \in Nat : m <= n => \E h \in [0 .. m -> S] : Upto(m, h)}
<1>1. 0 \in P
  <2> DEFINE h == [k \in 0 .. 0 |-> x]
  <2>1. h \in [0 .. 0 -> S] /\ Upto(0, h)
    OBVIOUS
  <2> QED
    BY <2>1
<1>2. ASSUME NEW m \in Nat, m \in P PROVE m + 1 \in P
  <2> SUFFICES ASSUME m + 1 <= n PROVE \E h \in [0 .. m + 1 -> S] : Upto(m + 1, h)
    OBVIOUS
  <2>1. PICK g \in [0 .. m -> S] : Upto(m, g)
    BY <1>2
  <2> DEFINE h == [k \in 0 .. m + 1 |-> IF k = m + 1 THEN F[m + 1][g[m]] ELSE g[k]]
  <2>2. m + 1 \in 1 .. n /\ m \in 0 .. m /\ g[m] \in S /\ F[m + 1] \in [S -> S]
    BY <1>2
  <2>3. F[m + 1][g[m]] \in S
    BY <2>2
  <2>4. h \in [0 .. m + 1 -> S]
    BY <2>3
  <2>5. \A k \in 0 .. m : h[k] = g[k]
    OBVIOUS
  <2>6. h[m + 1] = F[m + 1][h[m]]
    BY <2>2, <2>5
  <2>7. ASSUME NEW k \in 1 .. m + 1 PROVE h[k] = F[k][h[k - 1]]
    <3>1. CASE k = m + 1
      BY <2>6, <3>1
    <3>2. CASE k # m + 1
      <4>1. k \in 1 .. m /\ k \in 0 .. m /\ k - 1 \in 0 .. m
        BY <3>2
      <4> HIDE DEF h
      <4> QED
        BY <2>1, <2>5, <4>1
    <3> QED
      BY <3>1, <3>2
  <2>8. h[0] = x
    BY <2>1, <2>5
  <2> HIDE DEF h
  <2> QED
    BY <2>4, <2>7, <2>8
<1>3. Nat \subseteq P
  <2> HIDE DEF P
  <2> QED
    BY <1>1, <1>2, Induction
<1>4. n \in P
  BY <1>3
<1> QED
  BY <1>4 DEF Steps

-----------------------------------------------------------------------------
(***************************************************************************)
(* Joining packets.                                                        *)
(***************************************************************************)
\* FlattenSeq joins from the left.
Joins(h, seqs) == h[0] = <<>> /\ \A k \in 1 .. Len(seqs) : h[k] = h[k - 1] \o seqs[k]

LEMMA FlattenIs ==
  ASSUME NEW S, NEW seqs \in Seq(Seq(S)), NEW h \in [0 .. Len(seqs) -> Seq(S)], Joins(h, seqs)
  PROVE  FlattenSeq(seqs) = h[Len(seqs)]
<1> DEFINE n == Len(seqs)
           Flat(f) == f = [i \in 1 .. n |-> IF i = 1 THEN seqs[i] ELSE f[i - 1] \o seqs[i]]
           flatten == CHOOSE f : Flat(f)
<1>1. n \in Nat
  OBVIOUS
<1>2. CASE n = 0
  <2>1. seqs = <<>>
    BY <1>2
  <2> QED
    BY <1>2, <2>1 DEF FlattenSeq, Joins
<1>3. CASE n # 0
  <2>1. FlattenSeq(seqs) = flatten[n]
    BY <1>3 DEF FlattenSeq
  <2>2. Flat(flatten)
    <3> DEFINE g == [i \in 1 .. n |-> h[i]]
    <3>1. ASSUME NEW i \in 1 .. n PROVE g[i] = IF i = 1 THEN seqs[i] ELSE g[i - 1] \o seqs[i]
      <4>1. h[i] = h[i - 1] \o seqs[i]
        BY DEF Joins
      <4>2. CASE i = 1
        <5>1. seqs[1] \in Seq(S) /\ h[0] = <<>>
          BY <1>1, <4>2 DEF Joins
        <5>2. <<>> \o seqs[1] = seqs[1]
          BY <5>1
        <5>0. i - 1 = 0
          BY <4>2
        <5>3. h[1] = seqs[1]
          BY <4>1, <4>2, <5>0, <5>1, <5>2
        <5> QED
          BY <4>2, <5>3
      <4>3. CASE i # 1
        <5>1. i - 1 \in 1 .. n
          BY <1>1, <4>3
        <5> QED
          BY <4>1, <4>3, <5>1
      <4> QED
        BY <4>2, <4>3
    <3>2. Flat(g)
      <4> DEFINE G(i) == IF i = 1 THEN seqs[i] ELSE g[i - 1] \o seqs[i]
      <4>1. \A i \in 1 .. n : g[i] = G(i)
        BY <3>1
      <4>2. g = [i \in 1 .. n |-> g[i]]
        OBVIOUS
      <4> HIDE DEF g
      <4>3. g = [i \in 1 .. n |-> G(i)]
        BY <4>1, <4>2, Zenon
      <4> QED
        BY <4>3
    <3> HIDE DEF g, Flat
    <3> QED
      BY <3>2
  <2>3. \A i \in 1 .. n : flatten[i] = IF i = 1 THEN seqs[i] ELSE flatten[i - 1] \o seqs[i]
    <3> HIDE DEF flatten
    <3> QED
      BY <2>2
  <2> DEFINE P == {m \in Nat : m \in 1 .. n => flatten[m] = h[m]}
  <2> HIDE DEF flatten
  <2>4. 0 \in P
    OBVIOUS
  <2>5. ASSUME NEW m \in Nat, m \in P PROVE m + 1 \in P
    <3> SUFFICES ASSUME m + 1 \in 1 .. n PROVE flatten[m + 1] = h[m + 1]
      OBVIOUS
    <3>1. h[m + 1] = h[m] \o seqs[m + 1]
      <4>1. m + 1 \in 1 .. Len(seqs) /\ (m + 1) - 1 = m
        OBVIOUS
      <4> QED
        BY <4>1 DEF Joins
    <3>2. CASE m = 0
      <4>1. seqs[1] \in Seq(S) /\ h[0] = <<>>
        BY <1>1, <3>2 DEF Joins
      <4>2. <<>> \o seqs[1] = seqs[1]
        BY <4>1
      <4>3. flatten[1] = seqs[1]
        BY <2>3, <3>2
      <4> QED
        BY <3>1, <3>2, <4>1, <4>2, <4>3
    <3>3. CASE m # 0
      <4>1. m \in 1 .. n /\ m + 1 # 1 /\ (m + 1) - 1 = m
        BY <1>1, <3>3
      <4>2. flatten[m + 1] = flatten[m] \o seqs[m + 1]
        BY <2>3, <4>1
      <4>3. flatten[m] = h[m]
        BY <2>5, <4>1
      <4> QED
        BY <3>1, <4>2, <4>3
    <3> QED
      BY <3>2, <3>3
  <2>6. Nat \subseteq P
    <3> HIDE DEF P
    <3> QED
      BY <2>4, <2>5, Induction
  <2> QED
    BY <1>1, <1>3, <2>1, <2>6
<1> QED
  BY <1>2, <1>3

LEMMA JoinsExist ==
  ASSUME NEW S, NEW seqs \in Seq(Seq(S))
  PROVE  \E h \in [0 .. Len(seqs) -> Seq(S)] : Joins(h, seqs)
<1> DEFINE n == Len(seqs)
           V == Seq(S)
           F == [k \in 1 .. n |-> [v \in V |-> v \o seqs[k]]]
<1>1. n \in Nat /\ <<>> \in V
  OBVIOUS
<1>2. F \in [1 .. n -> [V -> V]]
  <2>1. ASSUME NEW k \in 1 .. n, NEW v \in V PROVE v \o seqs[k] \in V
    OBVIOUS
  <2> HIDE DEF V
  <2> QED
    BY <2>1
<1>3. PICK h \in [0 .. n -> V] : Steps(h, <<>>, n, F)
  <2> HIDE DEF F, V, n
  <2> QED
    BY <1>1, <1>2, Recursion
<1>4. ASSUME NEW k \in 1 .. n PROVE h[k] = h[k - 1] \o seqs[k]
  <2>1. k - 1 \in 0 .. n
    BY <1>1
  <2>2. h[k] = F[k][h[k - 1]] /\ h[k - 1] \in V
    BY <1>3, <2>1 DEF Steps
  <2> HIDE DEF V
  <2> QED
    BY <2>2
<1>5. h[0] = <<>>
  BY <1>3 DEF Steps
<1> QED
  BY <1>4, <1>5 DEF Joins

\* One sequence more at the end is joined at the end.
LEMMA FlattenLast ==
  ASSUME NEW S, NEW t \in Seq(Seq(S)), NEW x \in Seq(S), NEW u \in Seq(Seq(S)),
         Len(u) = Len(t) + 1, u[Len(t) + 1] = x, \A i \in 1 .. Len(t) : u[i] = t[i]
  PROVE  FlattenSeq(t) \in Seq(S) /\ FlattenSeq(u) = FlattenSeq(t) \o x
<1> DEFINE n == Len(t)
           V == Seq(S)
<1>0. n \in Nat /\ Len(u) = n + 1
  OBVIOUS
<1>1. PICK h \in [0 .. n -> V] : Joins(h, t)
  BY JoinsExist
<1>2. FlattenSeq(t) = h[n]
  BY <1>1, FlattenIs
<1> DEFINE g == [k \in 0 .. n + 1 |-> IF k = n + 1 THEN h[n] \o x ELSE h[k]]
<1>3. h[n] \in V /\ h[n] \o x \in V
  <2>1. h[n] \in V
    <3> HIDE DEF n, V
    <3> QED
      BY <1>0, <1>1
  <2> QED
    BY <2>1
<1>4. g \in [0 .. n + 1 -> V]
  <2> HIDE DEF V
  <2>1. ASSUME NEW k \in 0 .. n + 1, k # n + 1 PROVE h[k] \in V
    <3>1. k \in 0 .. n
      BY <1>0, <2>1
    <3> QED
      BY <1>1, <3>1
  <2> QED
    BY <1>3, <2>1
<1>5. Joins(g, u)
  <2>1. g[0] = <<>>
    BY <1>0, <1>1 DEF Joins
  <2>2. ASSUME NEW k \in 1 .. n + 1 PROVE g[k] = g[k - 1] \o u[k]
    <3>1. CASE k = n + 1
      <4>1. g[k] = h[n] \o x /\ k - 1 = n /\ g[n] = h[n]
        BY <1>0, <3>1
      <4> HIDE DEF g
      <4> QED
        BY <3>1, <4>1
    <3>2. CASE k # n + 1
      <4>1. k \in 1 .. n /\ k \in 0 .. n /\ k - 1 \in 0 .. n
        BY <1>0, <3>2
      <4>2. g[k] = h[k] /\ g[k - 1] = h[k - 1]
        BY <1>0, <4>1
      <4>3. h[k] = h[k - 1] \o t[k]
        BY <1>1, <4>1 DEF Joins
      <4>4. u[k] = t[k]
        BY <4>1
      <4> HIDE DEF g
      <4> QED
        BY <4>2, <4>3, <4>4
    <3> QED
      BY <3>1, <3>2
  <2> HIDE DEF g
  <2> QED
    BY <1>0, <2>1, <2>2 DEF Joins
<1>6. FlattenSeq(u) = g[n + 1]
  <2> HIDE DEF g
  <2> QED
    BY <1>0, <1>4, <1>5, FlattenIs
<1>7. g[n + 1] = h[n] \o x
  BY <1>0
<1> HIDE DEF g
<1> QED
  BY <1>2, <1>3, <1>6, <1>7

LEMMA JoinAssoc ==
  ASSUME NEW S, NEW a \in Seq(S), NEW b \in Seq(S), NEW c \in Seq(S)
  PROVE  /\ a \o (b \o c) = (a \o b) \o c
         /\ a \o <<>> = a /\ <<>> \o a = a
         /\ a \o b \in Seq(S)
OBVIOUS

\* One sequence more at the front is joined at the front.
LEMMA FlattenFirst ==
  ASSUME NEW S, NEW t \in Seq(Seq(S)), NEW x \in Seq(S), NEW u \in Seq(Seq(S)),
         Len(u) = Len(t) + 1, u[1] = x, \A i \in 1 .. Len(t) : u[i + 1] = t[i]
  PROVE  FlattenSeq(t) \in Seq(S) /\ FlattenSeq(u) = x \o FlattenSeq(t)
<1> DEFINE n == Len(t)
           V == Seq(S)
<1>0. n \in Nat /\ Len(u) = n + 1 /\ <<>> \in V
  OBVIOUS
<1>1. PICK h \in [0 .. n -> V] : Joins(h, t)
  BY JoinsExist
<1>2. FlattenSeq(t) = h[n]
  BY <1>1, FlattenIs
<1> DEFINE g == [k \in 0 .. n + 1 |-> IF k = 0 THEN <<>> ELSE x \o h[k - 1]]
<1>3. ASSUME NEW k \in 0 .. n PROVE h[k] \in V /\ x \o h[k] \in V
  <2>1. h[k] \in V
    <3> HIDE DEF V
    <3> QED
      BY <1>1
  <2> QED
    BY <2>1
<1>4. g \in [0 .. n + 1 -> V]
  <2> HIDE DEF V
  <2>1. ASSUME NEW k \in 0 .. n + 1, k # 0 PROVE x \o h[k - 1] \in V
    <3>1. k - 1 \in 0 .. n
      BY <1>0, <2>1
    <3> QED
      BY <1>3, <3>1
  <2> QED
    BY <1>0, <2>1
<1>5. Joins(g, u)
  <2>1. g[0] = <<>>
    BY <1>0
  <2>2. ASSUME NEW k \in 1 .. n + 1 PROVE g[k] = g[k - 1] \o u[k]
    <3>0. k \in 0 .. n + 1 /\ k - 1 \in 0 .. n /\ k # 0
      BY <1>0
    <3>1. g[k] = x \o h[k - 1]
      BY <3>0
    <3>2. CASE k = 1
      <4>1. h[k - 1] = <<>> /\ g[k - 1] = <<>> /\ u[k] = x
        BY <1>0, <1>1, <2>1, <3>2 DEF Joins
      <4> HIDE DEF g
      <4> QED
        BY <3>1, <4>1, JoinAssoc, SMTT(30)
    <3>3. CASE k # 1
      <4> DEFINE j == k - 1
      <4>1. j \in 1 .. n /\ j \in 0 .. n /\ j - 1 \in 0 .. n /\ j \in 0 .. n + 1 /\ j # 0
        BY <1>0, <3>3
      <4>2. h[j] = h[j - 1] \o t[j]
        BY <1>1, <4>1 DEF Joins
      <4>3. u[k] = t[j] /\ t[j] \in V
        <5>1. k = j + 1
          BY <3>0
        <5> HIDE DEF j
        <5> QED
          BY <4>1, <5>1
      <4>4. g[j] = x \o h[j - 1]
        BY <4>1
      <4>5. h[j - 1] \in V /\ x \in V
        BY <1>3, <4>1
      <4>6. x \o (h[j - 1] \o t[j]) = (x \o h[j - 1]) \o t[j]
        <5> DEFINE a == h[j - 1]
                   b == t[j]
        <5>1. a \in Seq(S) /\ b \in Seq(S) /\ x \in Seq(S)
          BY <4>3, <4>5
        <5> HIDE DEF g, j, a, b
        <5>2. x \o (a \o b) = (x \o a) \o b
          BY ONLY <5>1, JoinAssoc, SMTT(30)
        <5> QED
          BY <5>2 DEF a, b
      <4> HIDE DEF g
      <4> QED
        BY <3>1, <4>2, <4>3, <4>4, <4>6
    <3> QED
      BY <3>2, <3>3
  <2> HIDE DEF g
  <2> QED
    BY <1>0, <2>1, <2>2 DEF Joins
<1>6. FlattenSeq(u) = g[n + 1]
  <2> HIDE DEF g
  <2> QED
    BY <1>0, <1>4, <1>5, FlattenIs
<1>7. g[n + 1] = x \o h[n]
  BY <1>0
<1>8. h[n] \in V
  BY <1>0, <1>3
<1> HIDE DEF g
<1> QED
  BY <1>2, <1>6, <1>7, <1>8

-----------------------------------------------------------------------------
(***************************************************************************)
(* The ring of buffers.                                                    *)
(***************************************************************************)
LEMMA Constants ==
  ASSUME SoftUartAssumption
  PROVE  /\ Bits \in Nat /\ Bits >= 1 /\ Q \in Nat /\ Q >= 1 /\ Latency \in Nat
         /\ DataSize \in Nat /\ DataSize >= 1 /\ Num \in Nat /\ Num >= 1 /\ Num \in Nat \ {0}
         /\ MaxBytes \in Nat
BY DEF SoftUartAssumption

\* Buffers less than the ring apart are different.
LEMMA IndexFacts ==
  ASSUME SoftUartAssumption, NEW i \in Nat
  PROVE  /\ Index(i) \in 0 .. Num - 1
         /\ \A j \in Nat : i < j /\ j - i < Num => Index(i) # Index(j)
<1>1. Index(i) \in 0 .. Num - 1
  <2>1. Num \in Nat \ {0} /\ i \in Int
    BY Constants
  <2>2. i % Num \in 0 .. Num - 1
    BY <2>1, ModIs
  <2> QED
    BY <2>2 DEF Index
<1>2. ASSUME NEW j \in Nat, i < j, j - i < Num PROVE Index(i) # Index(j)
  <2>1. Num \in Nat \ {0} /\ i \in Int /\ j \in Int
    BY Constants
  <2>2. i % Num # j % Num
    BY <1>2, <2>1, ModApart
  <2> QED
    BY <2>2 DEF Index
<1> QED
  BY <1>1, <1>2

LEMMA SubSeqFacts ==
  ASSUME NEW S, NEW s \in Seq(S), NEW n \in 0 .. Len(s)
  PROVE  /\ SubSeq(s, 1, n) \in Seq(S) /\ Len(SubSeq(s, 1, n)) = n
         /\ \A i \in 1 .. n : SubSeq(s, 1, n)[i] = s[i]
OBVIOUS

LEMMA SlotFacts ==
  ASSUME SoftUartAssumption, NEW sl \in Slots, NEW i \in Nat
  PROVE  sl[Index(i)].len \in Nat /\ sl[Index(i)].data \in Seq(Byte)
BY IndexFacts DEF Slots

LEMMA PacketType ==
  ASSUME SoftUartAssumption, NEW sl, NEW wr, NEW rd, NEW n, Ring(sl, wr, rd, n),
         NEW i \in rd .. wr - 1
  PROVE  PacketAt(sl, i) \in Seq(Byte)
<1>1. i \in Nat /\ sl \in Slots /\ sl[Index(i)].len <= Len(sl[Index(i)].data)
  BY DEF Ring
<1>2. sl[Index(i)].len \in Nat /\ sl[Index(i)].data \in Seq(Byte)
  BY <1>1, SlotFacts
<1> DEFINE s == sl[Index(i)].data
           m == sl[Index(i)].len
<1>3. m \in 0 .. Len(s) /\ s \in Seq(Byte)
  BY <1>1, <1>2
<1>4. SubSeq(s, 1, m) \in Seq(Byte)
  <2> HIDE DEF s, m
  <2> QED
    BY <1>3, SubSeqFacts
<1> QED
  BY <1>4 DEF PacketAt

LEMMA HeldType ==
  ASSUME SoftUartAssumption, NEW sl, NEW wr, NEW rd, NEW n, Ring(sl, wr, rd, n)
  PROVE  /\ PacketsAt(sl, wr, rd) \in Seq(Seq(Byte)) /\ Len(PacketsAt(sl, wr, rd)) = wr - rd
         /\ \A i \in 1 .. wr - rd : PacketsAt(sl, wr, rd)[i] = PacketAt(sl, rd + i - 1)
         /\ FilledAt(sl, wr, n) \in Seq(Byte) /\ Len(FilledAt(sl, wr, n)) = n
         /\ \A i \in 1 .. n : FilledAt(sl, wr, n)[i] = sl[Index(wr)].data[i]
         /\ FlattenSeq(PacketsAt(sl, wr, rd)) \in Seq(Byte)
         /\ HeldAt(sl, wr, rd, n) \in Seq(Byte)
<1>1. wr \in Nat /\ rd \in Nat /\ rd <= wr /\ sl \in Slots /\ n \in Nat
          /\ n <= Len(sl[Index(wr)].data)
  BY DEF Ring
<1> DEFINE P == PacketsAt(sl, wr, rd)
           m == wr - rd
           d == sl[Index(wr)].data
           V == Seq(Byte)
<1>2. m \in Nat
  BY <1>1
<1>3. ASSUME NEW i \in 1 .. m PROVE PacketAt(sl, rd + i - 1) \in V
  <2>1. rd + i - 1 \in rd .. wr - 1
    BY <1>1
  <2> QED
    BY <2>1, PacketType
<1>4. P \in Seq(V) /\ Len(P) = m /\ \A i \in 1 .. m : P[i] = PacketAt(sl, rd + i - 1)
  <2>1. P = [i \in 1 .. m |-> PacketAt(sl, rd + i - 1)]
    BY DEF PacketsAt
  <2> HIDE DEF P, V, m
  <2>2. P \in [1 .. m -> V] /\ \A i \in 1 .. m : P[i] = PacketAt(sl, rd + i - 1)
    BY <1>3, <2>1
  <2> QED
    BY <1>2, <2>2
<1>5. FilledAt(sl, wr, n) = SubSeq(d, 1, n) /\ n \in 0 .. Len(d) /\ d \in V
  BY <1>1, SlotFacts DEF FilledAt
<1>6. /\ SubSeq(d, 1, n) \in V /\ Len(SubSeq(d, 1, n)) = n
      /\ \A i \in 1 .. n : SubSeq(d, 1, n)[i] = d[i]
  <2> HIDE DEF d
  <2> QED
    BY <1>5, SubSeqFacts
<1>7. FlattenSeq(P) \in V
  <2> DEFINE u == Append(P, <<>>)
  <2>1. u \in Seq(V) /\ Len(u) = Len(P) + 1 /\ u[Len(P) + 1] = <<>> /\ <<>> \in V
        /\ \A i \in 1 .. Len(P) : u[i] = P[i]
    <3>1. <<>> \in V
      OBVIOUS
    <3> HIDE DEF P, V
    <3> QED
      BY <1>4, <3>1
  <2> HIDE DEF P, u
  <2> QED
    BY <1>4, <2>1, FlattenLast
<1>8. HeldAt(sl, wr, rd, n) \in V
  <2> DEFINE a == FlattenSeq(P)
             b == FilledAt(sl, wr, n)
  <2>1. a \in V /\ b \in V
    BY <1>5, <1>6, <1>7
  <2>2. HeldAt(sl, wr, rd, n) = a \o b
    BY DEF HeldAt
  <2> HIDE DEF a, b
  <2> QED
    BY <2>1, <2>2, JoinAssoc, SMTT(30)
<1> HIDE DEF P, V, m, d
<1>9. P = PacketsAt(sl, wr, rd) /\ m = wr - rd /\ V = Seq(Byte) /\ d = sl[Index(wr)].data
  BY DEF P, m, V, d
<1> QED
  BY <1>4, <1>5, <1>6, <1>7, <1>8, <1>9

\* What lies in the ring depends on the buffers it uses.
LEMMA SamePackets ==
  ASSUME SoftUartAssumption, NEW sl, NEW tl, NEW wr \in Nat, NEW rd \in Nat, wr - rd < Num,
         \A i \in 0 .. Num - 1 : i # Index(wr) => tl[i] = sl[i]
  PROVE  PacketsAt(tl, wr, rd) = PacketsAt(sl, wr, rd)
<1>1. ASSUME NEW i \in 1 .. wr - rd PROVE PacketAt(tl, rd + i - 1) = PacketAt(sl, rd + i - 1)
  <2> DEFINE j == rd + i - 1
  <2>1. j \in Nat /\ j < wr /\ wr - j < Num
    BY Constants
  <2> HIDE DEF j
  <2>2. Index(j) \in 0 .. Num - 1 /\ Index(j) # Index(wr)
    BY <2>1, IndexFacts
  <2>3. tl[Index(j)] = sl[Index(j)]
    BY <2>2
  <2> QED
    BY <2>3 DEF PacketAt, j
<1> QED
  BY <1>1 DEF PacketsAt

\* A byte kept is one more at the end of what is held.
LEMMA KeepHeld ==
  ASSUME SoftUartAssumption, NEW sl, NEW wr, NEW rd, NEW n, Ring(sl, wr, rd, n), wr - rd < Num,
         NEW tl \in Slots, NEW b \in Byte,
         \A i \in 0 .. Num - 1 : i # Index(wr) => tl[i] = sl[i],
         n + 1 <= Len(tl[Index(wr)].data), tl[Index(wr)].data[n + 1] = b,
         \A i \in 1 .. n : tl[Index(wr)].data[i] = sl[Index(wr)].data[i],
         \A i \in 0 .. Num - 1 : Len(tl[i].data) <= DataSize
  PROVE  /\ Ring(tl, wr, rd, n + 1)
         /\ HeldAt(tl, wr, rd, n + 1) = Append(HeldAt(sl, wr, rd, n), b)
<1>1. wr \in Nat /\ rd \in Nat /\ rd <= wr /\ n \in Nat /\ sl \in Slots
  BY DEF Ring
<1>2. Ring(tl, wr, rd, n + 1)
  <2>1. ASSUME NEW i \in rd .. wr - 1 PROVE tl[Index(i)].len <= Len(tl[Index(i)].data)
    <3>1. i \in Nat /\ i < wr /\ wr - i < Num
      BY <1>1, Constants
    <3>2. Index(i) \in 0 .. Num - 1 /\ Index(i) # Index(wr)
      BY <1>1, <3>1, IndexFacts
    <3>3. tl[Index(i)] = sl[Index(i)]
      BY <3>2
    <3> QED
      BY <3>3 DEF Ring
  <2>2. wr - rd # Num /\ wr - rd <= Num
    BY <1>1, Constants
  <2> QED
    BY <1>1, <2>1, <2>2 DEF Ring
<1>3. PacketsAt(tl, wr, rd) = PacketsAt(sl, wr, rd)
  BY <1>1, SamePackets
<1> DEFINE a == FlattenSeq(PacketsAt(sl, wr, rd))
           f == FilledAt(sl, wr, n)
           g == FilledAt(tl, wr, n + 1)
<1>4. a \in Seq(Byte) /\ f \in Seq(Byte) /\ Len(f) = n
          /\ \A i \in 1 .. n : f[i] = sl[Index(wr)].data[i]
  BY HeldType
<1>5. g \in Seq(Byte) /\ Len(g) = n + 1 /\ \A i \in 1 .. n + 1 : g[i] = tl[Index(wr)].data[i]
  BY <1>2, HeldType
<1>6. HeldAt(sl, wr, rd, n) = a \o f /\ HeldAt(tl, wr, rd, n + 1) = a \o g
  BY <1>3 DEF HeldAt
<1>7. g = Append(f, b)
  <2>1. n + 1 \in 1 .. n + 1 /\ \A i \in 1 .. n : i \in 1 .. n + 1
    BY <1>1
  <2>2. g[n + 1] = b /\ \A i \in 1 .. n : g[i] = f[i]
    <3> HIDE DEF f, g
    <3> QED
      BY <1>4, <1>5, <2>1
  <2> HIDE DEF f, g
  <2> QED
    BY <1>1, <1>4, <1>5, <2>2
<1>8. a \o Append(f, b) = Append(a \o f, b)
  <2> HIDE DEF a, f
  <2> QED
    BY <1>4
<1> HIDE DEF a, f, g
<1> QED
  BY <1>2, <1>6, <1>7, <1>8

\* The packet that ends moves into the ring, and nothing else does.
LEMMA HandlerHeld ==
  ASSUME SoftUartAssumption, NEW sl, NEW wr, NEW rd, NEW n, Ring(sl, wr, rd, n), wr - rd < Num
  PROVE  LET tl == [sl EXCEPT ![Index(wr)].len = n]
         IN Ring(tl, wr + 1, rd, 0) /\ HeldAt(tl, wr + 1, rd, 0) = HeldAt(sl, wr, rd, n)
<1> DEFINE tl == [sl EXCEPT ![Index(wr)].len = n]
           k == Index(wr)
<1>1. /\ wr \in Nat /\ rd \in Nat /\ rd <= wr /\ n \in Nat /\ sl \in Slots /\ n <= Len(sl[k].data)
      /\ \A i \in 0 .. Num - 1 : Len(sl[i].data) <= DataSize
      /\ \A i \in rd .. wr - 1 : sl[Index(i)].len <= Len(sl[Index(i)].data)
  BY DEF Ring
<1>2. k \in 0 .. Num - 1
  BY <1>1, IndexFacts
<1>3. /\ tl \in Slots /\ tl[k].len = n /\ \A i \in 0 .. Num - 1 : tl[i].data = sl[i].data
      /\ \A i \in 0 .. Num - 1 : i # k => tl[i] = sl[i]
  <2>1. sl \in [0 .. Num - 1 -> [len : Nat, data : Seq(Byte)]] /\ n \in Nat
            /\ sl[k] \in [len : Nat, data : Seq(Byte)]
    BY <1>1, <1>2 DEF Slots
  <2>2. tl = [i \in 0 .. Num - 1 |-> IF i = k THEN [sl[k] EXCEPT !.len = n] ELSE sl[i]]
    <3>1. tl = [sl EXCEPT ![k].len = n]
      OBVIOUS
    <3> HIDE DEF tl, k
    <3> QED
      BY <2>1, <3>1
  <2> DEFINE e == [sl[k] EXCEPT !.len = n]
  <2>3. e \in [len : Nat, data : Seq(Byte)] /\ e.len = n /\ e.data = sl[k].data
    <3> HIDE DEF k
    <3> QED
      BY <2>1
  <2> HIDE DEF k, e, tl
  <2>4. tl = [i \in 0 .. Num - 1 |-> IF i = k THEN e ELSE sl[i]]
    BY <2>2 DEF e
  <2>5. \A i \in 0 .. Num - 1 : tl[i] = IF i = k THEN e ELSE sl[i]
    BY <2>4
  <2>6. tl \in Slots
    BY <2>1, <2>3, <2>4 DEF Slots
  <2> QED
    BY <1>2, <2>3, <2>5, <2>6
<1>4. ASSUME NEW i \in rd .. wr - 1 PROVE Index(i) # k /\ Index(i) \in 0 .. Num - 1
  <2>1. i \in Nat /\ i < wr /\ wr - i < Num
    BY <1>1, Constants
  <2> QED
    BY <1>1, <2>1, IndexFacts
<1> HIDE DEF tl
<1>5. Ring(tl, wr + 1, rd, 0)
  <2>1. ASSUME NEW i \in rd .. wr PROVE tl[Index(i)].len <= Len(tl[Index(i)].data)
    <3>1. CASE i = wr
      <4>1. tl[k].len = n /\ tl[k].data = sl[k].data
        BY <1>2, <1>3
      <4> QED
        BY <1>1, <3>1, <4>1
    <3>2. CASE i # wr
      <4>1. i \in rd .. wr - 1
        BY <1>1, <3>2
      <4>2. tl[Index(i)] = sl[Index(i)]
        BY <1>3, <1>4, <4>1
      <4> QED
        BY <1>1, <4>1, <4>2
    <3> QED
      BY <3>1, <3>2
  <2>2. ASSUME NEW i \in 0 .. Num - 1 PROVE Len(tl[i].data) <= DataSize
    BY <1>1, <1>3
  <2>3. 0 <= Len(tl[Index(wr + 1)].data)
    <3>1. tl[Index(wr + 1)].data \in Seq(Byte)
      BY <1>1, <1>3, SlotFacts
    <3> QED
      BY <3>1
  <2>4. wr + 1 \in Nat /\ rd <= wr + 1 /\ wr + 1 - rd <= Num /\ (wr + 1) - 1 = wr
    BY <1>1, Constants
  <2> QED
    BY <1>1, <1>3, <2>1, <2>2, <2>3, <2>4 DEF Ring
<1> DEFINE t == PacketsAt(sl, wr, rd)
           u == PacketsAt(tl, wr + 1, rd)
           x == FilledAt(sl, wr, n)
           m == wr - rd
<1>6. /\ t \in Seq(Seq(Byte)) /\ Len(t) = m /\ \A i \in 1 .. m : t[i] = PacketAt(sl, rd + i - 1)
      /\ x \in Seq(Byte)
  BY HeldType
<1>7. /\ u \in Seq(Seq(Byte)) /\ Len(u) = m + 1
      /\ \A i \in 1 .. m + 1 : u[i] = PacketAt(tl, rd + i - 1)
      /\ FilledAt(tl, wr + 1, 0) \in Seq(Byte) /\ Len(FilledAt(tl, wr + 1, 0)) = 0
  <2>1. (wr + 1) - rd = m + 1
    BY <1>1
  <2>2. /\ PacketsAt(tl, wr + 1, rd) \in Seq(Seq(Byte))
        /\ Len(PacketsAt(tl, wr + 1, rd)) = (wr + 1) - rd
        /\ \A i \in 1 .. (wr + 1) - rd : PacketsAt(tl, wr + 1, rd)[i] = PacketAt(tl, rd + i - 1)
        /\ FilledAt(tl, wr + 1, 0) \in Seq(Byte) /\ Len(FilledAt(tl, wr + 1, 0)) = 0
    BY <1>5, HeldType
  <2> QED
    BY <2>1, <2>2
<1>8. u[m + 1] = x
  <2>1. m + 1 \in 1 .. m + 1 /\ rd + (m + 1) - 1 = wr
    BY <1>1
  <2>2. u[m + 1] = PacketAt(tl, rd + (m + 1) - 1)
    <3> HIDE DEF u, m
    <3> QED
      BY <1>7, <2>1
  <2>3. PacketAt(tl, wr) = FilledAt(sl, wr, n)
    BY <1>2, <1>3 DEF PacketAt, FilledAt
  <2> QED
    BY <2>1, <2>2, <2>3
<1>9. ASSUME NEW i \in 1 .. m PROVE u[i] = t[i]
  <2>1. i \in 1 .. m + 1 /\ rd + i - 1 \in rd .. wr - 1
    BY <1>1
  <2>2. tl[Index(rd + i - 1)] = sl[Index(rd + i - 1)]
    BY <1>3, <1>4, <2>1
  <2>3. PacketAt(tl, rd + i - 1) = PacketAt(sl, rd + i - 1)
    BY <2>2 DEF PacketAt
  <2> HIDE DEF u, t, m
  <2> QED
    BY <1>6, <1>7, <2>1, <2>3
<1>10. FlattenSeq(t) \in Seq(Byte) /\ FlattenSeq(u) = FlattenSeq(t) \o x
  <2> HIDE DEF u, t, x, m
  <2>1. u[Len(t) + 1] = x /\ Len(u) = Len(t) + 1 /\ \A i \in 1 .. Len(t) : u[i] = t[i]
    BY <1>6, <1>7, <1>8, <1>9
  <2> QED
    BY <1>6, <1>7, <2>1, FlattenLast
<1>11. HeldAt(tl, wr + 1, rd, 0) = HeldAt(sl, wr, rd, n)
  <2>1. FilledAt(tl, wr + 1, 0) = <<>>
    BY <1>7
  <2>2. HeldAt(tl, wr + 1, rd, 0) = FlattenSeq(u) \o <<>>
    BY <2>1 DEF HeldAt
  <2>3. HeldAt(sl, wr, rd, n) = FlattenSeq(t) \o x
    BY DEF HeldAt
  <2> DEFINE a == FlattenSeq(t)
  <2>4. a \in Seq(Byte)
    BY <1>10
  <2> HIDE DEF a, u, t, x
  <2>5. a \o x \in Seq(Byte) /\ (a \o x) \o <<>> = a \o x
    BY <1>6, <2>4, JoinAssoc, SMTT(30)
  <2> QED
    BY <1>10, <2>2, <2>3, <2>5 DEF a
<1> QED
  BY <1>5, <1>11 DEF tl

\* A packet taken is the first of what is held.
LEMMA TakeHeld ==
  ASSUME SoftUartAssumption, NEW sl, NEW wr, NEW rd, NEW n, Ring(sl, wr, rd, n), rd < wr
  PROVE  /\ Ring(sl, wr, rd + 1, n) /\ PacketAt(sl, rd) \in Seq(Byte)
         /\ HeldAt(sl, wr, rd + 1, n) \in Seq(Byte)
         /\ HeldAt(sl, wr, rd, n) = PacketAt(sl, rd) \o HeldAt(sl, wr, rd + 1, n)
<1>1. wr \in Nat /\ rd \in Nat /\ rd <= wr /\ n \in Nat /\ wr - rd <= Num
  BY DEF Ring
<1>2. Ring(sl, wr, rd + 1, n)
  <2>1. rd + 1 \in Nat /\ rd + 1 <= wr /\ wr - (rd + 1) <= Num /\ wr - (rd + 1) # Num
    BY <1>1, Constants
  <2>2. \A i \in rd + 1 .. wr - 1 : i \in rd .. wr - 1
    BY <1>1
  <2> QED
    BY <2>1, <2>2 DEF Ring
<1>3. PacketAt(sl, rd) \in Seq(Byte)
  <2>1. rd \in rd .. wr - 1
    BY <1>1
  <2> QED
    BY <2>1, PacketType
<1> DEFINE u == PacketsAt(sl, wr, rd)
           t == PacketsAt(sl, wr, rd + 1)
           x == PacketAt(sl, rd)
           f == FilledAt(sl, wr, n)
           m == wr - rd - 1
<1>4. /\ u \in Seq(Seq(Byte)) /\ Len(u) = m + 1
      /\ \A i \in 1 .. m + 1 : u[i] = PacketAt(sl, rd + i - 1)
      /\ f \in Seq(Byte)
  <2>1. wr - rd = m + 1
    BY <1>1
  <2> QED
    BY <2>1, HeldType
<1>5. /\ t \in Seq(Seq(Byte)) /\ Len(t) = m /\ \A i \in 1 .. m : t[i] = PacketAt(sl, rd + 1 + i - 1)
      /\ HeldAt(sl, wr, rd + 1, n) \in Seq(Byte)
  <2>1. wr - (rd + 1) = m
    BY <1>1
  <2> QED
    BY <1>2, <2>1, HeldType
<1>6. u[1] = x
  <2>1. 1 \in 1 .. m + 1 /\ rd + 1 - 1 = rd
    BY <1>1
  <2>2. u[1] = PacketAt(sl, rd + 1 - 1)
    <3> HIDE DEF u, m
    <3> QED
      BY <1>4, <2>1
  <2> QED
    BY <2>1, <2>2
<1>7. ASSUME NEW i \in 1 .. m PROVE u[i + 1] = t[i]
  <2>1. i + 1 \in 1 .. m + 1 /\ rd + (i + 1) - 1 = rd + 1 + i - 1
    BY <1>1
  <2>2. u[i + 1] = PacketAt(sl, rd + (i + 1) - 1)
    <3> HIDE DEF u, m
    <3> QED
      BY <1>4, <2>1
  <2>3. t[i] = PacketAt(sl, rd + 1 + i - 1)
    <3> HIDE DEF t, m
    <3> QED
      BY <1>5
  <2> QED
    BY <2>1, <2>2, <2>3
<1>8. FlattenSeq(t) \in Seq(Byte) /\ FlattenSeq(u) = x \o FlattenSeq(t)
  <2> HIDE DEF u, t, x, m
  <2>1. Len(u) = Len(t) + 1 /\ \A i \in 1 .. Len(t) : u[i + 1] = t[i]
    BY <1>4, <1>5, <1>7
  <2>2. x \in Seq(Byte)
    BY <1>3 DEF x
  <2> QED
    BY <1>4, <1>5, <1>6, <2>1, <2>2, FlattenFirst
<1>9. HeldAt(sl, wr, rd, n) = x \o HeldAt(sl, wr, rd + 1, n)
  <2> DEFINE a == FlattenSeq(t)
  <2>1. HeldAt(sl, wr, rd, n) = (x \o a) \o f /\ HeldAt(sl, wr, rd + 1, n) = a \o f
    BY <1>8 DEF HeldAt
  <2>2. a \in Seq(Byte) /\ f \in Seq(Byte) /\ x \in Seq(Byte)
    BY <1>3, <1>4, <1>8
  <2> HIDE DEF a, f, x
  <2>3. x \o (a \o f) = (x \o a) \o f
    BY <2>2, JoinAssoc, SMTT(30)
  <2> QED
    BY <2>1, <2>3
<1> QED
  BY <1>2, <1>3, <1>5, <1>9

-----------------------------------------------------------------------------
(***************************************************************************)
(* The line.                                                               *)
(***************************************************************************)
LEMMA ByteFacts ==
  ASSUME SoftUartAssumption
  PROVE  /\ Clear \in Byte
         /\ \A b \in Byte : \A i \in 1 .. Bits : b[i] \in {0, 1}
BY Constants DEF Clear, Byte

\* What a sender puts on the line, place by place.
LEMMA PutcharFacts ==
  ASSUME SoftUartAssumption, NEW b \in Byte
  PROVE  /\ Putchar(b) \in Seq({0, 1}) /\ Len(Putchar(b)) = Bits + 2
         /\ \A i \in 1 .. Bits + 2 : Putchar(b)[i] = BitAt(b, i - 1)
<1> DEFINE d == [i \in 1 .. Bits |-> b[i]]
           Z == {0, 1}
           p == <<0>> \o d
<1>0. Bits \in Nat /\ Bits >= 1
  BY Constants
<1>1. d \in Seq(Z) /\ Len(d) = Bits /\ \A i \in 1 .. Bits : d[i] = b[i]
  <2>1. \A i \in 1 .. Bits : b[i] \in Z
    BY ByteFacts
  <2>2. d \in [1 .. Bits -> Z]
    BY <2>1
  <2> QED
    BY <1>0, <2>2
<1>2. <<0>> \in Seq(Z) /\ Len(<<0>>) = 1 /\ <<0>>[1] = 0
      /\ <<1>> \in Seq(Z) /\ Len(<<1>>) = 1 /\ <<1>>[1] = 1
  OBVIOUS
<1> HIDE DEF d, Z
<1>3. /\ p \in Seq(Z) /\ Len(p) = Bits + 1 /\ p[1] = 0
      /\ \A i \in 1 .. Bits : p[i + 1] = d[i]
  BY <1>0, <1>1, <1>2
<1> HIDE DEF p
<1>4. /\ p \o <<1>> \in Seq(Z) /\ Len(p \o <<1>>) = Bits + 2 /\ (p \o <<1>>)[Bits + 2] = 1
      /\ \A i \in 1 .. Bits + 1 : (p \o <<1>>)[i] = p[i]
  BY <1>0, <1>2, <1>3
<1>5. Putchar(b) = p \o <<1>>
  BY DEF Putchar, p, d
<1>6. ASSUME NEW i \in 1 .. Bits + 2 PROVE Putchar(b)[i] = BitAt(b, i - 1)
  <2>1. CASE i = 1
    <3>1. i \in 1 .. Bits + 1 /\ i - 1 = 0
      BY <1>0, <2>1
    <3> QED
      BY <1>3, <1>4, <1>5, <2>1, <3>1 DEF BitAt
  <2>2. CASE i = Bits + 2
    <3>1. i - 1 = Bits + 1 /\ i - 1 # 0
      BY <1>0, <2>2
    <3> QED
      BY <1>4, <1>5, <2>2, <3>1 DEF BitAt
  <2>3. CASE i # 1 /\ i # Bits + 2
    <3>1. i - 1 \in 1 .. Bits /\ i \in 1 .. Bits + 1 /\ (i - 1) + 1 = i /\ i - 1 # 0
              /\ i - 1 # Bits + 1
      BY <1>0, <2>3
    <3>2. p[(i - 1) + 1] = d[i - 1] /\ d[i - 1] = b[i - 1]
      BY <1>1, <1>3, <3>1
    <3> QED
      BY <1>4, <1>5, <3>1, <3>2 DEF BitAt
  <2> QED
    BY <2>1, <2>2, <2>3
<1> QED
  BY <1>4, <1>5, <1>6 DEF Z

\* What the invariant says of the types.
LEMMA LineFacts ==
  ASSUME SoftUartAssumption, LineInv
  PROVE  /\ rx.bit_num \in 0 .. Bits - 1 /\ rx.temp_byte \in Byte /\ rx.data_count \in Nat
         /\ rx.done_count \in 0 .. UART_RECE_DONE_NUM
         /\ rx = [state |-> rx.state, bit_num |-> rx.bit_num, temp_byte |-> rx.temp_byte,
                  done_count |-> rx.done_count, data_count |-> rx.data_count]
         /\ gpio.en \in BOOLEAN /\ gpio.age \in NoIrq .. Latency
         /\ gpio = [en |-> gpio.en, age |-> gpio.age]
         /\ timer.left \in {Off} \cup 1 .. Q /\ timer.age \in NoIrq .. Latency
         /\ timer = [left |-> timer.left, age |-> timer.age]
         /\ sent \in Seq(Byte) /\ Len(sent) \in Nat /\ wire \in Seq({0, 1}) /\ left \in 0 .. Q
         /\ Len(wire) \in Nat
BY DEF LineInv, RxType, WireInv

\* The level while a byte is on the line.
LEMMA LevelIs ==
  ASSUME SoftUartAssumption, WireInv, wire # <<>>
  PROVE  /\ Level = BitAt(LastSent, Place) /\ LastSent \in Byte
         /\ Place \in 0 .. Bits + 1 /\ Len(wire) >= 1 /\ left \in 1 .. Q /\ Gone \in 0 .. Q - 1
<1>1. wire \in Seq({0, 1}) /\ left \in 0 .. Q /\ left # 0 /\ sent \in Seq(Byte) /\ sent # <<>>
          /\ Place >= 0
  BY DEF WireInv
<1>2. Len(wire) \in Nat /\ Len(wire) >= 1 /\ Head(wire) = wire[1]
  BY <1>1
<1>3. 1 \in 1 .. Len(wire)
  BY <1>2
<1>4. wire[1] = BitAt(LastSent, Place + 1 - 1)
  BY <1>3 DEF WireInv
<1>5. Place \in 0 .. Bits + 1 /\ Place + 1 - 1 = Place /\ left \in 1 .. Q /\ Gone \in 0 .. Q - 1
  BY <1>1, <1>2, Constants DEF Place, Gone
<1>6. LastSent \in Byte
  BY <1>1 DEF LastSent
<1> QED
  BY <1>2, <1>4, <1>5, <1>6 DEF Level

LEMMA TailFacts ==
  ASSUME NEW S, NEW s \in Seq(S), Len(s) > 1
  PROVE  /\ Tail(s) \in Seq(S) /\ Len(Tail(s)) = Len(s) - 1 /\ Tail(s) # <<>> /\ Len(s) \in Nat
         /\ \A i \in 1 .. Len(Tail(s)) : Tail(s)[i] = s[i + 1]
<1>1. /\ Tail(s) \in Seq(S) /\ Len(Tail(s)) = Len(s) - 1 /\ Len(s) \in Nat
      /\ \A i \in 1 .. Len(s) - 1 : Tail(s)[i] = s[i + 1]
  OBVIOUS
<1>2. Tail(s) # <<>>
  <2> DEFINE t == Tail(s)
  <2>1. t \in Seq(S) /\ Len(t) # 0
    BY <1>1
  <2> HIDE DEF t
  <2>2. t # <<>>
    BY <2>1
  <2> QED
    BY <2>2 DEF t
<1> QED
  BY <1>1, <1>2

\* A unit of time on the line.
LEMMA TickWire ==
  ASSUME SoftUartAssumption, WireInv, Tick
  PROVE  /\ WireInv' /\ LastSent' = LastSent
         /\ wire = <<>> => wire' = <<>>
         /\ wire # <<>> /\ left > 1 => wire' = wire /\ Place' = Place /\ Gone' = Gone + 1
         /\ wire # <<>> /\ left = 1 /\ Len(wire) > 1 =>
              wire' # <<>> /\ Place' = Place + 1 /\ Gone' = 0 /\ Len(wire') = Len(wire) - 1
         /\ wire # <<>> /\ left = 1 /\ Len(wire) <= 1 => wire' = <<>>
<1>1. /\ wire' = (IF left = 1 THEN Tail(wire) ELSE wire)
      /\ left' = (IF left > 1 THEN left - 1 ELSE IF Len(wire) > 1 THEN Q ELSE 0)
      /\ sent' = sent
  BY DEF Tick
<1>2. sent \in Seq(Byte) /\ Len(sent) <= MaxBytes /\ wire \in Seq({0, 1}) /\ left \in 0 .. Q
          /\ Q \in Nat /\ Q >= 1 /\ Bits \in Nat
  BY Constants DEF WireInv
<1>3. LastSent' = LastSent
  BY <1>1 DEF LastSent
<1>4. CASE wire = <<>>
  <2>1. left = 0
    BY <1>4 DEF WireInv
  <2>2. wire' = <<>> /\ left' = 0
    BY <1>1, <1>2, <1>4, <2>1
  <2> QED
    BY <1>1, <1>2, <1>3, <1>4, <2>2 DEF WireInv
<1>5. CASE wire # <<>> /\ left > 1
  <2>1. wire' = wire /\ left' = left - 1 /\ left' \in 0 .. Q /\ left' # 0
    BY <1>1, <1>2, <1>5
  <2>2. Place' = Place /\ Gone' = Gone + 1
    BY <1>2, <2>1 DEF Place, Gone
  <2>3. WireInv'
    BY <1>1, <1>2, <1>3, <1>5, <2>1, <2>2 DEF WireInv
  <2> QED
    BY <1>2, <1>3, <1>5, <2>1, <2>2, <2>3
<1>6. CASE wire # <<>> /\ left = 1 /\ Len(wire) > 1
  <2>1. wire' = Tail(wire) /\ left' = Q
    BY <1>1, <1>2, <1>6
  <2>2. /\ wire' \in Seq({0, 1}) /\ Len(wire') = Len(wire) - 1 /\ wire' # <<>> /\ Len(wire) \in Nat
        /\ \A i \in 1 .. Len(wire') : wire'[i] = wire[i + 1]
    BY <1>2, <1>6, <2>1, TailFacts
  <2>3. Place' = Place + 1 /\ Gone' = 0 /\ Place >= 0 /\ Place' >= 0
    <3>1. Place >= 0
      BY <1>6 DEF WireInv
    <3>2. Len(wire') = Len(wire) - 1 /\ Len(wire) \in Nat /\ left' = Q
      BY <2>1, <2>2
    <3>3. Place' = Bits + 2 - Len(wire') /\ Gone' = Q - left'
      BY DEF Place, Gone
    <3> QED
      BY <1>2, <3>1, <3>2, <3>3 DEF Place
  <2>4. ASSUME NEW i \in 1 .. Len(wire') PROVE wire'[i] = BitAt(LastSent', Place' + i - 1)
    <3>1. i + 1 \in 1 .. Len(wire) /\ Place' + i - 1 = Place + (i + 1) - 1
      BY <1>2, <2>2, <2>3 DEF Place
    <3>2. wire[i + 1] = BitAt(LastSent, Place + (i + 1) - 1)
      BY <1>6, <3>1 DEF WireInv
    <3> QED
      BY <1>3, <2>2, <3>1, <3>2
  <2>5. sent' # <<>> /\ left' # 0 /\ left' \in 0 .. Q
    BY <1>1, <1>2, <1>6, <2>1 DEF WireInv
  <2>6. WireInv'
    BY <1>1, <1>2, <2>2, <2>3, <2>4, <2>5 DEF WireInv
  <2> QED
    BY <1>3, <1>6, <2>2, <2>3, <2>6
<1>7. CASE wire # <<>> /\ left = 1 /\ Len(wire) <= 1
  <2>1. wire' = Tail(wire) /\ left' = 0
    BY <1>1, <1>2, <1>7
  <2>2. wire' = <<>>
    BY <1>2, <1>7, <2>1
  <2> QED
    BY <1>1, <1>2, <1>3, <1>7, <2>1, <2>2 DEF WireInv
<1>8. wire = <<>> \/ left > 1 \/ left = 1
  BY <1>2 DEF WireInv
<1>9. Len(wire) \in Nat
  BY <1>2
<1> QED
  BY <1>4, <1>5, <1>6, <1>7, <1>8, <1>9

\* A unit of time of timer 0 while an interrupt is not later than allowed.
LEMMA TickTimer ==
  ASSUME SoftUartAssumption, RxType, Tick, InTime
  PROVE  /\ timer.age < Latency
         /\ timer.left = Off => timer'.left = Off /\ (timer.age = NoIrq => timer'.age = NoIrq)
         /\ timer.left = 1 /\ timer.age = NoIrq => timer' = [left |-> Q, age |-> 0]
         /\ timer.left = 1 /\ timer.age # NoIrq => timer' = [left |-> Q, age |-> timer.age + 1]
         /\ timer.left > 1 /\ timer.age = NoIrq => timer' = [left |-> timer.left - 1, age |-> NoIrq]
         /\ timer.left > 1 /\ timer.age # NoIrq =>
              timer' = [left |-> timer.left - 1, age |-> timer.age + 1]
         /\ timer' \in [left : {Off} \cup 1 .. Q, age : NoIrq .. Latency]
<1>1. timer \in [left : {Off} \cup 1 .. Q, age : NoIrq .. Latency] /\ timer.age < Latency
  BY DEF RxType, Tick
<1>2. timer' = IF timer.left = Off THEN [timer EXCEPT !.age = Aged(timer.age)]
               ELSE IF timer.left = 1
                 THEN [left |-> Q, age |-> IF Aged(timer.age) = NoIrq THEN 0 ELSE Aged(timer.age)]
               ELSE [left |-> timer.left - 1, age |-> Aged(timer.age)]
  BY DEF Tick
<1>3. Aged(timer.age) = (IF timer.age = NoIrq THEN NoIrq ELSE timer.age + 1) /\ NoIrq = -1
          /\ Off = -1
  BY DEF Aged, NoIrq, Off
<1>4. timer.left \in {-1} \cup 1 .. Q /\ timer.age \in -1 .. Latency
      /\ timer = [left |-> timer.left, age |-> timer.age]
      /\ Q \in Nat /\ Q >= 1 /\ Latency \in Nat
  BY <1>1, <1>3, Constants
<1> DEFINE tl == timer.left
           ta == timer.age
           ag == IF ta = -1 THEN -1 ELSE ta + 1
<1>5. ag \in -1 .. Latency /\ (ta # -1 => ag # -1)
  BY <1>1, <1>4
<1>6. CASE tl = -1
  <2>1. timer' = [left |-> -1, age |-> ag]
    BY <1>2, <1>3, <1>4, <1>6
  <2> HIDE DEF ag
  <2>2. timer' \in [left : {-1} \cup 1 .. Q, age : -1 .. Latency] /\ timer'.left = -1
            /\ timer'.age = ag
    BY <1>5, <2>1
  <2> QED
    BY <1>1, <1>3, <1>6, <2>2 DEF ag
<1>7. CASE tl = 1
  <2>1. timer' = [left |-> Q, age |-> IF ag = -1 THEN 0 ELSE ag]
    BY <1>2, <1>3, <1>7
  <2>2. (IF ag = -1 THEN 0 ELSE ag) \in -1 .. Latency /\ Q \in {-1} \cup 1 .. Q
    BY <1>1, <1>4
  <2>3. timer' \in [left : {-1} \cup 1 .. Q, age : -1 .. Latency]
    <3> HIDE DEF ag
    <3> QED
      BY <2>1, <2>2
  <2>4. ta = -1 => timer' = [left |-> Q, age |-> 0]
    BY <2>1
  <2>5. ta # -1 => timer' = [left |-> Q, age |-> ta + 1]
    BY <1>4, <2>1
  <2> QED
    BY <1>1, <1>3, <1>7, <2>3, <2>4, <2>5
<1>8. CASE tl \notin {-1, 1}
  <2>1. timer' = [left |-> tl - 1, age |-> ag] /\ tl > 1 /\ tl - 1 \in 1 .. Q
    BY <1>2, <1>3, <1>4, <1>8
  <2>2. timer' \in [left : {-1} \cup 1 .. Q, age : -1 .. Latency]
    <3> HIDE DEF ag, tl
    <3> QED
      BY <1>5, <2>1
  <2> QED
    BY <1>1, <1>3, <1>8, <2>1, <2>2
<1> QED
  BY <1>6, <1>7, <1>8

\* The sample to come stays within its bit: the interrupt of its start and its own
\* are late by less than a bit together.
LEMMA SampleTick ==
  ASSUME SoftUartAssumption, WireInv, RxType, Tick, InTime, wire # <<>>, timer.left # Off,
         NEW k \in 0 .. Bits, Sampling(k)
  PROVE  wire' # <<>> /\ timer'.left # Off /\ Sampling(k)'
<1>1. /\ Place \in 0 .. Bits + 1 /\ Len(wire) >= 1 /\ Len(wire) \in Nat /\ left \in 1 .. Q
      /\ Gone = Q - left /\ Place = Bits + 2 - Len(wire)
  BY LevelIs DEF Gone, Place, WireInv
<1>2. /\ Q \in Nat /\ Q >= 1 /\ Latency \in Nat /\ 2 * Latency < Q /\ Bits \in Nat
      /\ NoIrq = -1 /\ Off = -1
      /\ timer.left \in 1 .. Q /\ timer.age \in -1 .. Latency
  BY Constants DEF InTime, RxType, NoIrq, Off
<1>3. /\ timer.age < Latency
      /\ timer.left = 1 /\ timer.age = NoIrq => timer' = [left |-> Q, age |-> 0]
      /\ timer.left = 1 /\ timer.age # NoIrq => timer' = [left |-> Q, age |-> timer.age + 1]
      /\ timer.left > 1 /\ timer.age = NoIrq => timer' = [left |-> timer.left - 1, age |-> NoIrq]
      /\ timer.left > 1 /\ timer.age # NoIrq =>
           timer' = [left |-> timer.left - 1, age |-> timer.age + 1]
  BY TickTimer
<1>4. /\ left > 1 => wire' = wire /\ Place' = Place /\ Gone' = Gone + 1
      /\ left = 1 /\ Len(wire) > 1 =>
           wire' # <<>> /\ Place' = Place + 1 /\ Gone' = 0 /\ Len(wire') = Len(wire) - 1
  BY TickWire
<1>5. left > 1 \/ (left = 1 /\ Gone = Q - 1)
  BY <1>1
\* The timer runs in the place sampled before.
<1>6. CASE timer.age = NoIrq /\ Place = k /\ Gone + timer.left - Q \in 0 .. Latency
  <2>1. CASE timer.left = 1
    <3>1. left = 1 /\ Gone + timer.left - Q = 0
      BY <1>1, <1>2, <1>6, <2>1
    <3>2. Len(wire) > 1
      BY <1>1, <1>2, <1>6
    <3>3. wire' # <<>> /\ Place' = k + 1 /\ Gone' = 0 /\ timer'.left = Q /\ timer'.age = 0
      BY <1>3, <1>4, <1>6, <2>1, <3>1, <3>2
    <3> QED
      BY <1>2, <3>3 DEF Sampling
  <2>2. CASE timer.left > 1 /\ left > 1
    <3>1. wire' = wire /\ Place' = k /\ Gone' = Gone + 1 /\ timer'.left = timer.left - 1
              /\ timer'.age = NoIrq
      BY <1>3, <1>4, <1>6, <2>2
    <3>2. Gone' + timer'.left - Q = Gone + timer.left - Q
      BY <1>1, <1>2, <3>1
    <3> QED
      BY <1>2, <1>6, <2>2, <3>1, <3>2 DEF Sampling
  <2>3. CASE timer.left > 1 /\ left = 1
    <3>1. Len(wire) > 1
      BY <1>1, <1>2, <1>6
    <3>2. wire' # <<>> /\ Place' = k + 1 /\ Gone' = 0 /\ timer'.left = timer.left - 1
              /\ timer'.age = NoIrq
      BY <1>3, <1>4, <1>6, <2>3, <3>1
    <3>3. Gone' + timer'.left = Gone + timer.left - Q
      BY <1>1, <1>2, <2>3, <3>2
    <3> QED
      BY <1>2, <1>6, <2>3, <3>2, <3>3 DEF Sampling
  <2> QED
    BY <1>1, <1>2, <2>1, <2>2, <2>3
\* It runs in the place to be sampled.
<1>7. CASE timer.age = NoIrq /\ Place = k + 1 /\ Gone + timer.left \in 0 .. Latency
  <2>0. left > 1
    BY <1>1, <1>2, <1>7
  <2>1. CASE timer.left = 1
    <3>1. wire' = wire /\ Place' = k + 1 /\ Gone' = Gone + 1 /\ timer'.left = Q /\ timer'.age = 0
      BY <1>3, <1>4, <1>7, <2>0, <2>1
    <3>2. Gone' - timer'.age = Gone + timer.left /\ timer'.left = Q - timer'.age
      BY <1>1, <1>2, <2>1, <3>1
    <3> QED
      BY <1>2, <1>7, <3>1, <3>2 DEF Sampling
  <2>2. CASE timer.left > 1
    <3>1. wire' = wire /\ Place' = k + 1 /\ Gone' = Gone + 1 /\ timer'.left = timer.left - 1
              /\ timer'.age = NoIrq
      BY <1>3, <1>4, <1>7, <2>0, <2>2
    <3>2. Gone' + timer'.left = Gone + timer.left
      BY <1>1, <1>2, <3>1
    <3> QED
      BY <1>2, <1>7, <2>2, <3>1, <3>2 DEF Sampling
  <2> QED
    BY <1>2, <2>1, <2>2
\* Its interrupt is to be handled.
<1>8. CASE /\ timer.age # NoIrq /\ Place = k + 1 /\ Gone - timer.age \in 0 .. Latency
           /\ timer.left = Q - timer.age
  <2>1. timer.age \in 0 .. Latency - 1 /\ left > 1 /\ timer.left > 1
    BY <1>1, <1>2, <1>3, <1>8, SMTT(40)
  <2>2. /\ wire' = wire /\ Place' = k + 1 /\ Gone' = Gone + 1
        /\ timer'.left = timer.left - 1 /\ timer'.age = timer.age + 1
    BY <1>3, <1>4, <1>8, <2>1
  <2>3. Gone' - timer'.age = Gone - timer.age /\ timer'.left = Q - timer'.age /\ timer'.age # NoIrq
    BY <1>1, <1>2, <1>8, <2>1, <2>2
  <2> QED
    BY <1>2, <1>8, <2>1, <2>2, <2>3 DEF Sampling
<1> QED
  BY <1>6, <1>7, <1>8 DEF Sampling

-----------------------------------------------------------------------------
(***************************************************************************)
(* The steps, on the line.                                                 *)
(***************************************************************************)
\* Time passes, and no edge but a start bit's is seen.
LEMMA TickLine ==
  ASSUME SoftUartAssumption, InTime, LineInv, Tick
  PROVE  LineInv' /\ (gpio'.age = NoIrq <=> gpio.age = NoIrq)
<1>0. WireInv /\ RxType
  BY DEF LineInv
<1>1. /\ WireInv' /\ LastSent' = LastSent
      /\ wire = <<>> => wire' = <<>>
      /\ wire # <<>> /\ left > 1 => wire' = wire /\ Place' = Place /\ Gone' = Gone + 1
      /\ wire # <<>> /\ left = 1 /\ Len(wire) <= 1 => wire' = <<>>
  BY <1>0, TickWire
<1>2. timer' \in [left : {Off} \cup 1 .. Q, age : NoIrq .. Latency]
  BY <1>0, TickTimer
<1>3. rx' = rx /\ sent' = sent /\ gpio.age < Latency
  BY DEF Tick
<1> DEFINE to == IF wire' = <<>> THEN 1 ELSE Head(wire')
<1>4. gpio' = [gpio EXCEPT !.age = IF FallingEdge(Level, to) /\ Aged(gpio.age) = NoIrq THEN 0
          ELSE Aged(gpio.age)]
  BY DEF Tick
<1>5. Aged(gpio.age) = (IF gpio.age = NoIrq THEN NoIrq ELSE gpio.age + 1) /\ NoIrq = -1
      /\ gpio.en \in BOOLEAN /\ gpio.age \in -1 .. Latency
      /\ gpio = [en |-> gpio.en, age |-> gpio.age]
      /\ Latency \in Nat /\ Q \in Nat /\ 2 * Latency < Q
  BY LineFacts, Constants DEF Aged, NoIrq, InTime
<1>6. ASSUME gpio.age # NoIrq PROVE gpio' = [en |-> gpio.en, age |-> gpio.age + 1]
  BY <1>4, <1>5, <1>6
<1>7. ASSUME gpio.age = NoIrq, ~ FallingEdge(Level, to) PROVE gpio' = gpio
  <2>1. gpio' = [gpio EXCEPT !.age = NoIrq]
    BY <1>4, <1>5, <1>7
  <2> QED
    BY <1>5, <1>7, <2>1
<1> HIDE DEF to
<1>8. CASE Waiting /\ gpio.age = NoIrq
  <2>1. Len(wire) <= 1 /\ Len(wire) \in Nat
    BY <1>8, LineFacts DEF Waiting
  <2>2. ~ FallingEdge(Level, to) /\ Len(wire') <= 1
    <3>1. CASE wire = <<>>
      <4>1. wire' = <<>> /\ to = 1 /\ Len(wire') = 0
        BY <1>1, <3>1 DEF to
      <4> QED
        BY <4>1 DEF FallingEdge
    <3>2. CASE wire # <<>> /\ left > 1
      <4>1. wire' = wire /\ to = Level
        BY <1>1, <3>2 DEF to, Level
      <4> QED
        BY <2>1, <4>1 DEF FallingEdge
    <3>3. CASE wire # <<>> /\ left = 1
      <4>1. wire' = <<>> /\ to = 1 /\ Len(wire') = 0
        BY <1>1, <2>1, <3>3 DEF to
      <4> QED
        BY <4>1 DEF FallingEdge
    <3>4. wire # <<>> => left \in 1 .. Q
      BY <1>0, LevelIs
    <3> QED
      BY <3>1, <3>2, <3>3, <3>4
  <2>3. gpio' = gpio
    BY <1>7, <1>8, <2>2
  <2>4. Waiting'
    BY <1>3, <1>8, <2>2, <2>3 DEF Waiting
  <2>5. RxType'
    BY <1>0, <1>2, <1>3, <2>3 DEF RxType
  <2> QED
    BY <1>1, <2>3, <2>4, <2>5 DEF LineInv
<1>9. CASE Waiting /\ gpio.age # NoIrq
  <2>1. wire # <<>> /\ Place = 0 /\ Gone = gpio.age
    BY <1>9 DEF Waiting
  <2>2. left > 1
    BY <1>0, <1>3, <1>5, <2>1, LevelIs DEF Gone
  <2>3. wire' # <<>> /\ Place' = 0 /\ Gone' = gpio.age + 1
    BY <1>1, <2>1, <2>2
  <2>4. gpio' = [en |-> gpio.en, age |-> gpio.age + 1] /\ gpio.age + 1 \in -1 .. Latency
            /\ gpio.age + 1 # NoIrq
    BY <1>3, <1>5, <1>6, <1>9
  <2>5. gpio'.en = gpio.en /\ gpio'.age = gpio.age + 1
            /\ gpio' \in [en : BOOLEAN, age : NoIrq .. Latency]
    BY <1>5, <2>4
  <2>6. Waiting'
    BY <1>3, <1>9, <2>3, <2>4, <2>5 DEF Waiting
  <2>7. RxType'
    BY <1>0, <1>2, <1>3, <2>5 DEF RxType
  <2> QED
    BY <1>1, <1>9, <2>4, <2>5, <2>6, <2>7 DEF LineInv
<1>10. ASSUME ~ gpio.en, gpio.age = NoIrq PROVE gpio' = gpio /\ RxType'
  <2>1. gpio' = gpio
    BY <1>7, <1>10 DEF FallingEdge
  <2> QED
    BY <1>0, <1>2, <1>3, <2>1 DEF RxType
<1>11. CASE Working
  <2>1. wire # <<>> /\ timer.left # Off /\ Sampling(rx.bit_num) /\ rx.bit_num \in 0 .. Bits
    BY <1>11, LineFacts, Constants DEF Working
  <2>2. PICK n \in 0 .. Bits : n = rx.bit_num
    BY <2>1
  <2>3. wire' # <<>> /\ timer'.left # Off /\ Sampling(n)'
    <3>1. wire # <<>> /\ timer.left # Off /\ Sampling(n)
      BY <2>1, <2>2
    <3> QED
      BY <1>0, <3>1, SampleTick
  <2>4. gpio' = gpio /\ RxType' /\ rx'.bit_num = n
    BY <1>3, <1>10, <1>11, <2>2 DEF Working
  <2>5. Sampling(rx.bit_num)'
    BY <2>3, <2>4 DEF Sampling
  <2>6. Working'
    BY <1>1, <1>3, <1>11, <2>3, <2>4, <2>5 DEF Working
  <2> QED
    BY <1>1, <2>4, <2>6, <1>11 DEF LineInv, Working
<1>12. CASE Stopping
  <2>1. wire # <<>> /\ timer.left # Off /\ Sampling(Bits) /\ Bits \in 0 .. Bits
    BY <1>12, Constants DEF Stopping
  <2>2. wire' # <<>> /\ timer'.left # Off /\ Sampling(Bits)'
    BY <1>0, <2>1, SampleTick
  <2>3. gpio' = gpio /\ RxType'
    BY <1>10, <1>12 DEF Stopping
  <2>4. Stopping'
    BY <1>1, <1>3, <1>12, <2>2, <2>3 DEF Stopping
  <2> QED
    BY <1>1, <2>3, <2>4 DEF LineInv
<1>13. CASE Switched
  <2>1. gpio' = gpio /\ RxType' /\ wire' = <<>>
    BY <1>1, <1>10, <1>13 DEF Switched
  <2>2. timer.left = Off /\ timer.age = NoIrq
    BY <1>13 DEF Switched
  <2>3. timer'.left = Off /\ timer'.age = NoIrq
    BY <1>0, <2>2, TickTimer
  <2>4. timer' = [left |-> Off, age |-> NoIrq]
    BY <1>2, <2>3
  <2>5. Switched'
    BY <1>3, <1>13, <2>1, <2>4 DEF Switched
  <2> QED
    BY <1>1, <2>1, <2>5 DEF LineInv
<1> QED
  BY <1>8, <1>9, <1>11, <1>12, <1>13 DEF LineInv

\* A byte is sent while the receiver waits, and its start bit interrupts.
LEMMA SendLine ==
  ASSUME SoftUartAssumption, LineInv, NEW b \in Byte, Send(b)
  PROVE  /\ LineInv' /\ gpio.age = NoIrq /\ Waiting /\ gpio'.age = 0
         /\ sent' = Append(sent, b) /\ sent \in Seq(Byte)
<1>1. /\ wire = <<>> /\ Len(sent) < MaxBytes /\ "DIS" \notin rx.state
      /\ wire' = Putchar(b) /\ left' = Q /\ sent' = Append(sent, b)
      /\ gpio' = (IF gpio.en /\ gpio.age = NoIrq THEN [gpio EXCEPT !.age = 0] ELSE gpio)
      /\ rx' = rx /\ timer' = timer
  BY DEF Send
<1>2. sent \in Seq(Byte) /\ Len(sent) \in Nat /\ MaxBytes \in Nat /\ Q \in Nat /\ Q >= 1
          /\ Bits \in Nat
      /\ Latency \in Nat /\ gpio = [en |-> gpio.en, age |-> gpio.age]
  BY LineFacts, Constants
<1>3. Waiting
  <2>1. ~ Working /\ ~ Stopping /\ ~ Switched
    BY <1>1 DEF Working, Stopping, Switched
  <2> QED
    BY <2>1 DEF LineInv
<1>4. gpio.age = NoIrq /\ gpio.en
  BY <1>1, <1>3 DEF Waiting
<1>5. gpio' = [en |-> TRUE, age |-> 0]
  <2>1. gpio' = [gpio EXCEPT !.age = 0]
    BY <1>1, <1>4
  <2> QED
    BY <1>2, <1>3, <2>1, LineFacts DEF Waiting
<1>6. /\ sent' \in Seq(Byte) /\ Len(sent') = Len(sent) + 1 /\ sent' # <<>>
      /\ sent'[Len(sent) + 1] = b
  BY <1>1, <1>2
<1>7. LastSent' = b
  BY <1>6 DEF LastSent
<1>8. /\ wire' \in Seq({0, 1}) /\ Len(wire') = Bits + 2
      /\ \A i \in 1 .. Bits + 2 : wire'[i] = BitAt(b, i - 1)
  BY <1>1, PutcharFacts
<1>9. Place' = 0 /\ Gone' = 0 /\ wire' # <<>>
  <2>1. Len(wire') # 0
    BY <1>2, <1>8
  <2> QED
    BY <1>1, <1>2, <1>8, <2>1 DEF Place, Gone
<1>10. WireInv'
  <2>1. ASSUME NEW i \in 1 .. Len(wire') PROVE wire'[i] = BitAt(LastSent', Place' + i - 1)
    <3>1. i \in 1 .. Bits + 2 /\ Place' + i - 1 = i - 1
      BY <1>2, <1>8, <1>9
    <3> QED
      BY <1>7, <1>8, <3>1
  <2>2. left' \in 0 .. Q /\ left' # 0 /\ Len(sent') <= MaxBytes /\ Place' >= 0
    BY <1>1, <1>2, <1>6, <1>9
  <2> QED
    BY <1>6, <1>8, <1>9, <2>1, <2>2 DEF WireInv
<1>11. RxType'
  <2>1. gpio' \in [en : BOOLEAN, age : NoIrq .. Latency]
    BY <1>2, <1>5 DEF NoIrq
  <2> QED
    BY <1>1, <2>1 DEF LineInv, RxType
<1>12. gpio'.age = 0 /\ gpio'.en /\ 0 # NoIrq
  BY <1>5 DEF NoIrq
<1>13. Waiting'
  BY <1>1, <1>3, <1>9, <1>12 DEF Waiting
<1> QED
  BY <1>1, <1>2, <1>3, <1>4, <1>10, <1>11, <1>12, <1>13 DEF LineInv

LEMMA DisLine ==
  ASSUME SoftUartAssumption, LineInv, soft_uart_dis
  PROVE  LineInv' /\ Waiting /\ gpio.age = NoIrq /\ rx'.state = {"DIS"}
             /\ rx'.data_count = rx.data_count
<1>1. /\ wire = <<>> /\ "DIS" \notin rx.state
      /\ rx' = [rx EXCEPT !.state = {"DIS"}, !.bit_num = 0, !.temp_byte = Clear, !.done_count = 0]
      /\ gpio' = [en |-> FALSE, age |-> NoIrq] /\ timer' = [left |-> Off, age |-> NoIrq]
      /\ wire' = wire /\ left' = left /\ sent' = sent
  BY DEF soft_uart_dis
<1>2. Waiting /\ gpio.age = NoIrq
  <2>1. ~ Working /\ ~ Stopping /\ ~ Switched
    BY <1>1 DEF Working, Stopping, Switched
  <2>2. Waiting
    BY <2>1 DEF LineInv
  <2> QED
    BY <1>1, <2>2 DEF Waiting
<1>3. /\ rx'.state = {"DIS"} /\ rx'.bit_num = 0 /\ rx'.data_count = rx.data_count
      /\ rx' = [state |-> {"DIS"}, bit_num |-> 0, temp_byte |-> Clear, done_count |-> 0,
                data_count |-> rx.data_count]
  BY <1>1, LineFacts
<1>4. RxType'
  <2>1. Clear \in Byte /\ 0 \in 0 .. Bits - 1 /\ 0 \in 0 .. UART_RECE_DONE_NUM
            /\ rx.data_count \in Nat
    BY ByteFacts, Constants, LineFacts DEF UART_RECE_DONE_NUM
  <2>2. gpio' \in [en : BOOLEAN, age : NoIrq .. Latency]
            /\ timer' \in [left : {Off} \cup 1 .. Q, age : NoIrq .. Latency]
    BY <1>1, Constants DEF NoIrq, Off
  <2> QED
    BY <1>3, <2>1, <2>2 DEF RxType
<1>5. WireInv'
  BY <1>1 DEF LineInv, WireInv, LastSent, Place
<1>6. Switched'
  BY <1>1, <1>3 DEF Switched
<1> QED
  BY <1>2, <1>3, <1>4, <1>5, <1>6 DEF LineInv

LEMMA EnLine ==
  ASSUME SoftUartAssumption, LineInv, soft_uart_en
  PROVE  LineInv' /\ Switched /\ gpio'.age = NoIrq /\ rx'.state = {"WAIT"}
             /\ rx'.data_count = rx.data_count
         /\ timer'.age = NoIrq
<1>1. /\ "DIS" \in rx.state
      /\ rx' = [rx EXCEPT !.state = {"WAIT"}, !.bit_num = 0, !.temp_byte = Clear, !.done_count = 0]
      /\ gpio' = [en |-> TRUE, age |-> NoIrq] /\ timer' = [timer EXCEPT !.age = NoIrq]
      /\ wire' = wire /\ left' = left /\ sent' = sent
  BY DEF soft_uart_en
<1>2. Switched
  <2>1. ~ Working /\ ~ Stopping /\ ~ Waiting
    BY <1>1 DEF Working, Stopping, Waiting
  <2> QED
    BY <2>1 DEF LineInv
<1>3. /\ rx'.state = {"WAIT"} /\ rx'.bit_num = 0 /\ rx'.data_count = rx.data_count
      /\ rx' = [state |-> {"WAIT"}, bit_num |-> 0, temp_byte |-> Clear, done_count |-> 0,
                data_count |-> rx.data_count]
  BY <1>1, LineFacts
<1>4. RxType' /\ timer'.age = NoIrq
  <2>1. Clear \in Byte /\ 0 \in 0 .. Bits - 1 /\ 0 \in 0 .. UART_RECE_DONE_NUM
            /\ rx.data_count \in Nat
    BY ByteFacts, Constants, LineFacts DEF UART_RECE_DONE_NUM
  <2>2. timer' = [left |-> timer.left, age |-> NoIrq] /\ timer.left \in {Off} \cup 1 .. Q
    BY <1>1, LineFacts
  <2>3. NoIrq \in NoIrq .. Latency
    BY Constants DEF NoIrq
  <2>4. gpio' \in [en : BOOLEAN, age : NoIrq .. Latency]
    BY <1>1, <2>3
  <2>5. timer' \in [left : {Off} \cup 1 .. Q, age : NoIrq .. Latency] /\ timer'.age = NoIrq
    BY <2>2, <2>3
  <2> QED
    BY <1>3, <2>1, <2>4, <2>5 DEF RxType
<1>5. WireInv'
  BY <1>1 DEF LineInv, WireInv, LastSent, Place
<1>6. gpio'.en /\ gpio'.age = NoIrq /\ wire' = <<>> /\ Len(wire') = 0
  BY <1>1, <1>2 DEF Switched
<1>7. Waiting'
  BY <1>3, <1>6 DEF Waiting
<1> QED
  BY <1>2, <1>3, <1>4, <1>5, <1>6, <1>7 DEF LineInv

-----------------------------------------------------------------------------
(***************************************************************************)
(* The interrupt handler, one case at a time.                              *)
(***************************************************************************)
Rx(st, k, b, dc, n) ==
  [state |-> st, bit_num |-> k, temp_byte |-> b, done_count |-> dc, data_count |-> n]
Ctx(x, g, t, sl, wr) == [rx |-> x, gpio |-> g, timer |-> t, slots |-> sl, w |-> wr, r |-> r]
Pin(e, a) == [en |-> e, age |-> a]
Clock(l, a) == [left |-> l, age |-> a]
PinOff == [en |-> FALSE, age |-> NoIrq]
PinOn == [en |-> TRUE, age |-> NoIrq]

\* The states, bits and bytes that follow.
AfterStart(st) == (st \ {"DONE_CHECK", "WAIT"}) \cup {"WORK"}
AfterBit(st, k) == IF k + 1 = Bits THEN (st \ {"WORK"}) \cup {"STOP_CHECK"} ELSE st
AfterStop(st) == (st \ {"STOP_CHECK"}) \cup {"DONE_CHECK", "WAIT"}
AfterDone(st) == st \ {"DONE_CHECK"}
NextBit(k) == IF k + 1 = Bits THEN 0 ELSE k + 1
WithBit(b, k) == [b EXCEPT ![k + 1] = Level]

\* One assignment each.
PutState(c, z) == [c EXCEPT !.rx.state = z]
PutBit(c, z) == [c EXCEPT !.rx.bit_num = z]
PutByte(c, z) == [c EXCEPT !.rx.temp_byte = z]
PutDone(c, z) == [c EXCEPT !.rx.done_count = z]
PutCount(c, z) == [c EXCEPT !.rx.data_count = z]
PutGpio(c, z) == [c EXCEPT !.gpio = z]
PutTimer(c, z) == [c EXCEPT !.timer = z]
PutSlots(c, z) == [c EXCEPT !.slots = z]
PutW(c, z) == [c EXCEPT !.w = z]

LEMMA Reads ==
  ASSUME NEW st, NEW k, NEW b, NEW dc, NEW n, NEW g, NEW t, NEW sl, NEW wr,
         NEW c, c = Ctx(Rx(st, k, b, dc, n), g, t, sl, wr)
  PROVE  /\ c.rx = Rx(st, k, b, dc, n)
         /\ c.rx.state = st /\ c.rx.bit_num = k /\ c.rx.temp_byte = b /\ c.rx.done_count = dc
         /\ c.rx.data_count = n /\ c.gpio = g /\ c.timer = t /\ c.slots = sl /\ c.w = wr /\ c.r = r
BY DEF Ctx, Rx

LEMMA PutCtx ==
  ASSUME NEW x, NEW g, NEW t, NEW sl, NEW wr, NEW z
  PROVE  /\ PutGpio(Ctx(x, g, t, sl, wr), z) = Ctx(x, z, t, sl, wr)
         /\ PutTimer(Ctx(x, g, t, sl, wr), z) = Ctx(x, g, z, sl, wr)
         /\ PutSlots(Ctx(x, g, t, sl, wr), z) = Ctx(x, g, t, z, wr)
         /\ PutW(Ctx(x, g, t, sl, wr), z) = Ctx(x, g, t, sl, z)
BY DEF Ctx, PutGpio, PutTimer, PutSlots, PutW

LEMMA PutRx ==
  ASSUME NEW st, NEW k, NEW b, NEW dc, NEW n, NEW g, NEW t, NEW sl, NEW wr, NEW z
  PROVE  /\ PutState(Ctx(Rx(st, k, b, dc, n), g, t, sl, wr), z)
                = Ctx(Rx(z, k, b, dc, n), g, t, sl, wr)
         /\ PutBit(Ctx(Rx(st, k, b, dc, n), g, t, sl, wr), z)
                = Ctx(Rx(st, z, b, dc, n), g, t, sl, wr)
         /\ PutByte(Ctx(Rx(st, k, b, dc, n), g, t, sl, wr), z)
                = Ctx(Rx(st, k, z, dc, n), g, t, sl, wr)
         /\ PutDone(Ctx(Rx(st, k, b, dc, n), g, t, sl, wr), z)
                = Ctx(Rx(st, k, b, z, n), g, t, sl, wr)
         /\ PutCount(Ctx(Rx(st, k, b, dc, n), g, t, sl, wr), z)
                = Ctx(Rx(st, k, b, dc, z), g, t, sl, wr)
BY DEF Ctx, Rx, PutState, PutBit, PutByte, PutDone, PutCount

\* What the handler reads and writes, as records.
LEMMA Contexts ==
  ASSUME SoftUartAssumption, LineInv
  PROVE  /\ [rx |-> rx, gpio |-> gpio, timer |-> timer, slots |-> slots, w |-> w, r |-> r]
              = Ctx(Rx(rx.state, rx.bit_num, rx.temp_byte, rx.done_count, rx.data_count),
                    Pin(gpio.en, gpio.age), Clock(timer.left, timer.age), slots, w)
         /\ rx = Rx(rx.state, rx.bit_num, rx.temp_byte, rx.done_count, rx.data_count)
         /\ gpio = Pin(gpio.en, gpio.age) /\ timer = Clock(timer.left, timer.age)
<1>1. /\ rx = Rx(rx.state, rx.bit_num, rx.temp_byte, rx.done_count, rx.data_count)
      /\ gpio = Pin(gpio.en, gpio.age) /\ timer = Clock(timer.left, timer.age)
  BY LineFacts DEF Rx, Pin, Clock
<1>2. [rx |-> rx, gpio |-> gpio, timer |-> timer, slots |-> slots, w |-> w, r |-> r]
          = Ctx(rx, gpio, timer, slots, w)
  BY DEF Ctx
<1> QED
  BY <1>1, <1>2

\* The assignments of each function, in their order.
LEMMA StartBitPuts ==
  ASSUME NEW c
  PROVE  StartBit(c)
           = PutTimer(PutGpio(PutDone(PutByte(PutBit(
                PutState(c, AfterStart(c.rx.state)), 0), Clear), 0),
                [c.gpio EXCEPT !.en = FALSE]), Clock(Q, NoIrq))
BY DEF StartBit, AfterStart, Clock, PutTimer, PutGpio, PutDone, PutByte, PutBit, PutState

LEMMA DataBitPuts ==
  ASSUME NEW c
  PROVE  DataBit(c)
           = PutState(PutBit(PutByte(c, WithBit(c.rx.temp_byte, c.rx.bit_num)),
               NextBit(c.rx.bit_num)),
                      AfterBit(c.rx.state, c.rx.bit_num))
BY DEF WithBit, NextBit, AfterBit, DataBit, PutState, PutBit, PutByte

\* The buffer in use with a byte more, and its length set.
Kept(sl, wr, n, b) ==
  [sl EXCEPT ![Index(wr)].data = IF n < Len(@) THEN ReplaceAt(@, n + 1, b) ELSE Append(@, b)]
Ended(sl, wr, n) == [sl EXCEPT ![Index(wr)].len = n]

LEMMA HandlerPuts ==
  ASSUME NEW c
  PROVE  RxHandler(c)
           = IF c.w - c.r < Num
             THEN PutCount(PutW(PutSlots(c, Ended(c.slots, c.w, c.rx.data_count)), c.w + 1), 0)
             ELSE PutSlots(c, Ended(c.slots, c.w, c.rx.data_count))
BY DEF RxHandler, Ended, PutCount, PutW, PutSlots

LEMMA KeepPuts ==
  ASSUME NEW c
  PROVE  LET d == PutCount(PutByte(PutSlots(c,
             Kept(c.slots, c.w, c.rx.data_count, c.rx.temp_byte)), Clear),
                           c.rx.data_count + 1)
         IN Keep(c) = IF c.rx.data_count + 1 >= DataSize THEN RxHandler(d) ELSE d
BY DEF Keep, Kept, PutCount, PutByte, PutSlots

LEMMA StopBitPuts ==
  ASSUME NEW c, Level = 1
  PROVE  StopBit(c) = PutGpio(PutState(Keep(c), AfterStop(Keep(c).rx.state)), PinOn)
<1> DEFINE d == Keep(c)
<1>1. StopBit(c) = [d EXCEPT !.rx.state = (@ \ {"STOP_CHECK"}) \cup {"DONE_CHECK", "WAIT"},
                             !.gpio = [en |-> TRUE, age |-> NoIrq]]
  BY DEF StopBit
<1> HIDE DEF d
<1>2. StopBit(c) = PutGpio(PutState(d, AfterStop(d.rx.state)), PinOn)
  BY <1>1 DEF PutGpio, PutState, AfterStop, PinOn
<1> QED
  BY <1>2 DEF d

LEMMA DoneCheckPuts ==
  ASSUME NEW c
  PROVE  LET d == PutState(PutTimer(PutDone(c, c.rx.done_count + 1), Clock(Off, NoIrq)),
                           AfterDone(c.rx.state))
         IN DoneCheck(c) = IF c.rx.done_count + 1 < UART_RECE_DONE_NUM
             THEN PutDone(c, c.rx.done_count + 1)
                           ELSE IF c.rx.data_count > 0 THEN RxHandler(d) ELSE d
BY DEF DoneCheck, AfterDone, Clock, PutDone, PutTimer, PutState

\* What each function makes of the records.
LEMMA GpioIrqStart ==
  ASSUME NEW st, NEW k, NEW b, NEW dc, NEW n, NEW e, NEW a, NEW t, NEW sl, NEW wr,
         a # NoIrq, Level = 0, "WAIT" \in st
  PROVE  GpioIrq(Ctx(Rx(st, k, b, dc, n), Pin(e, a), t, sl, wr))
           = Ctx(Rx(AfterStart(st), 0, Clear, 0, n), PinOff, Clock(Q, NoIrq), sl, wr)
<1> DEFINE c == Ctx(Rx(st, k, b, dc, n), Pin(e, a), t, sl, wr)
           d == Ctx(Rx(st, k, b, dc, n), Pin(e, NoIrq), t, sl, wr)
           z == PutDone(PutByte(PutBit(PutState(d, AfterStart(st)), 0), Clear), 0)
<1>1. c.rx.state = st /\ d.rx.state = st /\ d.gpio = Pin(e, NoIrq) /\ c.gpio = Pin(e, a)
  BY Reads
<1>2. Pin(e, a).age = a
  BY DEF Pin
<1>3. [Pin(e, NoIrq) EXCEPT !.en = FALSE] = PinOff
  <2>1. \A f : [Pin(e, NoIrq) EXCEPT !.en = f] = [en |-> f, age |-> NoIrq]
    BY DEF Pin
  <2> QED
    BY <2>1, Zenon DEF PinOff
<1>4. [c EXCEPT !.gpio.age = NoIrq] = d
  <2> DEFINE x == Rx(st, k, b, dc, n)
  <2> HIDE DEF x
  <2> QED
    BY DEF Ctx, Pin
<1>5. z = Ctx(Rx(AfterStart(st), 0, Clear, 0, n), Pin(e, NoIrq), t, sl, wr)
  BY PutRx
<1>6. StartBit(d) = PutTimer(PutGpio(z, PinOff), Clock(Q, NoIrq))
  <2> HIDE DEF d
  <2>1. StartBit(d)
           = PutTimer(PutGpio(PutDone(PutByte(PutBit(
                PutState(d, AfterStart(d.rx.state)), 0), Clear), 0),
                [d.gpio EXCEPT !.en = FALSE]), Clock(Q, NoIrq))
    BY StartBitPuts
  <2> QED
    BY <1>1, <1>3, <2>1
<1> HIDE DEF z
<1>7. PutGpio(z, PinOff) = Ctx(Rx(AfterStart(st), 0, Clear, 0, n), PinOff, t, sl, wr)
  BY <1>5, PutCtx
<1>8. StartBit(d) = Ctx(Rx(AfterStart(st), 0, Clear, 0, n), PinOff, Clock(Q, NoIrq), sl, wr)
  BY <1>6, <1>7, PutCtx
<1> HIDE DEF c, d
<1>9. GpioIrq(c) = StartBit(d)
  BY <1>1, <1>2, <1>4 DEF GpioIrq
<1> QED
  BY <1>8, <1>9 DEF c

LEMMA GpioIrqNone ==
  ASSUME NEW c, NEW x, NEW e, NEW t, NEW sl, NEW wr, c = Ctx(x, Pin(e, NoIrq), t, sl, wr)
  PROVE  GpioIrq(c) = c
<1>1. c.gpio.age = NoIrq
  BY DEF Ctx, Pin
<1> QED
  BY <1>1 DEF GpioIrq

LEMMA TimerIrqIs ==
  ASSUME NEW x, NEW g, NEW l, NEW a, NEW sl, NEW wr
  PROVE  /\ a = NoIrq => TimerIrq(Ctx(x, g, Clock(l, a), sl, wr)) = Ctx(x, g, Clock(l, a), sl, wr)
         /\ a # NoIrq /\ x.state = {"WORK"} =>
              TimerIrq(Ctx(x, g, Clock(l, a), sl, wr)) = DataBit(Ctx(x, g, Clock(l, NoIrq), sl, wr))
         /\ a # NoIrq /\ x.state = {"STOP_CHECK"} =>
              TimerIrq(Ctx(x, g, Clock(l, a), sl, wr)) = StopBit(Ctx(x, g, Clock(l, NoIrq), sl, wr))
         /\ a # NoIrq /\ x.state = {"WAIT", "DONE_CHECK"} =>
              TimerIrq(Ctx(x, g, Clock(l, a), sl, wr))
                  = DoneCheck(Ctx(x, g, Clock(l, NoIrq), sl, wr))
         /\ a # NoIrq /\ x.state = {"WAIT"} =>
              TimerIrq(Ctx(x, g, Clock(l, a), sl, wr)) = Ctx(x, g, Clock(l, NoIrq), sl, wr)
<1> DEFINE c == Ctx(x, g, Clock(l, a), sl, wr)
           d == Ctx(x, g, Clock(l, NoIrq), sl, wr)
<1>1. c.timer.age = a /\ c.rx = x /\ [c EXCEPT !.timer.age = NoIrq] = d
  BY DEF Ctx, Clock
<1> HIDE DEF c, d
<1>2. TimerIrq(c) = IF a = NoIrq THEN c
                    ELSE CASE "WORK" \in x.state -> DataBit(d)
                           [] "STOP_CHECK" \in x.state -> StopBit(d)
                           [] "DONE_CHECK" \in x.state -> DoneCheck(d)
                           [] OTHER -> d
  BY <1>1 DEF TimerIrq
<1>3. a # NoIrq /\ x.state = {"WORK"} => TimerIrq(c) = DataBit(d)
  BY <1>2
<1>4. a # NoIrq /\ x.state = {"STOP_CHECK"} => TimerIrq(c) = StopBit(d)
  BY <1>2
<1>5. a # NoIrq /\ x.state = {"WAIT", "DONE_CHECK"} => TimerIrq(c) = DoneCheck(d)
  BY <1>2
<1>6. a # NoIrq /\ x.state = {"WAIT"} => TimerIrq(c) = d
  BY <1>2
<1> QED
  BY <1>2, <1>3, <1>4, <1>5, <1>6 DEF c, d

LEMMA DataBitIs ==
  ASSUME NEW st, NEW k, NEW b, NEW dc, NEW n, NEW g, NEW t, NEW sl, NEW wr
  PROVE  DataBit(Ctx(Rx(st, k, b, dc, n), g, t, sl, wr))
           = Ctx(Rx(AfterBit(st, k), NextBit(k), WithBit(b, k), dc, n), g, t, sl, wr)
<1> DEFINE c == Ctx(Rx(st, k, b, dc, n), g, t, sl, wr)
<1>1. c.rx.state = st /\ c.rx.bit_num = k /\ c.rx.temp_byte = b
  BY Reads
<1>2. DataBit(c) = PutState(PutBit(PutByte(c, WithBit(b, k)), NextBit(k)), AfterBit(st, k))
  <2> HIDE DEF c
  <2> QED
    BY <1>1, DataBitPuts
<1> QED
  BY <1>2, PutRx

LEMMA HandlerIs ==
  ASSUME NEW st, NEW k, NEW b, NEW dc, NEW n, NEW g, NEW t, NEW sl, NEW wr, wr - r < Num
  PROVE  RxHandler(Ctx(Rx(st, k, b, dc, n), g, t, sl, wr))
           = Ctx(Rx(st, k, b, dc, 0), g, t, Ended(sl, wr, n), wr + 1)
<1> DEFINE c == Ctx(Rx(st, k, b, dc, n), g, t, sl, wr)
<1>1. c.w = wr /\ c.r = r /\ c.slots = sl /\ c.rx.data_count = n
  BY Reads
<1>2. RxHandler(c) = PutCount(PutW(PutSlots(c, Ended(sl, wr, n)), wr + 1), 0)
  <2> HIDE DEF c
  <2> QED
    BY <1>1, HandlerPuts
<1>3. PutW(PutSlots(c, Ended(sl, wr, n)), wr + 1)
          = Ctx(Rx(st, k, b, dc, n), g, t, Ended(sl, wr, n), wr + 1)
  BY PutCtx
<1> QED
  BY <1>2, <1>3, PutRx

LEMMA KeepIs ==
  ASSUME NEW st, NEW k, NEW b, NEW dc, NEW n \in Nat, NEW g, NEW t, NEW sl, NEW wr, wr - r < Num,
         SoftUartAssumption
  PROVE  /\ n + 1 < DataSize => Keep(Ctx(Rx(st, k, b, dc, n), g, t, sl, wr))
                                  = Ctx(Rx(st, k, Clear, dc, n + 1), g, t, Kept(sl, wr, n, b), wr)
         /\ n + 1 >= DataSize =>
              Keep(Ctx(Rx(st, k, b, dc, n), g, t, sl, wr))
                = Ctx(Rx(st, k, Clear, dc, 0), g, t, Ended(Kept(sl, wr, n, b), wr, n + 1), wr + 1)
<1> DEFINE c == Ctx(Rx(st, k, b, dc, n), g, t, sl, wr)
           tl == Kept(sl, wr, n, b)
           d == Ctx(Rx(st, k, Clear, dc, n + 1), g, t, tl, wr)
<1>1. c.w = wr /\ c.slots = sl /\ c.rx.data_count = n /\ c.rx.temp_byte = b
  BY Reads
<1>2. PutCount(PutByte(PutSlots(c, tl), Clear), n + 1) = d
  <2> HIDE DEF tl
  <2>1. PutSlots(c, tl) = Ctx(Rx(st, k, b, dc, n), g, t, tl, wr)
    BY PutCtx
  <2> QED
    BY <2>1, PutRx
<1>3. Keep(c) = IF n + 1 >= DataSize THEN RxHandler(d) ELSE d
  <2> HIDE DEF c, d
  <2> QED
    BY <1>1, <1>2, KeepPuts
<1>4. RxHandler(d) = Ctx(Rx(st, k, Clear, dc, 0), g, t, Ended(tl, wr, n + 1), wr + 1)
  BY HandlerIs
<1>5. DataSize \in Nat
  BY Constants
<1> HIDE DEF c, d
<1>6. n + 1 < DataSize => Keep(c) = d
  BY <1>3, <1>5
<1>7. n + 1 >= DataSize => Keep(c) = RxHandler(d)
  BY <1>3, <1>5
<1> QED
  BY <1>4, <1>6, <1>7 DEF c, d

LEMMA StopBitIs ==
  ASSUME NEW st, NEW k, NEW b, NEW dc, NEW n \in Nat, NEW g, NEW t, NEW sl, NEW wr, wr - r < Num,
         SoftUartAssumption, Level = 1
  PROVE  /\ n + 1 < DataSize =>
              StopBit(Ctx(Rx(st, k, b, dc, n), g, t, sl, wr))
                = Ctx(Rx(AfterStop(st), k, Clear, dc, n + 1), PinOn, t, Kept(sl, wr, n, b), wr)
         /\ n + 1 >= DataSize =>
              StopBit(Ctx(Rx(st, k, b, dc, n), g, t, sl, wr))
                = Ctx(Rx(AfterStop(st), k, Clear, dc, 0), PinOn, t,
                    Ended(Kept(sl, wr, n, b), wr, n + 1), wr + 1)
<1> DEFINE c == Ctx(Rx(st, k, b, dc, n), g, t, sl, wr)
<1>1. StopBit(c) = PutGpio(PutState(Keep(c), AfterStop(Keep(c).rx.state)), PinOn)
  <2> HIDE DEF c
  <2> QED
    BY StopBitPuts
<1>2. ASSUME NEW m, NEW tl, NEW v, Keep(c) = Ctx(Rx(st, k, Clear, dc, m), g, t, tl, v)
      PROVE  StopBit(c) = Ctx(Rx(AfterStop(st), k, Clear, dc, m), PinOn, t, tl, v)
  <2>1. Keep(c).rx.state = st
    <3> HIDE DEF c
    <3> QED
      BY <1>2, Reads
  <2>2. StopBit(c) = PutGpio(PutState(Ctx(Rx(st, k, Clear, dc, m), g, t, tl, v), AfterStop(st)),
            PinOn)
    BY <1>1, <1>2, <2>1
  <2> QED
    BY <2>2, PutCtx, PutRx
<1>3. n + 1 < DataSize =>
        StopBit(c) = Ctx(Rx(AfterStop(st), k, Clear, dc, n + 1), PinOn, t, Kept(sl, wr, n, b), wr)
  BY <1>2, KeepIs
<1>4. n + 1 >= DataSize =>
        StopBit(c) = Ctx(Rx(AfterStop(st), k, Clear, dc, 0), PinOn, t,
            Ended(Kept(sl, wr, n, b), wr, n + 1), wr + 1)
  BY <1>2, KeepIs
<1> QED
  BY <1>3, <1>4

LEMMA DoneCheckIs ==
  ASSUME NEW st, NEW k, NEW b, NEW dc, NEW n, NEW g, NEW t, NEW sl, NEW wr, wr - r < Num
  PROVE  /\ dc + 1 < UART_RECE_DONE_NUM =>
              DoneCheck(Ctx(Rx(st, k, b, dc, n), g, t, sl, wr))
                  = Ctx(Rx(st, k, b, dc + 1, n), g, t, sl, wr)
         /\ ~ (dc + 1 < UART_RECE_DONE_NUM) /\ ~ (n > 0) =>
              DoneCheck(Ctx(Rx(st, k, b, dc, n), g, t, sl, wr))
                = Ctx(Rx(AfterDone(st), k, b, dc + 1, n), g, Clock(Off, NoIrq), sl, wr)
         /\ ~ (dc + 1 < UART_RECE_DONE_NUM) /\ n > 0 =>
              DoneCheck(Ctx(Rx(st, k, b, dc, n), g, t, sl, wr))
                = Ctx(Rx(AfterDone(st), k, b, dc + 1, 0), g, Clock(Off, NoIrq), Ended(sl, wr, n),
                    wr + 1)
<1> DEFINE c == Ctx(Rx(st, k, b, dc, n), g, t, sl, wr)
           d == Ctx(Rx(AfterDone(st), k, b, dc + 1, n), g, Clock(Off, NoIrq), sl, wr)
<1>1. c.rx.done_count = dc /\ c.rx.data_count = n /\ c.rx.state = st
  BY Reads
<1>2. PutDone(c, dc + 1) = Ctx(Rx(st, k, b, dc + 1, n), g, t, sl, wr)
  BY PutRx
<1>3. PutState(PutTimer(PutDone(c, dc + 1), Clock(Off, NoIrq)), AfterDone(st)) = d
  <2>1. PutTimer(PutDone(c, dc + 1), Clock(Off, NoIrq))
            = Ctx(Rx(st, k, b, dc + 1, n), g, Clock(Off, NoIrq), sl, wr)
    BY <1>2, PutCtx
  <2> QED
    BY <2>1, PutRx
<1>4. RxHandler(d) = Ctx(Rx(AfterDone(st), k, b, dc + 1, 0), g, Clock(Off, NoIrq),
          Ended(sl, wr, n), wr + 1)
  BY HandlerIs
<1> HIDE DEF c, d
<1>5. DoneCheck(c) = IF dc + 1 < UART_RECE_DONE_NUM THEN Ctx(Rx(st, k, b, dc + 1, n), g, t, sl, wr)
                     ELSE IF n > 0 THEN RxHandler(d) ELSE d
  BY <1>1, <1>2, <1>3, DoneCheckPuts
<1> QED
  BY <1>4, <1>5 DEF c, d

\* What an interrupt leaves is what its handler makes.
LEMMA IrqIs ==
  ASSUME SoftUartAssumption, LineInv, Irq, NEW x, NEW g, NEW t, NEW sl, NEW wr,
         TimerIrq(GpioIrq(Ctx(Rx(rx.state, rx.bit_num, rx.temp_byte, rx.done_count, rx.data_count),
                              Pin(gpio.en, gpio.age), Clock(timer.left, timer.age), slots, w)))
           = Ctx(x, g, t, sl, wr)
  PROVE  rx' = x /\ gpio' = g /\ timer' = t /\ slots' = sl /\ w' = wr
<1> DEFINE c == Ctx(x, g, t, sl, wr)
<1>1. rx' = c.rx /\ gpio' = c.gpio /\ timer' = c.timer /\ slots' = c.slots /\ w' = c.w
  <2>1. TimerIrq(GpioIrq([rx |-> rx, gpio |-> gpio, timer |-> timer, slots |-> slots, w |-> w,
            r |-> r])) = c
    BY Contexts
  <2> HIDE DEF c
  <2> QED
    BY <2>1 DEF Irq
<1>2. c.rx = x /\ c.gpio = g /\ c.timer = t /\ c.slots = sl /\ c.w = wr
  BY DEF Ctx
<1> QED
  BY <1>1, <1>2

\* The line is not an interrupt's to change.
LEMMA IrqKeeps ==
  ASSUME SoftUartAssumption, LineInv, Irq
  PROVE  /\ WireInv' /\ LastSent' = LastSent /\ Place' = Place /\ Gone' = Gone
         /\ wire' = wire /\ sent' = sent /\ r' = r /\ taken' = taken
BY DEF Irq, LineInv, WireInv, LastSent, Place, Gone

\* The interrupt of a start bit starts the samples.
LEMMA IrqStart ==
  ASSUME SoftUartAssumption, InTime, LineInv, Irq, gpio.age # NoIrq
  PROVE  /\ LineInv' /\ Waiting /\ gpio'.age = NoIrq /\ timer'.age = NoIrq /\ rx'.state = {"WORK"}
         /\ rx'.data_count = rx.data_count /\ slots' = slots /\ w' = w
<1>1. Waiting
  BY DEF LineInv, Working, Stopping, Switched
<1>2. wire # <<>> /\ Place = 0 /\ Gone = gpio.age /\ WireInv
  BY <1>1 DEF Waiting, LineInv
<1>3. Level = 0
  BY <1>2, LevelIs DEF BitAt
<1> DEFINE x == Rx({"WORK"}, 0, Clear, 0, rx.data_count)
           p == PinOff
           t == Clock(Q, NoIrq)
<1>4. "WAIT" \in rx.state /\ (rx.state \ {"DONE_CHECK", "WAIT"}) \cup {"WORK"} = {"WORK"}
  BY <1>1 DEF Waiting
<1>5. GpioIrq(Ctx(Rx(rx.state, rx.bit_num, rx.temp_byte, rx.done_count, rx.data_count),
                  Pin(gpio.en, gpio.age), Clock(timer.left, timer.age), slots, w))
                      = Ctx(x, p, t, slots, w)
  <2> DEFINE st == rx.state
             l == Clock(timer.left, timer.age)
             a == gpio.age
             e == gpio.en
             n == rx.data_count
             c == Ctx(Rx(st, rx.bit_num, rx.temp_byte, rx.done_count, n), Pin(e, a), l, slots, w)
  <2>1. a # NoIrq /\ Level = 0 /\ "WAIT" \in st /\ AfterStart(st) = {"WORK"}
    BY <1>3, <1>4 DEF AfterStart
  <2> HIDE DEF st, l, a, e, n
  <2>2. GpioIrq(c) = Ctx(Rx(AfterStart(st), 0, Clear, 0, n), PinOff, Clock(Q, NoIrq), slots, w)
    BY <2>1, GpioIrqStart
  <2> QED
    BY <2>1, <2>2 DEF st, l, a, e, n
<1>6. TimerIrq(Ctx(x, p, t, slots, w)) = Ctx(x, p, t, slots, w)
  <2> HIDE DEF x, p
  <2> QED
    BY TimerIrqIs
<1>7. rx' = x /\ gpio' = p /\ timer' = t /\ slots' = slots /\ w' = w
  <2> HIDE DEF x, p, t
  <2> QED
    BY <1>5, <1>6, IrqIs
<1>8. /\ rx'.state = {"WORK"} /\ rx'.bit_num = 0 /\ rx'.done_count = 0
      /\ rx'.data_count = rx.data_count
      /\ rx' = [state |-> {"WORK"}, bit_num |-> 0, temp_byte |-> Clear, done_count |-> 0,
             data_count |-> rx.data_count]
  BY <1>7 DEF Rx
<1>9. gpio' = [en |-> FALSE, age |-> NoIrq] /\ timer' = [left |-> Q, age |-> NoIrq]
  BY <1>7 DEF PinOff, Clock
<1>10. ~ gpio'.en /\ gpio'.age = NoIrq /\ timer'.left = Q /\ timer'.age = NoIrq
  BY <1>9
<1>11. RxType'
  <2>1. Clear \in Byte /\ 0 \in 0 .. Bits - 1 /\ 0 \in 0 .. UART_RECE_DONE_NUM
            /\ rx.data_count \in Nat
        /\ NoIrq \in NoIrq .. Latency /\ Q \in {Off} \cup 1 .. Q
    BY ByteFacts, Constants, LineFacts, SMTT(40) DEF UART_RECE_DONE_NUM, NoIrq
  <2> QED
    BY <1>8, <1>9, <2>1 DEF RxType
<1>12. Working'
  <2>1. gpio.age \in 0 .. Latency /\ Q \in Nat /\ Q # Off /\ gpio.age + Q - Q = gpio.age
    BY LineFacts, Constants, SMTT(40) DEF NoIrq, Off
  <2>2. wire' # <<>> /\ Place' = 0 /\ Gone' = gpio.age
    BY <1>2, IrqKeeps
  <2>3. Sampling(rx.bit_num)'
    BY <1>8, <1>10, <2>1, <2>2 DEF Sampling
  <2> QED
    BY <1>8, <1>10, <2>1, <2>2, <2>3 DEF Working
<1> QED
  BY <1>1, <1>7, <1>8, <1>10, <1>11, <1>12, IrqKeeps DEF LineInv

\* The bit sampled is the one of its place.
LEMMA IrqBit ==
  ASSUME SoftUartAssumption, InTime, LineInv, Irq, Working
  PROVE  /\ LineInv' /\ gpio'.age = NoIrq /\ timer'.age = NoIrq
         /\ rx'.state \in {{"WORK"}, {"STOP_CHECK"}}
         /\ rx'.data_count = rx.data_count /\ slots' = slots /\ w' = w
<1> DEFINE k == rx.bit_num
           b == rx.temp_byte
           b2 == WithBit(b, k)
<1>1. gpio.age = NoIrq /\ timer.age # NoIrq
  BY DEF Working, Irq
<1>2. k \in 0 .. Bits - 1 /\ Bits \in Nat /\ b \in Byte /\ k + 1 \in 1 .. Bits
  BY LineFacts, Constants, SMTT(40)
<1>3. Place = k + 1 /\ Gone - timer.age \in 0 .. Latency /\ timer.left = Q - timer.age
  BY <1>1 DEF Working, Sampling
<1>4. Level = LastSent[k + 1] /\ LastSent \in Byte /\ Level \in {0, 1}
  <2>1. Level = BitAt(LastSent, k + 1) /\ LastSent \in Byte
    BY <1>3, LevelIs DEF Working, LineInv
  <2> QED
    BY <1>2, <2>1, ByteFacts DEF BitAt
<1> DEFINE s2 == AfterBit(rx.state, k)
           k2 == NextBit(k)
           x == Rx(s2, k2, b2, rx.done_count, rx.data_count)
           t == Clock(timer.left, NoIrq)
           p == Pin(gpio.en, gpio.age)
           y == Rx(rx.state, k, b, rx.done_count, rx.data_count)
           c == Ctx(y, p, Clock(timer.left, timer.age), slots, w)
<1>5. GpioIrq(c) = c
  BY <1>1, GpioIrqNone
<1>6. TimerIrq(c) = DataBit(Ctx(y, p, t, slots, w))
  <2>1. y.state = {"WORK"}
    BY DEF Working, Rx
  <2> HIDE DEF y, p
  <2> QED
    BY <1>1, <2>1, TimerIrqIs
<1>7. DataBit(Ctx(y, p, t, slots, w)) = Ctx(x, p, t, slots, w)
  <2> HIDE DEF p, t, k, b
  <2> QED
    BY DataBitIs
<1>8. rx' = x /\ gpio' = p /\ timer' = t /\ slots' = slots /\ w' = w
  <2>1. TimerIrq(GpioIrq(c)) = Ctx(x, p, t, slots, w)
    BY <1>5, <1>6, <1>7
  <2>2. TimerIrq(GpioIrq(Ctx(Rx(rx.state, rx.bit_num, rx.temp_byte, rx.done_count, rx.data_count),
                              Pin(gpio.en, gpio.age), Clock(timer.left, timer.age), slots, w)))
          = Ctx(x, p, t, slots, w)
    BY <2>1
  <2> HIDE DEF x, p, t
  <2> QED
    BY <2>2, IrqIs, Zenon
<1>9. /\ b2 \in Byte /\ \A i \in 1 .. k + 1 : b2[i] = LastSent[i]
  <2>1. b \in [1 .. Bits -> {0, 1}] /\ \A i \in 1 .. k : b[i] = LastSent[i]
    BY <1>2 DEF Working, Byte
  <2>2. b2 \in [1 .. Bits -> {0, 1}] /\ b2[k + 1] = Level /\ \A i \in 1 .. Bits : i # k + 1
            => b2[i] = b[i]
    <3>1. b2 = [b EXCEPT ![k + 1] = Level]
      BY DEF WithBit
    <3> HIDE DEF k, b, b2
    <3> QED
      BY <1>2, <1>4, <2>1, <3>1
  <2>3. ASSUME NEW i \in 1 .. k + 1 PROVE b2[i] = LastSent[i]
    <3>1. i \in 1 .. Bits /\ (i # k + 1 => i \in 1 .. k)
      BY <1>2
    <3> HIDE DEF k, b, b2
    <3> QED
      BY <1>4, <2>1, <2>2, <3>1
  <2> QED
    BY <2>2, <2>3 DEF Byte
<1>10. /\ rx'.state = s2 /\ rx'.bit_num = k2 /\ rx'.temp_byte = b2 /\ rx'.done_count = 0
       /\ rx'.data_count = rx.data_count
       /\ rx' = [state |-> s2, bit_num |-> k2, temp_byte |-> b2, done_count |-> rx.done_count,
              data_count |-> rx.data_count]
  <2> HIDE DEF s2, k2, b2
  <2> QED
    BY <1>8 DEF Rx, Working
<1>11. /\ gpio' = gpio /\ timer' = [left |-> timer.left, age |-> NoIrq]
       /\ timer'.left = timer.left /\ timer'.age = NoIrq
  BY <1>8, Contexts DEF Clock
<1>12. s2 = (IF k + 1 = Bits THEN {"STOP_CHECK"} ELSE {"WORK"}) /\ k2 \in 0 .. Bits - 1
  <2>1. rx.state = {"WORK"}
    BY DEF Working
  <2>2. (rx.state \ {"WORK"}) \cup {"STOP_CHECK"} = {"STOP_CHECK"}
    BY <2>1
  <2>3. k + 1 = Bits => s2 = {"STOP_CHECK"} /\ k2 = 0
    BY <2>2 DEF AfterBit, NextBit
  <2>4. k + 1 # Bits => s2 = {"WORK"} /\ k2 = k + 1
    BY <2>1 DEF AfterBit, NextBit
  <2> HIDE DEF s2, k2
  <2> QED
    BY <1>2, <2>3, <2>4
<1>13. RxType'
  <2>1. NoIrq \in NoIrq .. Latency /\ timer.left \in {Off} \cup 1 .. Q /\ rx.data_count \in Nat
        /\ rx.done_count \in 0 .. UART_RECE_DONE_NUM
    BY LineFacts, Constants, SMTT(40) DEF NoIrq
  <2>4. s2 \in {{"STOP_CHECK"}, {"WORK"}}
    <3> HIDE DEF s2
    <3> QED
      BY <1>12
  <2>2. gpio' \in [en : BOOLEAN, age : NoIrq .. Latency]
    BY <1>11 DEF LineInv, RxType
  <2>3. timer' \in [left : {Off} \cup 1 .. Q, age : NoIrq .. Latency]
    BY <1>11, <2>1
  <2> HIDE DEF s2, k2, b2
  <2> QED
    BY <1>9, <1>10, <1>12, <2>1, <2>2, <2>3, <2>4 DEF RxType
<1>14. PICK n \in 1 .. Bits : n = k + 1
  BY <1>2
<1>15. wire' # <<>> /\ timer'.left # Off /\ Sampling(n)'
  <2>1. timer.age \in NoIrq .. Latency /\ Gone \in Int /\ Q \in Nat /\ timer.age \in Int
    BY LineFacts, Constants, SMTT(40) DEF NoIrq, Gone
  <2>2. Gone + timer.left - Q = Gone - timer.age
    BY <1>3, <2>1
  <2>3. wire' # <<>> /\ Place' = n /\ Gone' = Gone
    BY <1>3, <1>14, IrqKeeps DEF Working
  <2>4. Gone' + timer'.left - Q \in 0 .. Latency
    BY <1>3, <1>11, <2>2, <2>3
  <2>5. timer'.left # Off
    BY <1>11 DEF Working
  <2> QED
    BY <1>11, <2>3, <2>4, <2>5 DEF Sampling
<1>16. ~ gpio'.en /\ gpio'.age = NoIrq
  BY <1>11 DEF Working
<1>20. /\ n = Bits => rx'.state = {"STOP_CHECK"} /\ rx'.bit_num = 0
       /\ n # Bits => rx'.state = {"WORK"} /\ rx'.bit_num = n
  <2>1. /\ k + 1 = Bits => s2 = {"STOP_CHECK"} /\ k2 = 0
        /\ k + 1 # Bits => s2 = {"WORK"} /\ k2 = k + 1
    <3> HIDE DEF k, s2
    <3> QED
      BY <1>12 DEF NextBit
  <2> HIDE DEF s2, k2, k
  <2> QED
    BY <1>10, <1>14, <2>1
<1>17. LastSent' = LastSent
  BY IrqKeeps
<1>18. CASE n = Bits
  <2>1. rx'.state = {"STOP_CHECK"} /\ rx'.bit_num = 0
    BY <1>18, <1>20
  <2>2. rx'.temp_byte = LastSent'
    <3>1. b2 \in [1 .. Bits -> {0, 1}] /\ LastSent \in [1 .. Bits -> {0, 1}]
              /\ \A i \in 1 .. Bits : b2[i] = LastSent[i]
      BY <1>4, <1>9, <1>14, <1>18 DEF Byte
    <3>2. b2 = LastSent
      <4> DEFINE v == LastSent
                 D == 1 .. Bits
                 Z == {0, 1}
      <4>1. b2 \in [D -> Z] /\ v \in [D -> Z] /\ \A i \in D : b2[i] = v[i]
        BY <3>1
      <4> HIDE DEF b2, v, D, Z
      <4>2. b2 = v
        BY <4>1
      <4> QED
        BY <4>2 DEF v
    <3> QED
      BY <1>10, <1>17, <3>2
  <2>3. Sampling(Bits)'
    BY <1>15, <1>18
  <2>4. Stopping'
    BY <1>10, <1>15, <1>16, <2>1, <2>2, <2>3 DEF Stopping
  <2> QED
    BY <1>8, <1>10, <1>11, <1>13, <1>16, <2>1, <2>4, IrqKeeps DEF LineInv
<1>19. CASE n # Bits
  <2>1. rx'.state = {"WORK"} /\ rx'.bit_num = n
    BY <1>19, <1>20
  <2>2. Sampling(rx.bit_num)'
    BY <1>15, <2>1 DEF Sampling
  <2>3. \A i \in 1 .. rx'.bit_num : rx'.temp_byte[i] = LastSent'[i]
    BY <1>9, <1>10, <1>14, <1>17, <2>1
  <2>4. Working'
    BY <1>10, <1>15, <1>16, <2>1, <2>2, <2>3 DEF Working
  <2> QED
    BY <1>8, <1>10, <1>11, <1>13, <1>16, <2>1, <2>4, IrqKeeps DEF LineInv
<1> QED
  BY <1>18, <1>19

\* The stop bit keeps the byte, and the wait for the next one begins.
LEMMA IrqStop ==
  ASSUME SoftUartAssumption, InTime, LineInv, Irq, Stopping, w - r < Num
  PROVE  /\ LineInv' /\ gpio'.age = NoIrq /\ timer'.age = NoIrq
         /\ rx'.state = {"WAIT", "DONE_CHECK"}
         /\ IF rx.data_count + 1 < DataSize
            THEN /\ rx'.data_count = rx.data_count + 1 /\ w' = w
                 /\ slots' = Kept(slots, w, rx.data_count, rx.temp_byte)
            ELSE /\ rx'.data_count = 0 /\ w' = w + 1
                 /\ slots' = Ended(Kept(slots, w, rx.data_count, rx.temp_byte), w,
                        rx.data_count + 1)
<1> DEFINE n == rx.data_count
           b == rx.temp_byte
           dc == rx.done_count
<1>1. gpio.age = NoIrq /\ timer.age # NoIrq /\ rx.state = {"STOP_CHECK"} /\ rx.bit_num = 0 /\ dc = 0
  BY DEF Stopping, Irq
<1>2. Place = Bits + 1 /\ wire # <<>> /\ WireInv /\ Len(wire) = 1
  <2>1. Place = Bits + 1 /\ wire # <<>> /\ WireInv
    BY <1>1 DEF Stopping, Sampling, LineInv
  <2>2. Bits \in Nat /\ Len(wire) \in Nat
    BY LineFacts, Constants
  <2>3. Bits + 2 - Len(wire) = Bits + 1
    BY <2>1 DEF Place
  <2>4. Len(wire) = 1
    <3>1. \A i \in Nat, j \in Nat : i + 2 - j = i + 1 => j = 1
      OBVIOUS
    <3> QED
      BY <2>2, <2>3, <3>1, Zenon
  <2> QED
    BY <2>1, <2>4
<1>3. Level = 1
  <2>1. Bits + 1 # 0
    BY Constants
  <2> QED
    BY <1>2, <2>1, LevelIs DEF BitAt
<1>4. n \in Nat /\ DataSize \in Nat
  BY LineFacts, Constants
<1> DEFINE t == Clock(timer.left, NoIrq)
           p == Pin(gpio.en, gpio.age)
           y == Rx(rx.state, rx.bit_num, b, dc, n)
           c == Ctx(y, p, Clock(timer.left, timer.age), slots, w)
<1>5. GpioIrq(c) = c
  BY <1>1, GpioIrqNone
<1>6. TimerIrq(c) = StopBit(Ctx(y, p, t, slots, w))
  <2>1. y.state = {"STOP_CHECK"}
    BY <1>1 DEF Rx
  <2> HIDE DEF y, p
  <2> QED
    BY <1>1, <2>1, TimerIrqIs
<1>7. ASSUME NEW m \in Nat, NEW tl, NEW v,
             StopBit(Ctx(y, p, t, slots, w))
                 = Ctx(Rx(AfterStop(rx.state), rx.bit_num, Clear, dc, m), PinOn, t, tl, v)
      PROVE  /\ LineInv' /\ gpio'.age = NoIrq /\ timer'.age = NoIrq
             /\ rx'.state = {"WAIT", "DONE_CHECK"}
             /\ rx'.data_count = m /\ slots' = tl /\ w' = v
  <2> DEFINE x == Rx(AfterStop(rx.state), rx.bit_num, Clear, dc, m)
  <2>1. rx' = x /\ gpio' = PinOn /\ timer' = t /\ slots' = tl /\ w' = v
    <3>1. TimerIrq(GpioIrq(c)) = Ctx(x, PinOn, t, tl, v)
      BY <1>5, <1>6, <1>7
    <3>2. TimerIrq(GpioIrq(Ctx(Rx(rx.state, rx.bit_num, rx.temp_byte, rx.done_count, rx.data_count),
                               Pin(gpio.en, gpio.age), Clock(timer.left, timer.age), slots, w)))
            = Ctx(x, PinOn, t, tl, v)
      BY <3>1
    <3> HIDE DEF x, t
    <3> QED
      BY <3>2, IrqIs, Zenon
  <2>2. AfterStop(rx.state) = {"WAIT", "DONE_CHECK"}
    BY <1>1 DEF AfterStop
  <2>3. /\ rx'.state = {"WAIT", "DONE_CHECK"} /\ rx'.bit_num = 0 /\ rx'.done_count = 0
        /\ rx'.data_count = m
        /\ rx' = [state |-> {"WAIT", "DONE_CHECK"}, bit_num |-> 0, temp_byte |-> Clear,
               done_count |-> 0, data_count |-> m]
    BY <1>1, <2>1, <2>2 DEF Rx
  <2>4. /\ gpio' = [en |-> TRUE, age |-> NoIrq] /\ gpio'.en /\ gpio'.age = NoIrq
        /\ timer' = [left |-> timer.left, age |-> NoIrq] /\ timer'.age = NoIrq
    BY <2>1 DEF PinOn, Clock
  <2>5. RxType'
    <3>1. /\ Clear \in Byte /\ 0 \in 0 .. Bits - 1 /\ 0 \in 0 .. UART_RECE_DONE_NUM
          /\ NoIrq \in NoIrq .. Latency /\ timer.left \in {Off} \cup 1 .. Q
      BY ByteFacts, Constants, LineFacts, SMTT(40) DEF UART_RECE_DONE_NUM, NoIrq
    <3>2. rx' \in [state : {{"WAIT"}, {"WAIT", "DONE_CHECK"}, {"WORK"}, {"STOP_CHECK"}, {"DIS"}},
                   bit_num : 0 .. Bits - 1, temp_byte : Byte,
                   done_count : 0 .. UART_RECE_DONE_NUM, data_count : Nat]
      BY <2>3, <3>1
    <3>3. gpio' \in [en : BOOLEAN, age : NoIrq .. Latency]
              /\ timer' \in [left : {Off} \cup 1 .. Q, age : NoIrq .. Latency]
      BY <2>4, <3>1
    <3> QED
      BY <3>2, <3>3 DEF RxType
  <2>6. Len(wire') <= 1
    <3>1. wire' = wire
      BY IrqKeeps
    <3>2. Len(wire) <= 1
      BY <1>2
    <3> QED
      BY <3>1, <3>2
  <2>7. Waiting'
    BY <2>3, <2>4, <2>6 DEF Waiting, UART_RECE_DONE_NUM
  <2> QED
    BY <2>1, <2>3, <2>4, <2>5, <2>7, IrqKeeps DEF LineInv
<1> HIDE DEF p, t
<1>8. CASE n + 1 < DataSize
  <2>1. StopBit(Ctx(y, p, t, slots, w))
          = Ctx(Rx(AfterStop(rx.state), rx.bit_num, Clear, dc, n + 1), PinOn, t,
              Kept(slots, w, n, b), w)
    BY <1>3, <1>4, <1>8, StopBitIs
  <2>2. n + 1 \in Nat
    BY <1>4
  <2> HIDE DEF y, n, b, dc
  <2>3. /\ LineInv' /\ gpio'.age = NoIrq /\ timer'.age = NoIrq /\ rx'.state = {"WAIT", "DONE_CHECK"}
        /\ rx'.data_count = n + 1 /\ slots' = Kept(slots, w, n, b) /\ w' = w
    BY <1>7, <2>1, <2>2
  <2> QED
    BY <1>8, <2>3 DEF n, b
<1>9. CASE n + 1 >= DataSize
  <2>1. StopBit(Ctx(y, p, t, slots, w))
          = Ctx(Rx(AfterStop(rx.state), rx.bit_num, Clear, dc, 0), PinOn, t,
              Ended(Kept(slots, w, n, b), w, n + 1), w + 1)
    BY <1>3, <1>4, <1>9, StopBitIs
  <2> HIDE DEF y, n, b, dc
  <2>3. /\ LineInv' /\ gpio'.age = NoIrq /\ timer'.age = NoIrq /\ rx'.state = {"WAIT", "DONE_CHECK"}
        /\ rx'.data_count = 0 /\ slots' = Ended(Kept(slots, w, n, b), w, n + 1) /\ w' = w + 1
    BY <1>7, <2>1
  <2>4. ~ (n + 1 < DataSize)
    BY <1>4, <1>9
  <2> QED
    BY <2>3, <2>4 DEF n, b
<1> QED
  BY <1>4, <1>8, <1>9

\* While no byte comes the end of the packet is counted, and then the packet ends.
LEMMA IrqDone ==
  ASSUME SoftUartAssumption, InTime, LineInv, Irq, Waiting, gpio.age = NoIrq, w - r < Num
  PROVE  /\ LineInv' /\ gpio'.age = NoIrq /\ timer'.age = NoIrq
         /\ rx'.state \in {{"WAIT"}, {"WAIT", "DONE_CHECK"}}
         /\ \/ rx'.data_count = rx.data_count /\ slots' = slots /\ w' = w
            \/ rx'.data_count = 0 /\ slots' = Ended(slots, w, rx.data_count) /\ w' = w + 1
<1> DEFINE n == rx.data_count
           b == rx.temp_byte
           dc == rx.done_count
<1>1. timer.age # NoIrq /\ rx.state \in {{"WAIT"}, {"WAIT", "DONE_CHECK"}} /\ rx.bit_num = 0
      /\ gpio.en /\ Len(wire) <= 1
  BY DEF Waiting, Irq
<1>2. n \in Nat /\ dc \in 0 .. 3 /\ b \in Byte /\ UART_RECE_DONE_NUM = 3
          /\ ("DONE_CHECK" \in rx.state => dc < 3)
  BY LineFacts DEF UART_RECE_DONE_NUM, Waiting
<1> DEFINE t == Clock(timer.left, NoIrq)
           p == Pin(gpio.en, gpio.age)
           y == Rx(rx.state, rx.bit_num, b, dc, n)
           c == Ctx(y, p, Clock(timer.left, timer.age), slots, w)
           d == Ctx(y, p, t, slots, w)
<1>3. GpioIrq(c) = c
  BY GpioIrqNone
<1>4. ASSUME NEW st \in {{"WAIT"}, {"WAIT", "DONE_CHECK"}}, NEW f \in 0 .. 3, NEW m \in Nat,
             NEW l \in {Off} \cup 1 .. Q,
             NEW tl, NEW v, "DONE_CHECK" \in st => f < 3,
             TimerIrq(c) = Ctx(Rx(st, rx.bit_num, b, f, m), p, Clock(l, NoIrq), tl, v)
      PROVE  /\ LineInv' /\ gpio'.age = NoIrq /\ timer'.age = NoIrq /\ rx'.state = st
             /\ rx'.data_count = m /\ slots' = tl /\ w' = v
  <2> DEFINE x == Rx(st, rx.bit_num, b, f, m)
             t2 == Clock(l, NoIrq)
  <2>1. rx' = x /\ gpio' = p /\ timer' = t2 /\ slots' = tl /\ w' = v
    <3>1. TimerIrq(GpioIrq(c)) = Ctx(x, p, t2, tl, v)
      BY <1>3, <1>4
    <3>2. TimerIrq(GpioIrq(Ctx(Rx(rx.state, rx.bit_num, rx.temp_byte, rx.done_count, rx.data_count),
                               Pin(gpio.en, gpio.age), Clock(timer.left, timer.age), slots, w)))
            = Ctx(x, p, t2, tl, v)
      BY <3>1
    <3> HIDE DEF x, t2, p
    <3> QED
      BY <3>2, IrqIs, Zenon
  <2>2. /\ rx'.state = st /\ rx'.bit_num = 0 /\ rx'.done_count = f /\ rx'.data_count = m
        /\ rx' = [state |-> st, bit_num |-> 0, temp_byte |-> b, done_count |-> f, data_count |-> m]
    BY <1>1, <2>1 DEF Rx
  <2>3. gpio' = gpio /\ timer' = [left |-> l, age |-> NoIrq] /\ timer'.age = NoIrq
    BY <2>1, Contexts DEF Clock
  <2>4. RxType'
    <3>1. /\ b \in Byte /\ 0 \in 0 .. Bits - 1 /\ f \in 0 .. UART_RECE_DONE_NUM
          /\ NoIrq \in NoIrq .. Latency
      BY <1>2, Constants DEF NoIrq
    <3>2. rx' \in [state : {{"WAIT"}, {"WAIT", "DONE_CHECK"}, {"WORK"}, {"STOP_CHECK"}, {"DIS"}},
                   bit_num : 0 .. Bits - 1, temp_byte : Byte,
                   done_count : 0 .. UART_RECE_DONE_NUM, data_count : Nat]
      <4> HIDE DEF b
      <4> QED
        BY <2>2, <3>1
    <3>3. gpio' \in [en : BOOLEAN, age : NoIrq .. Latency]
      BY <2>3 DEF LineInv, RxType
    <3>4. timer' \in [left : {Off} \cup 1 .. Q, age : NoIrq .. Latency]
      BY <2>3, <3>1
    <3> QED
      BY <3>2, <3>3, <3>4 DEF RxType
  <2>5. Len(wire') <= 1
    BY <1>1, IrqKeeps
  <2>6. Waiting'
    <3>1. gpio'.en /\ gpio'.age = NoIrq
      BY <1>1, <2>3
    <3>2. rx'.state \in {{"WAIT"}, {"WAIT", "DONE_CHECK"}} /\ rx'.bit_num = 0
      BY <2>2
    <3>3. "DONE_CHECK" \in rx'.state => rx'.done_count < UART_RECE_DONE_NUM
      BY <1>2, <1>4, <2>2
    <3> QED
      BY <2>5, <3>1, <3>2, <3>3 DEF Waiting
  <2> QED
    BY <2>1, <2>2, <2>3, <2>4, <2>6, IrqKeeps DEF LineInv
<1>5. timer.left \in {Off} \cup 1 .. Q /\ Off \in {Off} \cup 1 .. Q
  BY LineFacts
<1>6. y.state = rx.state
  BY DEF Rx
<1>7. CASE rx.state = {"WAIT"}
  <2>1. TimerIrq(c) = d
    <3> HIDE DEF y, p
    <3> QED
      BY <1>1, <1>6, <1>7, TimerIrqIs
  <2>2. TimerIrq(c) = Ctx(Rx(rx.state, rx.bit_num, b, dc, n), p, Clock(timer.left, NoIrq), slots, w)
    BY <2>1
  <2> HIDE DEF c, p, b, dc, n
  <2> QED
    BY <1>1, <1>2, <1>4, <1>5, <1>7, <2>2 DEF n
<1>8. CASE rx.state = {"WAIT", "DONE_CHECK"}
  <2>1. TimerIrq(c) = DoneCheck(d)
    <3> HIDE DEF y, p
    <3> QED
      BY <1>1, <1>6, <1>8, TimerIrqIs
  <2>2. dc < 3 /\ dc + 1 \in 0 .. 3
    BY <1>2, <1>8
  <2>3. AfterDone(rx.state) = {"WAIT"}
    BY <1>8 DEF AfterDone
  <2>4. CASE dc + 1 < UART_RECE_DONE_NUM
    <3>1. DoneCheck(d) = Ctx(Rx(rx.state, rx.bit_num, b, dc + 1, n), p, t, slots, w)
      <4> HIDE DEF p, t
      <4> QED
        BY <2>4, DoneCheckIs
    <3>2. TimerIrq(c) = Ctx(Rx(rx.state, rx.bit_num, b, dc + 1, n), p, Clock(timer.left, NoIrq),
              slots, w)
      BY <2>1, <3>1
    <3>3. dc + 1 < 3
      BY <1>2, <2>4
    <3> HIDE DEF c, d, p, b, dc, n, t
    <3>5. PICK f \in 0 .. 3 : f = dc + 1
      BY <2>2
    <3>6. TimerIrq(c) = Ctx(Rx(rx.state, rx.bit_num, b, f, n), p, Clock(timer.left, NoIrq), slots,
              w) /\ f < 3
      BY <3>2, <3>3, <3>5
    <3>4. LineInv' /\ gpio'.age = NoIrq /\ timer'.age = NoIrq /\ rx'.state = rx.state
          /\ rx'.data_count = n /\ slots' = slots /\ w' = w
      <4>1. PICK st \in {{"WAIT"}, {"WAIT", "DONE_CHECK"}} : st = rx.state
        BY <1>1
      <4>2. PICK l \in {Off} \cup 1 .. Q : l = timer.left
        BY <1>5
      <4>3. TimerIrq(c) = Ctx(Rx(st, rx.bit_num, b, f, n), p, Clock(l, NoIrq), slots, w)
        BY <3>6, <4>1, <4>2
      <4>4. n \in Nat /\ f < 3
        BY <1>2, <3>6
      <4> HIDE <4>1
      <4>5. LineInv' /\ gpio'.age = NoIrq /\ timer'.age = NoIrq /\ rx'.state = st
            /\ rx'.data_count = n /\ slots' = slots /\ w' = w
        BY <1>4, <4>3, <4>4, ZenonT(60)
      <4> QED
        BY <4>1, <4>5
    <3> QED
      BY <1>1, <3>4 DEF n
  <2>5. CASE ~ (dc + 1 < UART_RECE_DONE_NUM) /\ ~ (n > 0)
    <3>1. DoneCheck(d) = Ctx(Rx(AfterDone(rx.state), rx.bit_num, b, dc + 1, n), p,
              Clock(Off, NoIrq), slots, w)
      <4> HIDE DEF p, t
      <4> QED
        BY <2>5, DoneCheckIs
    <3>2. TimerIrq(c) = Ctx(Rx({"WAIT"}, rx.bit_num, b, dc + 1, n), p, Clock(Off, NoIrq), slots, w)
      BY <2>1, <2>3, <3>1
    <3> HIDE DEF c, d, p, b, dc, n, t
    <3> QED
      BY <1>1, <1>2, <1>4, <1>5, <2>2, <3>2 DEF n
  <2>6. CASE ~ (dc + 1 < UART_RECE_DONE_NUM) /\ n > 0
    <3>1. DoneCheck(d) = Ctx(Rx(AfterDone(rx.state), rx.bit_num, b, dc + 1, 0), p,
              Clock(Off, NoIrq), Ended(slots, w, n), w + 1)
      <4> HIDE DEF p, t
      <4> QED
        BY <2>6, DoneCheckIs
    <3>2. TimerIrq(c) = Ctx(Rx({"WAIT"}, rx.bit_num, b, dc + 1, 0), p, Clock(Off, NoIrq),
              Ended(slots, w, n), w + 1)
      BY <2>1, <2>3, <3>1
    <3> HIDE DEF c, d, p, b, dc, n, t
    <3> QED
      BY <1>1, <1>2, <1>4, <1>5, <2>2, <3>2 DEF n
  <2> QED
    BY <2>4, <2>5, <2>6
<1> QED
  BY <1>1, <1>7, <1>8

-----------------------------------------------------------------------------
(***************************************************************************)
(* The steps, in the buffers.                                              *)
(***************************************************************************)
LEMMA AppendFacts ==
  ASSUME NEW S, NEW s \in Seq(S), NEW e \in S
  PROVE  /\ Append(s, e) \in Seq(S) /\ Len(Append(s, e)) = Len(s) + 1
         /\ Append(s, e)[Len(s) + 1] = e
         /\ \A i \in 1 .. Len(s) : Append(s, e)[i] = s[i]
OBVIOUS

LEMMA ReplaceFacts ==
  ASSUME NEW S, NEW s \in Seq(S), NEW e \in S, NEW j \in 1 .. Len(s)
  PROVE  /\ ReplaceAt(s, j, e) \in Seq(S) /\ Len(ReplaceAt(s, j, e)) = Len(s)
         /\ ReplaceAt(s, j, e)[j] = e
         /\ \A i \in 1 .. Len(s) : i # j => ReplaceAt(s, j, e)[i] = s[i]
<1>1. ReplaceAt(s, j, e) = [s EXCEPT ![j] = e]
  BY DEF ReplaceAt
<1> DEFINE t == [s EXCEPT ![j] = e]
<1>2. t \in Seq(S) /\ Len(t) = Len(s) /\ t[j] = e /\ \A i \in 1 .. Len(s) : i # j => t[i] = s[i]
  OBVIOUS
<1> QED
  BY <1>1, <1>2

\* The buffer a byte more is in.
LEMMA KeptFacts ==
  ASSUME SoftUartAssumption, NEW sl, NEW wr, NEW rd, NEW n, Ring(sl, wr, rd, n), n < DataSize,
         NEW b \in Byte
  PROVE  /\ Kept(sl, wr, n, b) \in Slots
         /\ \A i \in 0 .. Num - 1 : i # Index(wr) => Kept(sl, wr, n, b)[i] = sl[i]
         /\ n + 1 <= Len(Kept(sl, wr, n, b)[Index(wr)].data)
         /\ Kept(sl, wr, n, b)[Index(wr)].data[n + 1] = b
         /\ \A i \in 1 .. n : Kept(sl, wr, n, b)[Index(wr)].data[i] = sl[Index(wr)].data[i]
         /\ \A i \in 0 .. Num - 1 : Len(Kept(sl, wr, n, b)[i].data) <= DataSize
<1> DEFINE k == Index(wr)
           s == sl[k].data
           t == IF n < Len(s) THEN ReplaceAt(s, n + 1, b) ELSE Append(s, b)
           V == Seq(Byte)
           tl == Kept(sl, wr, n, b)
<1>1. /\ wr \in Nat /\ n \in Nat /\ sl \in Slots /\ n <= Len(s) /\ k \in 0 .. Num - 1
      /\ DataSize \in Nat
      /\ \A i \in 0 .. Num - 1 : Len(sl[i].data) <= DataSize
  BY IndexFacts, Constants DEF Ring
<1>2. s \in V /\ Len(s) \in Nat /\ Len(s) <= DataSize
  BY <1>1, SlotFacts
<1>3. /\ t \in V /\ n + 1 <= Len(t) /\ t[n + 1] = b /\ Len(t) <= DataSize
      /\ \A i \in 1 .. n : t[i] = s[i]
  <2>1. CASE n < Len(s)
    <3>1. n + 1 \in 1 .. Len(s) /\ \A i \in 1 .. n : i \in 1 .. Len(s) /\ i # n + 1
      BY <1>1, <1>2, <2>1
    <3> DEFINE u == ReplaceAt(s, n + 1, b)
    <3>2. /\ u \in V /\ Len(u) = Len(s) /\ u[n + 1] = b
          /\ \A i \in 1 .. Len(s) : i # n + 1 => u[i] = s[i]
      <4> HIDE DEF s
      <4> QED
        BY <1>2, <3>1, ReplaceFacts
    <3>3. t = u
      BY <2>1
    <3> HIDE DEF t, u, s, V
    <3> QED
      BY <1>1, <1>2, <3>1, <3>2, <3>3
  <2>2. CASE ~ (n < Len(s))
    <3>1. n = Len(s)
      BY <1>1, <1>2, <2>2
    <3> DEFINE u == Append(s, b)
    <3>2. /\ u \in V /\ Len(u) = Len(s) + 1 /\ u[Len(s) + 1] = b
          /\ \A i \in 1 .. Len(s) : u[i] = s[i]
      <4> HIDE DEF s
      <4> QED
        BY <1>2, AppendFacts
    <3>3. t = u
      BY <2>2
    <3> HIDE DEF t, u, s, V
    <3> QED
      BY <1>1, <1>2, <3>1, <3>2, <3>3
  <2> QED
    BY <2>1, <2>2
<1> DEFINE e == [sl[k] EXCEPT !.data = t]
<1>4. sl \in [0 .. Num - 1 -> [len : Nat, data : V]] /\ sl[k] \in [len : Nat, data : V]
  BY <1>1 DEF Slots
<1>5. e \in [len : Nat, data : V] /\ e.data = t
  <2> HIDE DEF t, k, V
  <2> QED
    BY <1>3, <1>4
<1>6. tl = [sl EXCEPT ![k] = e]
  <2>1. tl = [sl EXCEPT ![k].data = t]
    BY DEF Kept
  <2> HIDE DEF tl, t, k
  <2> QED
    BY <2>1
<1> HIDE DEF tl, e, t, k, V
<1>7. /\ tl \in [0 .. Num - 1 -> [len : Nat, data : V]] /\ tl[k] = e
      /\ \A i \in 0 .. Num - 1 : i # k => tl[i] = sl[i]
  BY <1>1, <1>4, <1>5, <1>6
<1>8. ASSUME NEW i \in 0 .. Num - 1 PROVE Len(tl[i].data) <= DataSize
  BY <1>1, <1>3, <1>5, <1>7
<1>9. tl \in Slots
  BY <1>7 DEF Slots, V
<1> QED
  BY <1>3, <1>5, <1>7, <1>8, <1>9 DEF k, tl

\* A packet that ends, with the length it is given.
LEMMA EndedHeld ==
  ASSUME SoftUartAssumption, NEW sl, NEW wr, NEW rd, NEW n, Ring(sl, wr, rd, n), wr - rd < Num,
         NEW v, v = wr + 1, NEW z, z = 0
  PROVE  Ring(Ended(sl, wr, n), v, rd, z)
             /\ HeldAt(Ended(sl, wr, n), v, rd, z) = HeldAt(sl, wr, rd, n)
<1> DEFINE tl == [sl EXCEPT ![Index(wr)].len = n]
<1>1. Ring(tl, wr + 1, rd, 0) /\ HeldAt(tl, wr + 1, rd, 0) = HeldAt(sl, wr, rd, n)
  BY HandlerHeld
<1>2. Ended(sl, wr, n) = tl
  BY DEF Ended
<1> HIDE DEF tl
<1> QED
  BY <1>1, <1>2

LEMMA DataFacts ==
  ASSUME SoftUartAssumption, DataInv
  PROVE  /\ Ring(slots, w, r, rx.data_count) /\ rx.data_count < DataSize /\ rx.data_count \in Nat
         /\ w \in Nat /\ r \in Nat /\ r <= w /\ w - r <= Num
         /\ taken \in Seq(Byte) /\ HeldAt(slots, w, r, rx.data_count) \in Seq(Byte)
         /\ taken \o HeldAt(slots, w, r, rx.data_count) = Complete
BY HeldType DEF DataInv, Ring

\* What is sent is complete when its stop bit was sampled.
LEMMA LastByte ==
  ASSUME NEW S, NEW s \in Seq(S), NEW e \in S
  PROVE  /\ SubSeq(Append(s, e), 1, Len(Append(s, e)) - 1) = s
         /\ s # <<>> => Append(SubSeq(s, 1, Len(s) - 1), s[Len(s)]) = s
<1>1. SubSeq(Append(s, e), 1, Len(Append(s, e)) - 1) = s
  <2> DEFINE t == Append(s, e)
             m == Len(s)
  <2>1. t \in Seq(S) /\ Len(t) = m + 1 /\ m \in Nat /\ \A i \in 1 .. m : t[i] = s[i]
    BY AppendFacts
  <2>2. m \in 0 .. Len(t) /\ Len(t) - 1 = m
    BY <2>1
  <2> HIDE DEF t
  <2>3. SubSeq(t, 1, m) \in Seq(S) /\ Len(SubSeq(t, 1, m)) = m
            /\ \A i \in 1 .. m : SubSeq(t, 1, m)[i] = t[i]
    BY <2>1, <2>2, SubSeqFacts
  <2> DEFINE u == SubSeq(t, 1, m)
  <2>4. u \in Seq(S) /\ Len(u) = Len(s) /\ \A i \in 1 .. Len(s) : u[i] = s[i]
    BY <2>1, <2>3
  <2> HIDE DEF u
  <2>5. u = s
    BY <2>4
  <2> QED
    BY <2>2, <2>5 DEF t, u
<1>2. ASSUME s # <<>> PROVE Append(SubSeq(s, 1, Len(s) - 1), s[Len(s)]) = s
  <2> DEFINE m == Len(s) - 1
             u == SubSeq(s, 1, m)
             x == s[Len(s)]
  <2>1. Len(s) \in Nat /\ Len(s) # 0
    BY <1>2
  <2>2. m \in Nat /\ m \in 0 .. Len(s) /\ Len(s) \in 1 .. Len(s) /\ Len(s) = m + 1
    BY <2>1
  <2> HIDE DEF m
  <2>3. u \in Seq(S) /\ Len(u) = m /\ \A i \in 1 .. m : u[i] = s[i]
    BY <2>2, SubSeqFacts
  <2>4. x \in S
    BY <2>2
  <2> HIDE DEF u, x
  <2> DEFINE v == Append(u, x)
  <2>5. v \in Seq(S) /\ Len(v) = m + 1 /\ v[m + 1] = x /\ \A i \in 1 .. m : v[i] = u[i]
    BY <2>3, <2>4, AppendFacts
  <2> HIDE DEF v
  <2>6. ASSUME NEW i \in 1 .. m + 1 PROVE v[i] = s[i]
    <3>1. i = m + 1 \/ i \in 1 .. m
      BY <2>2
    <3>2. x = s[m + 1]
      BY <2>2 DEF x
    <3> QED
      BY <2>3, <2>5, <3>1, <3>2
  <2>7. v = s
    BY <2>2, <2>5, <2>6
  <2> QED
    BY <2>7 DEF v, u, x, m
<1> QED
  BY <1>1, <1>2

LEMMA JoinAppend ==
  ASSUME NEW S, NEW a \in Seq(S), NEW b \in Seq(S), NEW e \in S
  PROVE  a \o Append(b, e) = Append(a \o b, e)
OBVIOUS

\* A byte is sent: what was sent before is complete.
LEMMA SendData ==
  ASSUME SoftUartAssumption, IInv, NEW b \in Byte, Send(b)
  PROVE  DataInv'
<1>1. /\ LineInv' /\ gpio.age = NoIrq /\ Waiting /\ gpio'.age = 0 /\ sent' = Append(sent, b)
      /\ sent \in Seq(Byte)
  BY SendLine DEF IInv
<1>2. rx' = rx /\ timer' = timer /\ slots' = slots /\ w' = w /\ r' = r /\ taken' = taken
  BY DEF Send
<1>3. ~ Receiving /\ Receiving'
  <2>1. 0 # NoIrq
    BY DEF NoIrq
  <2>2. Receiving'
    BY <1>1, <2>1 DEF Receiving
  <2>3. ~ Receiving
    BY <1>1 DEF Receiving, Waiting
  <2> QED
    BY <2>2, <2>3
<1>4. Complete' = sent /\ Complete = sent
  <2>1. SubSeq(sent', 1, Len(sent') - 1) = sent
    BY <1>1, LastByte
  <2> QED
    BY <1>3, <2>1 DEF Complete
<1> QED
  BY <1>2, <1>4 DEF IInv, DataInv

\* Time changes no buffer, and no packet ends while the ring is full.
LEMMA TickData ==
  ASSUME SoftUartAssumption, InTime, IInv, Tick, Prompt => w - r < Num
  PROVE  DataInv'
<1>1. gpio'.age = NoIrq <=> gpio.age = NoIrq
  BY TickLine DEF IInv
<1>2. rx' = rx /\ slots' = slots /\ w' = w /\ r' = r /\ sent' = sent /\ taken' = taken
  BY DEF Tick
<1>3. Complete' = Complete
  BY <1>1, <1>2 DEF Complete, Receiving
<1>4. w - r # Num
  <2>1. w - r < Num /\ w \in Nat /\ r \in Nat
    BY DataFacts DEF InTime, IInv
  <2> QED
    BY <2>1, Constants
<1> QED
  BY <1>2, <1>3, <1>4 DEF IInv, DataInv

\* What the application takes leaves the ring at its front.
LEMMA TakeData ==
  ASSUME SoftUartAssumption, IInv, Take
  PROVE  DataInv' /\ LineInv'
<1> DEFINE n == rx.data_count
           p == PacketAt(slots, r)
           h == HeldAt(slots, w, r, n)
           g == HeldAt(slots, w, r + 1, n)
<1>1. /\ w # r /\ taken' = taken \o SubSeq(slots[Index(r)].data, 1, slots[Index(r)].len)
      /\ r' = r + 1
      /\ wire' = wire /\ left' = left /\ rx' = rx /\ gpio' = gpio /\ timer' = timer
      /\ slots' = slots /\ w' = w
      /\ sent' = sent
  BY DEF Take
<1>2. /\ Ring(slots, w, r, n) /\ n < DataSize /\ w \in Nat /\ r \in Nat /\ r <= w /\ w - r <= Num
      /\ taken \in Seq(Byte) /\ taken \o h = Complete
  BY DataFacts DEF IInv
<1>3. r < w
  BY <1>1, <1>2
<1>4. Ring(slots, w, r + 1, n) /\ p \in Seq(Byte) /\ g \in Seq(Byte) /\ h = p \o g
  BY <1>2, <1>3, TakeHeld
<1>5. taken' = taken \o p
  BY <1>1 DEF PacketAt
<1>6. taken' \in Seq(Byte) /\ taken' \o g = taken \o h
  <2> HIDE DEF p, g, h
  <2>1. taken \o (p \o g) = (taken \o p) \o g /\ taken \o p \in Seq(Byte)
    <3> DEFINE q == taken
    <3>1. q \in Seq(Byte)
      BY <1>2
    <3> HIDE DEF q
    <3>2. q \o (p \o g) = (q \o p) \o g /\ q \o p \in Seq(Byte)
      BY <1>4, <3>1, JoinAssoc, SMTT(30)
    <3> QED
      BY <3>2 DEF q
  <2> QED
    BY <1>4, <1>5, <2>1
<1>7. Complete' = Complete
  BY <1>1 DEF Complete, Receiving
<1>8. w' - r' # Num
  BY <1>1, <1>2, Constants
<1>9. DataInv'
  <2>1. HeldAt(slots, w, r, rx.data_count)' = g /\ Ring(slots, w, r, rx.data_count)'
    BY <1>1, <1>4
  <2> QED
    BY <1>1, <1>2, <1>6, <1>7, <1>8, <2>1 DEF DataInv
<1>10. LineInv'
  BY <1>1 DEF IInv, LineInv, WireInv, RxType, LastSent, Place, Gone, Sampling, Waiting, Working,
       Stopping, Switched
<1> QED
  BY <1>9, <1>10

\* Off or on, the receiver keeps what it holds.
LEMMA SwitchData ==
  ASSUME SoftUartAssumption, IInv, soft_uart_dis \/ soft_uart_en
  PROVE  DataInv'
<1>1. CASE soft_uart_dis
  <2>1. Waiting /\ gpio.age = NoIrq /\ rx'.state = {"DIS"} /\ rx'.data_count = rx.data_count
    BY <1>1, DisLine DEF IInv
  <2>2. slots' = slots /\ w' = w /\ r' = r /\ sent' = sent /\ taken' = taken
        /\ gpio' = [en |-> FALSE, age |-> NoIrq] /\ timer' = [left |-> Off, age |-> NoIrq]
    BY <1>1 DEF soft_uart_dis
  <2>3. gpio'.age = NoIrq /\ timer'.age = NoIrq
    BY <2>2
  <2>4. Complete' = sent /\ Complete = sent
    BY <2>1, <2>2, <2>3 DEF Complete, Receiving, Waiting
  <2> QED
    BY <2>1, <2>2, <2>3, <2>4 DEF IInv, DataInv
<1>2. CASE soft_uart_en
  <2>1. Switched /\ gpio'.age = NoIrq /\ rx'.state = {"WAIT"} /\ rx'.data_count = rx.data_count
            /\ timer'.age = NoIrq
    BY <1>2, EnLine DEF IInv
  <2>2. slots' = slots /\ w' = w /\ r' = r /\ sent' = sent /\ taken' = taken
    BY <1>2 DEF soft_uart_en
  <2>3. rx.state = {"DIS"} /\ gpio.age = NoIrq
    BY <2>1 DEF Switched
  <2>4. Complete' = sent /\ Complete = sent
    BY <2>1, <2>2, <2>3 DEF Complete, Receiving
  <2> QED
    BY <2>1, <2>2, <2>4 DEF IInv, DataInv
<1> QED
  BY <1>1, <1>2

\* The interrupts, case by case.
LEMMA IrqData ==
  ASSUME SoftUartAssumption, InTime, IInv, Irq
  PROVE  LineInv' /\ DataInv'
<1> DEFINE n == rx.data_count
           h == HeldAt(slots, w, r, n)
<1>0. LineInv /\ DataInv
  BY DEF IInv
<1>1. /\ Ring(slots, w, r, n) /\ n < DataSize /\ n \in Nat /\ w \in Nat /\ r \in Nat /\ r <= w
      /\ w - r <= Num
      /\ taken \in Seq(Byte) /\ h \in Seq(Byte) /\ taken \o h = Complete
  BY <1>0, DataFacts
<1>2. r' = r /\ taken' = taken /\ sent' = sent
  BY DEF Irq
<1>3. timer.age # NoIrq => w - r < Num
  <2>1. w - r = Num => timer.age = NoIrq
    BY <1>0 DEF DataInv
  <2>2. w \in Nat /\ r \in Nat /\ w - r <= Num /\ Num \in Nat
    BY <1>1, Constants
  <2> QED
    BY <2>1, <2>2
<1>4. ASSUME Complete' = Complete, timer'.age = NoIrq, rx'.data_count = n, slots' = slots, w' = w
      PROVE  DataInv'
  BY <1>1, <1>2, <1>4 DEF DataInv
<1>5. CASE gpio.age # NoIrq
  <2>1. /\ LineInv' /\ Waiting /\ gpio'.age = NoIrq /\ timer'.age = NoIrq /\ rx'.state = {"WORK"}
        /\ rx'.data_count = n /\ slots' = slots /\ w' = w
    BY <1>0, <1>5, IrqStart
  <2>2. Complete' = Complete
    BY <1>2, <1>5, <2>1 DEF Complete, Receiving
  <2> QED
    BY <1>4, <2>1, <2>2
<1>6. CASE Working
  <2>1. /\ LineInv' /\ gpio'.age = NoIrq /\ timer'.age = NoIrq
        /\ rx'.state \in {{"WORK"}, {"STOP_CHECK"}}
        /\ rx'.data_count = n /\ slots' = slots /\ w' = w
    BY <1>0, <1>6, IrqBit
  <2>2. Complete' = Complete
    BY <1>2, <1>6, <2>1 DEF Complete, Receiving, Working
  <2> QED
    BY <1>4, <2>1, <2>2
<1>7. CASE Stopping
  <2>0. w - r < Num
    BY <1>3, <1>7 DEF Irq, Stopping
  <2> DEFINE b == rx.temp_byte
             tl == Kept(slots, w, n, b)
  <2>1. /\ LineInv' /\ gpio'.age = NoIrq /\ timer'.age = NoIrq /\ rx'.state = {"WAIT", "DONE_CHECK"}
        /\ IF n + 1 < DataSize
           THEN rx'.data_count = n + 1 /\ w' = w /\ slots' = tl
           ELSE rx'.data_count = 0 /\ w' = w + 1 /\ slots' = Ended(tl, w, n + 1)
    BY <1>0, <1>7, <2>0, IrqStop
  <2>2. b \in Byte /\ b = LastSent /\ sent \in Seq(Byte) /\ sent # <<>>
    BY <1>0, <1>7 DEF Stopping, LineInv, WireInv, RxType
  <2>3. Complete = SubSeq(sent, 1, Len(sent) - 1) /\ Complete' = sent
    BY <1>2, <1>7, <2>1 DEF Complete, Receiving, Stopping
  <2>4. Append(Complete, b) = sent
    BY <2>2, <2>3, LastByte DEF LastSent
  <2>5. Ring(tl, w, r, n + 1) /\ HeldAt(tl, w, r, n + 1) = Append(h, b)
    <3> HIDE DEF b
    <3>1. /\ tl \in Slots /\ b \in Byte
          /\ \A i \in 0 .. Num - 1 : i # Index(w) => tl[i] = slots[i]
          /\ n + 1 <= Len(tl[Index(w)].data) /\ tl[Index(w)].data[n + 1] = b
          /\ \A i \in 1 .. n : tl[Index(w)].data[i] = slots[Index(w)].data[i]
          /\ \A i \in 0 .. Num - 1 : Len(tl[i].data) <= DataSize
      BY <1>1, <2>2, KeptFacts, SMTT(40)
    <3>2. Ring(slots, w, r, n) /\ HeldAt(slots, w, r, n) = h
      BY <1>1
    <3> HIDE DEF n, tl, h
    <3>3. Ring(tl, w, r, n + 1) /\ HeldAt(tl, w, r, n + 1) = Append(HeldAt(slots, w, r, n), b)
      BY <2>0, <3>1, <3>2, KeepHeld, SMTT(30)
    <3> QED
      BY <3>2, <3>3
  <2>6. taken \o Append(h, b) = sent
    <3>1. taken \o Append(h, b) = Append(taken \o h, b)
      <4> HIDE DEF h, b
      <4> QED
        BY <1>1, <2>2, JoinAppend, SMTT(30)
    <3> QED
      BY <1>1, <2>4, <3>1
  <2>7. CASE n + 1 < DataSize
    <3>1. rx'.data_count = n + 1 /\ w' = w /\ slots' = tl
      BY <2>1, <2>7
    <3>2. HeldAt(slots, w, r, rx.data_count)' = Append(h, b) /\ Ring(slots, w, r, rx.data_count)'
      BY <1>2, <2>5, <3>1
    <3> QED
      BY <1>1, <1>2, <2>1, <2>3, <2>6, <2>7, <3>1, <3>2 DEF DataInv
  <2>8. CASE ~ (n + 1 < DataSize)
    <3>1. rx'.data_count = 0 /\ w' = w + 1 /\ slots' = Ended(tl, w, n + 1)
      BY <2>1, <2>8
    <3>2. Ring(Ended(tl, w, n + 1), w + 1, r, 0)
              /\ HeldAt(Ended(tl, w, n + 1), w + 1, r, 0) = Append(h, b)
      <4> DEFINE m == n + 1
      <4>1. Ring(tl, w, r, m) /\ HeldAt(tl, w, r, m) = Append(h, b)
        BY <2>5
      <4> HIDE DEF m, tl, h, b
      <4>2. Ring(Ended(tl, w, m), w + 1, r, 0)
                /\ HeldAt(Ended(tl, w, m), w + 1, r, 0) = HeldAt(tl, w, r, m)
        BY <2>0, <4>1, EndedHeld, SMTT(30)
      <4> QED
        BY <4>1, <4>2 DEF m
    <3>3. HeldAt(slots, w, r, rx.data_count)' = Append(h, b) /\ Ring(slots, w, r, rx.data_count)'
      BY <1>2, <3>1, <3>2
    <3>4. 0 < DataSize
      BY Constants
    <3> QED
      BY <1>1, <1>2, <2>1, <2>3, <2>6, <3>1, <3>3, <3>4 DEF DataInv
  <2> QED
    BY <2>1, <2>7, <2>8
<1>8. CASE Waiting /\ gpio.age = NoIrq
  <2>0. w - r < Num
    BY <1>3, <1>8 DEF Irq
  <2>1. /\ LineInv' /\ gpio'.age = NoIrq /\ timer'.age = NoIrq
        /\ rx'.state \in {{"WAIT"}, {"WAIT", "DONE_CHECK"}}
        /\ \/ rx'.data_count = n /\ slots' = slots /\ w' = w
           \/ rx'.data_count = 0 /\ slots' = Ended(slots, w, n) /\ w' = w + 1
    BY <1>0, <1>8, <2>0, IrqDone
  <2>2. Complete' = Complete
    BY <1>2, <1>8, <2>1 DEF Complete, Receiving, Waiting
  <2>3. CASE rx'.data_count = n /\ slots' = slots /\ w' = w
    BY <1>4, <2>1, <2>2, <2>3
  <2>4. CASE rx'.data_count = 0 /\ slots' = Ended(slots, w, n) /\ w' = w + 1
    <3>1. Ring(Ended(slots, w, n), w + 1, r, 0) /\ HeldAt(Ended(slots, w, n), w + 1, r, 0) = h
      <4>1. Ring(slots, w, r, n) /\ h = HeldAt(slots, w, r, n)
        BY <1>1
      <4> HIDE DEF n, h
      <4>2. Ring(Ended(slots, w, n), w + 1, r, 0)
            /\ HeldAt(Ended(slots, w, n), w + 1, r, 0) = HeldAt(slots, w, r, n)
        BY <2>0, <4>1, EndedHeld, SMTT(30)
      <4> QED
        BY <4>1, <4>2
    <3>2. HeldAt(slots, w, r, rx.data_count)' = h /\ Ring(slots, w, r, rx.data_count)'
      BY <1>2, <2>4, <3>1
    <3>3. 0 < DataSize
      BY Constants
    <3> QED
      BY <1>1, <1>2, <2>1, <2>2, <2>4, <3>2, <3>3 DEF DataInv
  <2> QED
    BY <2>1, <2>3, <2>4
<1>9. ~ Switched
  BY DEF Irq, Switched
<1> QED
  BY <1>0, <1>5, <1>6, <1>7, <1>8, <1>9 DEF LineInv

-----------------------------------------------------------------------------
(***************************************************************************)
(* The theorems.                                                           *)
(***************************************************************************)
LEMMA InitIInv ==
  ASSUME SoftUartAssumption, Init
  PROVE  IInv
<1>1. /\ wire = <<>> /\ left = 0 /\ rx = [state |-> {"WAIT"}, bit_num |-> 0, temp_byte |-> Clear,
             done_count |-> 0,
                                         data_count |-> 0]
      /\ gpio = [en |-> TRUE, age |-> NoIrq] /\ timer = [left |-> Off, age |-> NoIrq]
      /\ slots = [i \in 0 .. (Num - 1) |-> [len |-> 0, data |-> <<>>]]
      /\ w = 0 /\ r = 0 /\ sent = <<>> /\ taken = <<>>
  BY DEF Init
<1>2. /\ rx.state = {"WAIT"} /\ rx.bit_num = 0 /\ rx.data_count = 0 /\ gpio.en
      /\ gpio.age = NoIrq /\ timer.age = NoIrq
  BY <1>1
<1>3. /\ Clear \in Byte /\ 0 \in 0 .. Bits - 1 /\ 0 \in 0 .. UART_RECE_DONE_NUM
      /\ NoIrq \in NoIrq .. Latency
      /\ 0 \in 0 .. Q /\ 0 <= MaxBytes /\ 0 < DataSize /\ 0 <= DataSize /\ Num \in Nat /\ Num >= 1
  BY ByteFacts, Constants DEF UART_RECE_DONE_NUM, NoIrq
<1>4. RxType
  BY <1>1, <1>3 DEF RxType
<1>5. WireInv
  BY <1>1, <1>3 DEF WireInv
<1>6. Waiting
  BY <1>1, <1>2 DEF Waiting
<1>7. slots \in Slots /\ \A i \in 0 .. Num - 1 : Len(slots[i].data) = 0
  BY <1>1 DEF Slots
<1>8. Ring(slots, w, r, rx.data_count)
  <2>1. Index(0) \in 0 .. Num - 1
    BY IndexFacts
  <2>2. rx.data_count <= Len(slots[Index(w)].data)
    BY <1>1, <1>2, <1>7, <2>1
  <2>3. \A i \in r .. w - 1 : FALSE
    BY <1>1
  <2>4. \A i \in 0 .. Num - 1 : Len(slots[i].data) <= DataSize
    BY <1>3, <1>7
  <2> QED
    BY <1>1, <1>2, <1>3, <1>7, <2>2, <2>3, <2>4 DEF Ring
<1>9. HeldAt(slots, w, r, rx.data_count) = <<>>
  <2> DEFINE P == PacketsAt(slots, w, r)
             f == FilledAt(slots, w, rx.data_count)
  <2>1. /\ P \in Seq(Seq(Byte)) /\ Len(P) = w - r /\ f \in Seq(Byte) /\ Len(f) = rx.data_count
    BY <1>8, HeldType
  <2> HIDE DEF P, f
  <2>2. P = <<>> /\ f = <<>>
    <3>1. Len(P) = 0 /\ Len(f) = 0
      BY <1>1, <1>2, <2>1
    <3> QED
      BY <2>1, <3>1
  <2>3. FlattenSeq(<<>>) = <<>>
    <3> DEFINE e == <<>>
               hh == [i \in 0 .. 0 |-> <<>>]
    <3>1. e \in Seq(Seq(Byte)) /\ Len(e) = 0 /\ hh \in [0 .. Len(e) -> Seq(Byte)] /\ hh[0] = <<>>
      OBVIOUS
    <3> HIDE DEF e, hh
    <3>2. Joins(hh, e)
      BY <3>1 DEF Joins
    <3>3. FlattenSeq(e) = hh[Len(e)]
      BY <3>1, <3>2, FlattenIs
    <3> QED
      BY <3>1, <3>3 DEF e
  <2>4. HeldAt(slots, w, r, rx.data_count) = FlattenSeq(P) \o f
    BY DEF HeldAt, P, f
  <2> QED
    BY <2>2, <2>3, <2>4
<1>10. Complete = <<>>
  BY <1>1, <1>2 DEF Complete, Receiving
<1>11. DataInv
  <2>1. <<>> \in Seq(Byte) /\ <<>> \o <<>> = <<>>
    OBVIOUS
  <2>2. w - r # Num
    BY <1>1, <1>3
  <2> QED
    BY <1>1, <1>2, <1>3, <1>8, <1>9, <1>10, <2>1, <2>2 DEF DataInv
<1> QED
  BY <1>4, <1>5, <1>6, <1>11 DEF IInv, LineInv

LEMMA NextIInv ==
  ASSUME SoftUartAssumption, InTime, IInv, [Next]_vars
  PROVE  IInv'
<1>1. LineInv
  BY DEF IInv
<1>2. ASSUME NEW b \in Byte, Send(b) PROVE IInv'
  BY <1>1, <1>2, SendLine, SendData DEF IInv
<1>3. CASE Tick /\ (Prompt => w - r < Num)
  BY <1>1, <1>3, TickLine, TickData DEF IInv
<1>4. CASE Irq
  BY <1>4, IrqData DEF IInv
<1>5. CASE Take
  BY <1>5, TakeData DEF IInv
<1>6. CASE soft_uart_dis
  BY <1>1, <1>6, DisLine, SwitchData DEF IInv
<1>7. CASE soft_uart_en
  BY <1>1, <1>7, EnLine, SwitchData DEF IInv
<1>8. CASE UNCHANGED vars
  <2>1. /\ wire' = wire /\ left' = left /\ rx' = rx /\ gpio' = gpio /\ timer' = timer
        /\ slots' = slots /\ w' = w /\ r' = r
        /\ sent' = sent /\ taken' = taken
    BY <1>8 DEF vars
  <2>2. LineInv'
    BY <1>1, <2>1 DEF LineInv, WireInv, RxType, LastSent, Place, Gone, Sampling, Waiting, Working,
         Stopping, Switched
  <2>3. Complete' = Complete
    BY <2>1 DEF Complete, Receiving
  <2>4. DataInv'
    BY <2>1, <2>3 DEF IInv, DataInv
  <2> QED
    BY <2>2, <2>4 DEF IInv
<1> QED
  BY <1>2, <1>3, <1>4, <1>5, <1>6, <1>7, <1>8 DEF Next

\* A sequence is a prefix of itself, and of itself with one more.
LEMMA PrefixFacts ==
  ASSUME NEW S, NEW s \in Seq(S)
  PROVE  /\ IsPrefix(s, s)
         /\ s # <<>> => IsPrefix(SubSeq(s, 1, Len(s) - 1), s)
                /\ Len(SubSeq(s, 1, Len(s) - 1)) <= Len(s)
<1>1. IsPrefix(s, s)
  BY DEF IsPrefix
<1>2. ASSUME s # <<>>
      PROVE  IsPrefix(SubSeq(s, 1, Len(s) - 1), s) /\ Len(SubSeq(s, 1, Len(s) - 1)) <= Len(s)
  <2> DEFINE m == Len(s) - 1
             u == SubSeq(s, 1, m)
  <2>1. m \in 0 .. Len(s) /\ m \in Nat
    BY <1>2
  <2> HIDE DEF m
  <2>2. u \in Seq(S) /\ Len(u) = m /\ \A i \in 1 .. m : u[i] = s[i]
    BY <2>1, SubSeqFacts
  <2> HIDE DEF u
  <2>3. SubSeq(u, 1, m) = u
    BY <2>1, <2>2
  <2>4. Len(u) <= Len(s) /\ SubSeq(u, 1, Len(u)) = SubSeq(s, 1, Len(u))
    BY <2>1, <2>2, <2>3 DEF u
  <2>5. IsPrefix(u, s)
    BY <2>4 DEF IsPrefix
  <2> QED
    BY <2>4, <2>5 DEF u, m
<1> QED
  BY <1>1, <1>2

LEMMA JoinLen ==
  ASSUME NEW S, NEW a \in Seq(S), NEW b \in Seq(S)
  PROVE  a \o b \in Seq(S) /\ Len(a \o b) = Len(a) + Len(b) /\ Len(a) \in Nat /\ Len(b) \in Nat
OBVIOUS

LEMMA CompleteFacts ==
  ASSUME SoftUartAssumption, LineInv
  PROVE  IsPrefix(Complete, sent) /\ Len(Complete) <= Len(sent) /\ Complete \in Seq(Byte)
<1>1. sent \in Seq(Byte) /\ Len(sent) \in Nat
  BY LineFacts
<1>2. CASE Receiving
  <2>1. sent # <<>>
    <3>1. wire # <<>>
      <4>1. CASE Waiting
        BY <1>2, <4>1 DEF Receiving, Waiting
      <4>2. CASE Working
        BY <4>2 DEF Working
      <4>3. CASE Stopping
        BY <4>3 DEF Stopping
      <4>4. ~ Switched
        BY <1>2 DEF Receiving, Switched
      <4> QED
        BY <4>1, <4>2, <4>3, <4>4 DEF LineInv
    <3> QED
      BY <3>1 DEF LineInv, WireInv
  <2>2. Complete = SubSeq(sent, 1, Len(sent) - 1)
    BY <1>2 DEF Complete
  <2>3. Len(sent) - 1 \in 0 .. Len(sent)
    BY <1>1, <2>1
  <2>4. SubSeq(sent, 1, Len(sent) - 1) \in Seq(Byte)
    BY <1>1, <2>3, SubSeqFacts
  <2>5. IsPrefix(SubSeq(sent, 1, Len(sent) - 1), sent)
            /\ Len(SubSeq(sent, 1, Len(sent) - 1)) <= Len(sent)
    BY <1>1, <2>1, PrefixFacts
  <2> QED
    BY <2>2, <2>4, <2>5
<1>3. CASE ~ Receiving
  BY <1>1, <1>3, PrefixFacts DEF Complete
<1> QED
  BY <1>2, <1>3

LEMMA HeldIs == Held = HeldAt(slots, w, r, rx.data_count)
BY DEF Held, HeldAt, PacketsAt, FilledAt, PacketAt

LEMMA IInvBytes ==
  ASSUME SoftUartAssumption, IInv
  PROVE  BytesAsSent
<1>1. taken \o Held = Complete
  BY HeldIs DEF IInv, DataInv
<1>2. IsPrefix(Complete, sent)
  BY CompleteFacts DEF IInv
<1>3. ASSUME rx.state \cap {"WORK", "STOP_CHECK"} = {}, gpio.age = NoIrq PROVE Complete = sent
  <2>1. ~ Receiving
    BY <1>3 DEF Receiving
  <2> QED
    BY <2>1 DEF Complete
<1> QED
  BY <1>1, <1>2, <1>3 DEF BytesAsSent

LEMMA IInvType ==
  ASSUME SoftUartAssumption, IInv
  PROVE  TypeOK
<1> DEFINE n == rx.data_count
           h == HeldAt(slots, w, r, n)
           a == FlattenSeq(PacketsAt(slots, w, r))
           f == FilledAt(slots, w, n)
<1>1. LineInv /\ DataInv
  BY DEF IInv
<1>2. n <= MaxBytes
  <2>1. /\ Ring(slots, w, r, n) /\ n \in Nat /\ taken \in Seq(Byte) /\ taken \o h = Complete
    BY <1>1, DataFacts
  <2>2. a \in Seq(Byte) /\ f \in Seq(Byte) /\ Len(f) = n /\ h = a \o f
    BY <2>1, HeldType DEF HeldAt
  <2>3. Len(Complete) <= Len(sent) /\ Len(sent) <= MaxBytes /\ Len(sent) \in Nat
            /\ Complete \in Seq(Byte)
    BY <1>1, CompleteFacts, LineFacts DEF LineInv, WireInv
  <2>4. Len(taken \o (a \o f)) >= n
    <3> DEFINE q == taken
    <3>1. q \in Seq(Byte)
      BY <2>1
    <3> HIDE DEF a, f, n, q
    <3>2. Len(q \o (a \o f)) = Len(q) + (Len(a) + Len(f)) /\ Len(q) \in Nat /\ Len(a) \in Nat
      <4>1. a \o f \in Seq(Byte) /\ Len(a \o f) = Len(a) + Len(f) /\ Len(a) \in Nat
        BY <2>2, JoinLen
      <4> DEFINE g == a \o f
      <4> HIDE DEF g
      <4>2. g \in Seq(Byte) => Len(q \o g) = Len(q) + Len(g) /\ Len(q) \in Nat
        BY <3>1, JoinLen
      <4> QED
        BY <4>1, <4>2 DEF g
    <3>3. Len(q \o (a \o f)) >= n
      BY <2>1, <2>2, <3>2
    <3> QED
      BY <3>3 DEF q
  <2>5. Len(Complete) >= n
    <3> HIDE DEF a, f, n, h
    <3> QED
      BY <2>1, <2>2, <2>4
  <2>6. Len(Complete) \in Nat
    BY <2>3
  <2> HIDE DEF n
  <2> QED
    BY <2>1, <2>3, <2>5, <2>6, Constants
<1>3. n \in 0 .. MaxBytes /\ w \in Nat /\ r \in 0 .. w /\ w - r <= Num
  BY <1>1, <1>2, DataFacts, Constants
<1>4. rx.state \subseteq {"WAIT", "WORK", "STOP_CHECK", "DONE_CHECK", "DIS"}
  BY <1>1 DEF LineInv, RxType
<1> QED
  BY <1>1, <1>3, <1>4, LineFacts DEF TypeOK, LineInv, WireInv, RxType

LEMMA IInvWrites ==
  ASSUME SoftUartAssumption, IInv
  PROVE  WritesInBuffer
BY DEF IInv, DataInv, Ring, Slots, WritesInBuffer

\* The invariant holds always: the line and its samples stay within the same bit,
\* and the buffers hold what was sampled.
THEOREM AlwaysIInv ==
  ASSUME SoftUartAssumption, InTime
  PROVE  Spec => []IInv
<1>1. Init => IInv
  BY InitIInv
<1>2. IInv /\ [Next]_vars => IInv'
  BY NextIInv
<1> QED
  BY <1>1, <1>2, PTL DEF Spec

\* The variables keep their types, and the buffer in use counts no more bytes than
\* were sent.
THEOREM TypeCorrect ==
  ASSUME SoftUartAssumption, InTime
  PROVE  Spec => []TypeOK
<1>1. IInv => TypeOK
  BY IInvType
<1> QED
  BY <1>1, AlwaysIInv, PTL

\* soft_uart_irq_handler receives every byte as it was sent, once and in order: what
\* the application took and what the ring and the buffer in use hold are what was
\* sent, up to a byte whose stop bit is to be sampled.
THEOREM BytesKept ==
  ASSUME SoftUartAssumption, InTime
  PROVE  Spec => []BytesAsSent
<1>1. IInv => BytesAsSent
  BY IInvBytes
<1> QED
  BY <1>1, AlwaysIInv, PTL

\* While the main loop takes packets before the ring is full, no byte is written
\* outside the receiving buffer.
THEOREM WritesWhenPrompt ==
  ASSUME SoftUartAssumption, InTime
  PROVE  Spec => []WritesInBuffer
<1>1. IInv => WritesInBuffer
  BY IInvWrites
<1> QED
  BY <1>1, AlwaysIInv, PTL

-----------------------------------------------------------------------------
(***************************************************************************)
(* The UART of the BLE module.                                             *)
(***************************************************************************)
CONSTANTS Wrap, RxNum, TxNum, Ahead, MaxCmds, MaxEvents
VARIABLES
  spp_rx, spp_rxSlot, spp_tx, spp_txSlot, spp_uart, spp_loop, spp_pm, spp_pin,
  spp_sent, spp_handled, spp_queued, spp_out

Spp == INSTANCE SppUart WITH
  rx <- spp_rx, rxSlot <- spp_rxSlot, tx <- spp_tx, txSlot <- spp_txSlot,
  uart <- spp_uart, loop <- spp_loop, pm <- spp_pm, pin <- spp_pin,
  sent <- spp_sent, handled <- spp_handled, queued <- spp_queued,
  out <- spp_out

\* The MCU has no more commands on their way than the receive ring has slots, and
\* the pointers count further than the rings have slots.
SppUartRoom == Ahead < RxNum /\ RxNum < Wrap /\ TxNum < Wrap

\* Commands received whole, and events the transmitter has taken.
Received == IF spp_uart.in = Spp!Nothing THEN spp_sent ELSE spp_sent - 1
Taken == Len(spp_out) + Len(spp_uart.out)

\* The ring of num slots after put entries were put into it and got were taken out.
RingAfter(num, put, got) == [num |-> num, wptr |-> put % Wrap, rptr |-> got % Wrap]

\* Idle, or at work on the command after the last one handled.
LoopStates(h) ==
  {[slot |-> Spp!NoSlot, cmd |-> Spp!Nothing], [slot |-> h % RxNum, cmd |-> h + 1]}

\* The commands not handled yet lie in their slots; no slot is filled again before.
CommandInv ==
  /\ spp_sent \in 0 .. MaxCmds
  /\ spp_handled \in Seq(Int) /\ \A i \in 1 .. Len(spp_handled) : spp_handled[i] = i
  /\ spp_uart.in \in {Spp!Nothing, spp_sent}
  /\ Len(spp_handled) <= Received /\ spp_sent - Len(spp_handled) <= Ahead + 1
  /\ spp_rx = RingAfter(RxNum, Received, Len(spp_handled))
  /\ spp_rxSlot \in [0 .. RxNum - 1 -> {Spp!Torn, Spp!Nothing} \cup 1 .. MaxCmds]
  /\ \A k \in Len(spp_handled) .. Received - 1 : spp_rxSlot[k % RxNum] = k + 1
  /\ spp_loop \in LoopStates(Len(spp_handled))
  /\ spp_loop.slot # Spp!NoSlot => Len(spp_handled) < Received

\* The events not sent yet lie in their slots; what went out is what was queued.
EventInv ==
  /\ spp_queued \in Seq(Int) /\ spp_out \in Seq(Int)
  /\ spp_uart \in [in : Int, out : Seq(Int), isUartTxDone : BOOLEAN]
  /\ Len(spp_uart.out) <= 1 /\ (spp_uart.isUartTxDone <=> Len(spp_uart.out) = 0)
  /\ Taken <= Len(spp_queued) /\ Len(spp_queued) - Taken <= TxNum
  /\ spp_tx = RingAfter(TxNum, Len(spp_queued), Taken)
  /\ spp_txSlot \in [0 .. TxNum - 1 -> Int]
  /\ \A k \in Taken .. Len(spp_queued) - 1 : spp_txSlot[k % TxNum] = spp_queued[k + 1]
  /\ \A i \in 1 .. Len(spp_out) : spp_out[i] = spp_queued[i]
  /\ \A i \in 1 .. Len(spp_uart.out) : spp_uart.out[i] = spp_queued[Len(spp_out) + i]

\* A pin keeps each side awake while it has something to do.
PowerInv ==
  /\ spp_pm \in [suspend : BOOLEAN, tick_wakeup : BOOLEAN, data_flg : BOOLEAN, asleep : BOOLEAN]
  /\ spp_pin \in [mcu : BOOLEAN, pull : BOOLEAN, wakeup_mcu : BOOLEAN]
  /\ spp_uart.in # Spp!Nothing => spp_pin.mcu
  /\ Len(spp_out) # Len(spp_queued) => spp_pm.data_flg
  /\ spp_pm.data_flg => spp_pin.wakeup_mcu
  /\ spp_pm.asleep => /\ spp_uart.in = Spp!Nothing /\ spp_loop.slot = Spp!NoSlot
                      /\ Len(spp_handled) = spp_sent /\ Len(spp_out) = Len(spp_queued)

SppIInv == CommandInv /\ EventInv /\ PowerInv

-----------------------------------------------------------------------------
(***************************************************************************)
(* Remainders.                                                             *)
(***************************************************************************)
LEMMA ModNext ==
  ASSUME NEW n \in Nat \ {0}, NEW x \in Int
  PROVE  ((x % n) + 1) % n = (x + 1) % n
<1>1. PICK q \in Int : x = (x % n) + n * q
  BY ModIs
<1>2. x % n \in Int
  BY ModIs
<1> DEFINE y == x % n
<1>a. x = y + n * q /\ y \in Int
  BY <1>1, <1>2
<1> HIDE DEF y
<1>3. x + 1 = (y + 1) + n * q
  BY <1>a
<1>b. y + 1 \in Int
  BY <1>a
<1>4. ((y + 1) + n * q) % n = (y + 1) % n
  BY <1>b, ModShift
<1> QED BY <1>3, <1>4 DEF y

LEMMA ModMod ==
  ASSUME NEW n \in Nat \ {0}, NEW k \in Nat \ {0}, NEW x \in Int, n % k = 0
  PROVE  (x % n) % k = x % k
<1> DEFINE a == x % n
<1>0. a \in Int
  BY ModIs
<1>1. PICK p \in Int : x = a + n * p
  BY ModIs
<1>i. n \in Int
  OBVIOUS
<1>2. PICK q \in Int : n = (n % k) + k * q
  BY <1>i, ModIs
<1> HIDE DEF a
<1>3. x = a + k * (q * p)
  BY <1>0, <1>1, <1>2
<1>4. q * p \in Int
  OBVIOUS
<1>5. (a + k * (q * p)) % k = a % k
  BY <1>0, <1>4, ModShift
<1> QED BY <1>3, <1>5 DEF a

-----------------------------------------------------------------------------
(***************************************************************************)
(* The rings.                                                              *)
(***************************************************************************)
\* Pointers that count modulo Wrap tell how full a ring of fewer slots is.
LEMMA RingFacts ==
  ASSUME NEW num \in Nat \ {0}, Wrap \in Nat \ {0}, Wrap % num = 0, num < Wrap,
         NEW put \in Nat, NEW got \in Nat, got <= put, put - got <= num
  PROVE  /\ Spp!Filled(RingAfter(num, put, got)) = put - got
         /\ Spp!my_fifo_wptr(RingAfter(num, put, got)) = IF put - got < num THEN put % num
                ELSE Spp!NoSlot
         /\ Spp!my_fifo_get(RingAfter(num, put, got)) = IF got # put THEN got % num ELSE Spp!NoSlot
         /\ Spp!SlotOf(RingAfter(num, put, got), RingAfter(num, put, got).wptr) = put % num
         /\ (RingAfter(num, put, got).rptr # RingAfter(num, put, got).wptr) <=> got # put
<1>0. put \in Int /\ got \in Int
  OBVIOUS
<1>1. /\ RingAfter(num, put, got).num = num /\ RingAfter(num, put, got).wptr = put % Wrap
      /\ RingAfter(num, put, got).rptr = got % Wrap
  BY DEF RingAfter
<1>2. (put % Wrap) % num = put % num /\ (got % Wrap) % num = got % num
  BY <1>0, ModMod
<1>3. ((put % Wrap) - (got % Wrap)) % Wrap = put - got
  <2>1. ((put % Wrap) - (got % Wrap)) % Wrap = (put - got) % Wrap
    BY <1>0, ModMinus
  <2>2. put - got \in 0 .. Wrap - 1
    OBVIOUS
  <2> QED
    BY <2>1, <2>2, ModSmall
<1>4. (got % Wrap # put % Wrap) <=> got # put
  <2>1. ASSUME got # put PROVE got % Wrap # put % Wrap
    <3>1. got < put /\ put - got < Wrap
      BY <2>1
    <3> QED
      BY <1>0, <3>1, ModApart
  <2> QED
    BY <2>1
<1>5. Spp!Filled(RingAfter(num, put, got)) = put - got
  BY <1>1, <1>3 DEF Spp!Filled
<1> QED
  BY <1>1, <1>2, <1>4, <1>5 DEF Spp!my_fifo_wptr, Spp!my_fifo_get, Spp!SlotOf

\* Putting one in and taking one out.
LEMMA RingSteps ==
  ASSUME NEW num \in Nat \ {0}, Wrap \in Nat \ {0}, NEW put \in Nat, NEW got \in Nat
  PROVE  /\ Spp!my_fifo_next(RingAfter(num, put, got)) = RingAfter(num, put + 1, got)
         /\ Spp!my_fifo_pop(RingAfter(num, put, got)) = RingAfter(num, put, got + 1)
<1>0. put \in Int /\ got \in Int
  OBVIOUS
<1>1. ((put % Wrap) + 1) % Wrap = (put + 1) % Wrap /\ ((got % Wrap) + 1) % Wrap = (got + 1) % Wrap
  BY <1>0, ModNext
<1> QED
  BY <1>1 DEF Spp!my_fifo_next, Spp!my_fifo_pop, RingAfter

LEMMA RingPointers ==
  ASSUME NEW num, Wrap \in Nat \ {0}, NEW put \in Nat, NEW got \in Nat
  PROVE  RingAfter(num, put, got).wptr \in 0 .. (Wrap - 1)
             /\ RingAfter(num, put, got).rptr \in 0 .. (Wrap - 1)
<1>0. put \in Int /\ got \in Int
  OBVIOUS
<1>1. put % Wrap \in 0 .. Wrap - 1 /\ got % Wrap \in 0 .. Wrap - 1
  BY <1>0, ModIs
<1> QED
  BY <1>1 DEF RingAfter

LEMMA SppConstants ==
  ASSUME Spp!SppUartAssumption, SppUartRoom
  PROVE  /\ RxNum \in Nat \ {0} /\ TxNum \in Nat \ {0} /\ Wrap \in Nat \ {0}
         /\ Wrap % RxNum = 0 /\ Wrap % TxNum = 0 /\ RxNum < Wrap /\ TxNum < Wrap
         /\ Ahead \in Nat /\ Ahead < RxNum /\ MaxCmds \in Nat
BY DEF Spp!SppUartAssumption, SppUartRoom

-----------------------------------------------------------------------------
(***************************************************************************)
(* Commands.                                                               *)
(***************************************************************************)
LEMMA SppInitIInv == ASSUME Spp!SppUartAssumption, SppUartRoom, Spp!Init PROVE SppIInv
<1>0. 0 % Wrap = 0 /\ 0 % RxNum = 0
  BY SppConstants, ModSmall
<1>1. CommandInv
  BY <1>0, SppConstants DEF Spp!Init, CommandInv, RingAfter, Spp!Fifo, Received, LoopStates,
       Spp!NoSlot, Spp!Nothing
<1>2. EventInv
  BY <1>0, SppConstants DEF Spp!Init, EventInv, RingAfter, Spp!Fifo, Taken, Spp!Nothing
<1>3. PowerInv
  BY DEF Spp!Init, PowerInv
<1> QED
  BY <1>1, <1>2, <1>3 DEF SppIInv

\* What the receive ring shows of the commands.
LEMMA RxRing ==
  ASSUME Spp!SppUartAssumption, SppUartRoom, CommandInv
  PROVE  /\ Len(spp_handled) \in Nat /\ Received \in Nat /\ spp_sent \in Nat
         /\ Received - Len(spp_handled) <= RxNum
         /\ Spp!my_fifo_get(spp_rx) = IF Len(spp_handled) # Received
                THEN Len(spp_handled) % RxNum ELSE Spp!NoSlot
         /\ Spp!SlotOf(spp_rx, spp_rx.wptr) = Received % RxNum
         /\ Spp!UART_RX_BUSY <=> Len(spp_handled) # Received
         /\ Spp!my_fifo_next(spp_rx) = RingAfter(RxNum, Received + 1, Len(spp_handled))
         /\ Spp!my_fifo_pop(spp_rx) = RingAfter(RxNum, Received, Len(spp_handled) + 1)
<1>1. Len(spp_handled) \in Nat /\ Received \in Nat /\ spp_sent \in Nat
  BY DEF CommandInv, Received, Spp!Nothing
<1>2. Len(spp_handled) <= Received /\ Received - Len(spp_handled) <= RxNum
  BY <1>1, SppConstants DEF CommandInv, Received
<1>3. spp_rx = RingAfter(RxNum, Received, Len(spp_handled))
  BY DEF CommandInv
<1>b. /\ RxNum \in Nat \ {0} /\ Wrap \in Nat \ {0} /\ Wrap % RxNum = 0 /\ RxNum < Wrap
  BY SppConstants
<1> DEFINE ring == RingAfter(RxNum, Received, Len(spp_handled))
<1>4. /\ Spp!my_fifo_get(ring) = IF Len(spp_handled) # Received THEN Len(spp_handled) % RxNum
             ELSE Spp!NoSlot
      /\ Spp!SlotOf(ring, ring.wptr) = Received % RxNum
      /\ (ring.rptr # ring.wptr) <=> Len(spp_handled) # Received
  <2>1. ASSUME NEW put \in Nat, NEW got \in Nat, got <= put, put - got <= RxNum
        PROVE  /\ Spp!my_fifo_get(RingAfter(RxNum, put, got)) = IF got # put THEN got % RxNum
                      ELSE Spp!NoSlot
               /\ Spp!SlotOf(RingAfter(RxNum, put, got), RingAfter(RxNum, put, got).wptr)
                      = put % RxNum
               /\ (RingAfter(RxNum, put, got).rptr # RingAfter(RxNum, put, got).wptr) <=> got # put
    BY <1>b, <2>1, RingFacts, SMTT(30)
  <2> QED
    BY <1>1, <1>2, <2>1
<1>5. /\ Spp!my_fifo_next(ring) = RingAfter(RxNum, Received + 1, Len(spp_handled))
      /\ Spp!my_fifo_pop(ring) = RingAfter(RxNum, Received, Len(spp_handled) + 1)
  BY <1>1, <1>b, RingSteps
<1>6. spp_rx = ring
  BY <1>3
<1> HIDE DEF ring
<1> QED
  BY <1>1, <1>2, <1>4, <1>5, <1>6 DEF Spp!UART_RX_BUSY

LEMMA CommandKept ==
  ASSUME CommandInv, UNCHANGED <<spp_rx, spp_rxSlot, spp_loop, spp_sent, spp_handled>>,
         spp_uart'.in = spp_uart.in
  PROVE  CommandInv'
BY DEF CommandInv, Received

LEMMA CmdBeginsInv ==
  ASSUME Spp!SppUartAssumption, SppUartRoom, CommandInv,
         spp_uart \in [in : Int, out : Seq(Int), isUartTxDone : BOOLEAN],
         Spp!CmdBegins
  PROVE  CommandInv' /\ spp_uart' = [spp_uart EXCEPT !.in = spp_sent + 1]
<1>1. /\ spp_sent < MaxCmds /\ spp_sent - Len(spp_handled) <= Ahead /\ spp_uart.in = Spp!Nothing
      /\ spp_sent' = spp_sent + 1 /\ spp_uart' = [spp_uart EXCEPT !.in = spp_sent + 1]
      /\ spp_rxSlot' = [spp_rxSlot EXCEPT ![Spp!SlotOf(spp_rx, spp_rx.wptr)] = Spp!Torn]
      /\ UNCHANGED <<spp_rx, spp_loop, spp_handled>>
  BY DEF Spp!CmdBegins
<1>2. /\ Len(spp_handled) \in Nat /\ spp_sent \in Nat /\ Received = spp_sent /\ MaxCmds \in Nat
      /\ Spp!SlotOf(spp_rx, spp_rx.wptr) = spp_sent % RxNum
  BY <1>1, RxRing, SppConstants DEF Received
<1>3. spp_uart'.in = spp_sent + 1 /\ Received' = spp_sent
  BY <1>1, <1>2 DEF Received, Spp!Nothing
<1>4. spp_rxSlot' \in [0 .. RxNum - 1 -> {Spp!Torn, Spp!Nothing} \cup 1 .. MaxCmds]
  BY <1>1 DEF CommandInv
<1>5. ASSUME NEW k \in Len(spp_handled) .. spp_sent - 1 PROVE spp_rxSlot'[k % RxNum] = k + 1
  <2>1. k \in Int /\ k < spp_sent /\ spp_sent - k < RxNum
    BY <1>1, <1>2, SppConstants
  <2>2. k % RxNum # spp_sent % RxNum /\ k % RxNum \in 0 .. RxNum - 1
    <3>1. spp_sent \in Int /\ RxNum \in Nat \ {0}
      BY <1>2, SppConstants
    <3>2. k % RxNum # spp_sent % RxNum
      BY <2>1, <3>1, ModApart
    <3>3. k % RxNum \in 0 .. RxNum - 1
      BY <2>1, <3>1, ModIs
    <3> QED
      BY <3>2, <3>3
  <2>3. spp_rxSlot[k % RxNum] = k + 1
    BY <1>2 DEF CommandInv
  <2> QED
    BY <1>1, <1>2, <2>2, <2>3 DEF CommandInv
<1>6. spp_sent' \in 0 .. MaxCmds /\ spp_sent' - Len(spp_handled') <= Ahead + 1
          /\ Len(spp_handled') <= Received'
  BY <1>1, <1>2, <1>3, SppConstants, SMTT(30) DEF CommandInv
<1>7. spp_rx' = RingAfter(RxNum, Received', Len(spp_handled'))
  BY <1>1, <1>2, <1>3 DEF CommandInv
<1>8. spp_loop' \in LoopStates(Len(spp_handled'))
          /\ (spp_loop'.slot # Spp!NoSlot => Len(spp_handled') < Received')
  BY <1>1, <1>2, <1>3 DEF CommandInv
<1>9. spp_handled' \in Seq(Int) /\ \A i \in 1 .. Len(spp_handled') : spp_handled'[i] = i
  BY <1>1 DEF CommandInv
<1> QED
  BY <1>1, <1>3, <1>4, <1>5, <1>6, <1>7, <1>8, <1>9 DEF CommandInv

LEMMA CmdEndsInv ==
  ASSUME Spp!SppUartAssumption, SppUartRoom, CommandInv,
         spp_uart \in [in : Int, out : Seq(Int), isUartTxDone : BOOLEAN],
         Spp!CmdEnds
  PROVE  CommandInv' /\ spp_uart' = [spp_uart EXCEPT !.in = Spp!Nothing]
<1>1. /\ spp_uart.in # Spp!Nothing /\ spp_rxSlot'
             = [spp_rxSlot EXCEPT ![Spp!SlotOf(spp_rx, spp_rx.wptr)] = spp_uart.in]
      /\ spp_rx' = Spp!my_fifo_next(spp_rx) /\ spp_uart' = [spp_uart EXCEPT !.in = Spp!Nothing]
      /\ UNCHANGED <<spp_loop, spp_sent, spp_handled>>
  BY DEF Spp!CmdEnds
<1>2. /\ Len(spp_handled) \in Nat /\ Received \in Nat /\ spp_sent \in Nat /\ Received = spp_sent - 1
      /\ Spp!SlotOf(spp_rx, spp_rx.wptr) = (spp_sent - 1) % RxNum /\ spp_uart.in = spp_sent
      /\ spp_sent - Len(spp_handled) <= RxNum /\ Len(spp_handled) <= spp_sent - 1
      /\ spp_sent <= MaxCmds
  BY <1>1, RxRing, SppConstants, SMTT(30) DEF Received, CommandInv
<1>3. spp_uart'.in = Spp!Nothing /\ Received' = spp_sent
  BY <1>1, <1>2 DEF Received, Spp!Nothing
<1>4. spp_rxSlot' \in [0 .. RxNum - 1 -> {Spp!Torn, Spp!Nothing} \cup 1 .. MaxCmds]
  <2>1. spp_uart.in \in 1 .. MaxCmds
    BY <1>1, <1>2, SppConstants DEF Spp!Nothing
  <2> QED
    BY <1>1, <2>1 DEF CommandInv
<1>5. ASSUME NEW k \in Len(spp_handled) .. spp_sent - 1 PROVE spp_rxSlot'[k % RxNum] = k + 1
  <2>0. /\ k \in Int /\ spp_sent - 1 \in Int /\ Len(spp_handled) <= k /\ RxNum \in Nat \ {0}
        /\ k % RxNum \in 0 .. RxNum - 1 /\ (spp_sent - 1) % RxNum \in 0 .. RxNum - 1
    <3>1. k \in Int /\ spp_sent - 1 \in Int /\ Len(spp_handled) <= k /\ RxNum \in Nat \ {0}
      BY <1>2, SppConstants
    <3>2. k % RxNum \in 0 .. RxNum - 1
      BY <3>1, ModIs
    <3>3. (spp_sent - 1) % RxNum \in 0 .. RxNum - 1
      BY <3>1, ModIs
    <3> QED
      BY <3>1, <3>2, <3>3
  <2>1. CASE k = spp_sent - 1
    BY <1>1, <1>2, <2>0, <2>1 DEF CommandInv
  <2>2. CASE k < spp_sent - 1
    <3>1. (spp_sent - 1) - k < RxNum
      BY <1>2, <2>0, <2>2
    <3>2. k % RxNum # (spp_sent - 1) % RxNum
      BY <2>0, <2>2, <3>1, SppConstants, ModApart
    <3>3. spp_rxSlot[k % RxNum] = k + 1
      BY <1>2, <2>2 DEF CommandInv
    <3> QED
      BY <1>1, <1>2, <2>0, <3>2, <3>3 DEF CommandInv
  <2> QED
    BY <1>2, <2>1, <2>2
<1>6. spp_sent' \in 0 .. MaxCmds /\ spp_sent' - Len(spp_handled') <= Ahead + 1
          /\ Len(spp_handled') <= Received'
  BY <1>1, <1>2, <1>3, SppConstants DEF CommandInv
<1>7. spp_rx' = RingAfter(RxNum, Received', Len(spp_handled'))
  <2>1. (spp_sent - 1) + 1 = spp_sent
    BY <1>2
  <2>2. Spp!my_fifo_next(spp_rx) = RingAfter(RxNum, Received + 1, Len(spp_handled))
    BY RxRing
  <2> QED
    BY <1>1, <1>2, <1>3, <2>1, <2>2
<1>8. spp_loop' \in LoopStates(Len(spp_handled'))
          /\ (spp_loop'.slot # Spp!NoSlot => Len(spp_handled') < Received')
  BY <1>1, <1>2, <1>3 DEF CommandInv
<1>9. spp_handled' \in Seq(Int) /\ \A i \in 1 .. Len(spp_handled') : spp_handled'[i] = i
  BY <1>1 DEF CommandInv
<1> QED
  BY <1>1, <1>3, <1>4, <1>5, <1>6, <1>7, <1>8, <1>9 DEF CommandInv

LEMMA RxBeginInv ==
  ASSUME Spp!SppUartAssumption, SppUartRoom, CommandInv, Spp!RxBegin
  PROVE  CommandInv'
<1>1. /\ Spp!my_fifo_get(spp_rx) # Spp!NoSlot
      /\ spp_loop' = [slot |-> Spp!my_fifo_get(spp_rx), cmd |-> spp_rxSlot[Spp!my_fifo_get(spp_rx)]]
      /\ UNCHANGED <<spp_rx, spp_rxSlot, spp_uart, spp_sent, spp_handled>>
  BY DEF Spp!RxBegin
<1>2. /\ Len(spp_handled) \in Nat /\ Received \in Nat /\ Len(spp_handled) < Received
      /\ Spp!my_fifo_get(spp_rx) = Len(spp_handled) % RxNum
  <2>1. Len(spp_handled) # Received
    BY <1>1, RxRing
  <2> QED
    BY <2>1, RxRing DEF CommandInv
<1>3. spp_rxSlot[Len(spp_handled) % RxNum] = Len(spp_handled) + 1
  BY <1>2 DEF CommandInv
<1>4. spp_loop' \in LoopStates(Len(spp_handled))
  BY <1>1, <1>2, <1>3 DEF LoopStates
<1>5. Received' = Received
  BY <1>1 DEF Received
<1> QED
  BY <1>1, <1>2, <1>4, <1>5 DEF CommandInv

\* The command that is answered is whole: its slot is not written while it is read.
LEMMA RxEndInv ==
  ASSUME Spp!SppUartAssumption, SppUartRoom, CommandInv, Spp!RxEnd
  PROVE  /\ CommandInv' /\ Spp!spp_send_data(Len(spp_handled) + 1)
         /\ UNCHANGED <<spp_uart, spp_out, spp_sent>>
         /\ spp_loop'.slot = Spp!NoSlot
<1>1. /\ spp_loop.slot # Spp!NoSlot /\ spp_rx' = Spp!my_fifo_pop(spp_rx)
      /\ spp_loop' = [slot |-> Spp!NoSlot, cmd |-> Spp!Nothing]
      /\ UNCHANGED <<spp_rxSlot, spp_uart, spp_sent, spp_out>>
      /\ \E cmd \in {IF spp_rxSlot[spp_loop.slot] = spp_loop.cmd THEN spp_loop.cmd ELSE Spp!Torn} :
           spp_handled' = Append(spp_handled, cmd) /\ Spp!spp_send_data(cmd)
  BY DEF Spp!RxEnd, Spp!Popped
<1>2. /\ Len(spp_handled) \in Nat /\ Received \in Nat /\ Len(spp_handled) < Received
      /\ spp_loop.slot = Len(spp_handled) % RxNum /\ spp_loop.cmd = Len(spp_handled) + 1
  BY <1>1, RxRing DEF CommandInv, LoopStates
<1>3. spp_rxSlot[spp_loop.slot] = spp_loop.cmd
  BY <1>2 DEF CommandInv
<1>4. spp_handled' = Append(spp_handled, Len(spp_handled) + 1)
          /\ Spp!spp_send_data(Len(spp_handled) + 1)
  BY <1>1, <1>2, <1>3
<1>5. /\ spp_handled' \in Seq(Int) /\ Len(spp_handled') = Len(spp_handled) + 1
      /\ \A i \in 1 .. Len(spp_handled') : spp_handled'[i] = i
  BY <1>2, <1>4 DEF CommandInv
<1>6. Received' = Received
  BY <1>1 DEF Received
<1>7. spp_rx' = RingAfter(RxNum, Received', Len(spp_handled'))
  BY <1>1, <1>5, <1>6, RxRing
<1>8. \A k \in Len(spp_handled') .. Received' - 1 : spp_rxSlot'[k % RxNum] = k + 1
  BY <1>1, <1>2, <1>5, <1>6 DEF CommandInv
<1>9. Len(spp_handled') <= Received' /\ spp_sent' - Len(spp_handled') <= Ahead + 1
  BY <1>1, <1>2, <1>5, <1>6, RxRing, SppConstants, SMTT(30) DEF CommandInv
<1>10. spp_loop' \in LoopStates(Len(spp_handled')) /\ spp_loop'.slot = Spp!NoSlot
  BY <1>1 DEF LoopStates
<1>11. CommandInv'
  BY <1>1, <1>5, <1>7, <1>8, <1>9, <1>10 DEF CommandInv
<1> QED
  BY <1>1, <1>4, <1>11

-----------------------------------------------------------------------------
(***************************************************************************)
(* Events.                                                                 *)
(***************************************************************************)
\* What the transmit ring shows of the events.
LEMMA TxRing ==
  ASSUME Spp!SppUartAssumption, SppUartRoom, EventInv
  PROVE  /\ Len(spp_queued) \in Nat /\ Taken \in Nat /\ Taken <= Len(spp_queued)
         /\ Spp!my_fifo_wptr(spp_tx) = IF Len(spp_queued) - Taken < TxNum
                THEN Len(spp_queued) % TxNum ELSE Spp!NoSlot
         /\ Spp!my_fifo_get(spp_tx) = IF Taken # Len(spp_queued) THEN Taken % TxNum ELSE Spp!NoSlot
         /\ Spp!UART_TX_BUSY <=> Len(spp_out) # Len(spp_queued)
         /\ Spp!my_fifo_next(spp_tx) = RingAfter(TxNum, Len(spp_queued) + 1, Taken)
         /\ Spp!my_fifo_pop(spp_tx) = RingAfter(TxNum, Len(spp_queued), Taken + 1)
<1>1. /\ Len(spp_queued) \in Nat /\ Len(spp_out) \in Nat /\ Len(spp_uart.out) \in Nat
      /\ Taken = Len(spp_out) + Len(spp_uart.out) /\ Taken \in Nat
  BY DEF EventInv, Taken
<1>2. Taken <= Len(spp_queued) /\ Len(spp_queued) - Taken <= TxNum
  BY DEF EventInv
<1>3. spp_tx = RingAfter(TxNum, Len(spp_queued), Taken)
  BY DEF EventInv
<1>a. Len(spp_queued) \in Nat /\ Taken \in Nat
  BY <1>1
<1>b. /\ TxNum \in Nat \ {0} /\ Wrap \in Nat \ {0} /\ Wrap % TxNum = 0 /\ TxNum < Wrap
  BY SppConstants
<1> DEFINE ring == RingAfter(TxNum, Len(spp_queued), Taken)
<1>4. /\ Spp!Filled(ring) = Len(spp_queued) - Taken
      /\ Spp!my_fifo_wptr(ring) = IF Len(spp_queued) - Taken < TxNum
             THEN Len(spp_queued) % TxNum ELSE Spp!NoSlot
      /\ Spp!my_fifo_get(ring) = IF Taken # Len(spp_queued) THEN Taken % TxNum ELSE Spp!NoSlot
      /\ Spp!SlotOf(ring, ring.wptr) = Len(spp_queued) % TxNum
      /\ (ring.rptr # ring.wptr) <=> Taken # Len(spp_queued)
  BY <1>a, <1>2, <1>b, RingFacts
<1>5. /\ Spp!my_fifo_next(ring) = RingAfter(TxNum, Len(spp_queued) + 1, Taken)
      /\ Spp!my_fifo_pop(ring) = RingAfter(TxNum, Len(spp_queued), Taken + 1)
  BY <1>a, <1>b, RingSteps
<1>6. spp_tx = ring
  BY <1>3
<1> HIDE DEF ring
<1>7. Spp!UART_TX_BUSY <=> Taken # Len(spp_queued) \/ ~ spp_uart.isUartTxDone
  BY <1>4, <1>6 DEF Spp!UART_TX_BUSY
<1>8. ~ spp_uart.isUartTxDone <=> Len(spp_uart.out) # 0
  BY DEF EventInv
<1>9. Spp!UART_TX_BUSY <=> Len(spp_out) # Len(spp_queued)
  BY <1>1, <1>2, <1>7, <1>8
<1> QED
  BY <1>1, <1>2, <1>4, <1>5, <1>6, <1>9

LEMMA EventKept ==
  ASSUME EventInv, UNCHANGED <<spp_tx, spp_txSlot, spp_queued, spp_out>>,
         spp_uart'.out = spp_uart.out,
         spp_uart'.isUartTxDone = spp_uart.isUartTxDone,
         spp_uart' \in [in : Int, out : Seq(Int), isUartTxDone : BOOLEAN]
  PROVE  EventInv'
BY DEF EventInv, Taken

\* The flag of data kept and the pin of the MCU, when an event is queued.
SentPower ==
  \/ UNCHANGED <<spp_pm, spp_pin, spp_queued>>
  \/ /\ spp_pm' = [spp_pm EXCEPT !.data_flg = TRUE]
     /\ spp_pin' = IF spp_pm.data_flg THEN spp_pin ELSE [spp_pin EXCEPT !.wakeup_mcu = TRUE]

\* An event is put into a slot whose last event was taken, or is refused.
LEMMA SendInv ==
  ASSUME Spp!SppUartAssumption, SppUartRoom, EventInv, NEW e \in Int, Spp!spp_send_data(e),
         UNCHANGED <<spp_uart, spp_out>>
  PROVE  EventInv' /\ SentPower
<1>1. CASE Spp!my_fifo_wptr(spp_tx) = Spp!NoSlot
  <2>1. UNCHANGED <<spp_tx, spp_txSlot, spp_pm, spp_pin, spp_queued>>
    BY <1>1 DEF Spp!spp_send_data
  <2> QED
    BY <2>1, EventKept DEF SentPower, EventInv
<1>2. CASE Spp!my_fifo_wptr(spp_tx) # Spp!NoSlot
  <2>1. /\ spp_txSlot' = [spp_txSlot EXCEPT ![Spp!my_fifo_wptr(spp_tx)] = e]
        /\ spp_tx' = Spp!my_fifo_next(spp_tx) /\ spp_queued' = Append(spp_queued, e)
        /\ SentPower
    BY <1>2 DEF Spp!spp_send_data, SentPower
  <2>2. /\ Len(spp_queued) \in Nat /\ Taken \in Nat /\ Taken <= Len(spp_queued)
        /\ Len(spp_queued) - Taken < TxNum /\ Spp!my_fifo_wptr(spp_tx) = Len(spp_queued) % TxNum
        /\ TxNum \in Nat \ {0}
    BY <1>2, TxRing, SppConstants
  <2>3. Taken' = Taken
    BY DEF Taken
  <2>4. /\ spp_queued' \in Seq(Int) /\ Len(spp_queued') = Len(spp_queued) + 1
        /\ \A k \in 1 .. Len(spp_queued) : spp_queued'[k] = spp_queued[k]
        /\ spp_queued'[Len(spp_queued) + 1] = e
    BY <2>1 DEF EventInv
  <2>5. Len(spp_queued) % TxNum \in 0 .. TxNum - 1
    <3>1. Len(spp_queued) \in Int
      BY <2>2
    <3> QED
      BY <2>2, <3>1, ModIs
  <2>6. spp_txSlot' \in [0 .. TxNum - 1 -> Int]
    BY <2>1 DEF EventInv
  <2>7. ASSUME NEW k \in Taken' .. Len(spp_queued') - 1
               PROVE spp_txSlot'[k % TxNum] = spp_queued'[k + 1]
    <3>0. k \in Int /\ Taken <= k /\ k <= Len(spp_queued) /\ Len(spp_queued) \in Int
      BY <2>2, <2>3, <2>4
    <3>1. CASE k = Len(spp_queued)
      BY <2>1, <2>2, <2>4, <2>5, <3>1 DEF EventInv
    <3>2. CASE k < Len(spp_queued)
      <4>1. Len(spp_queued) - k < TxNum
        BY <2>2, <3>0
      <4>2. k % TxNum # Len(spp_queued) % TxNum
        BY <2>2, <3>0, <3>2, <4>1, ModApart
      <4>3. k % TxNum \in 0 .. TxNum - 1
        BY <2>2, <3>0, ModIs
      <4>4. spp_txSlot[k % TxNum] = spp_queued[k + 1]
        BY <2>2, <3>0, <3>2 DEF EventInv
      <4>5. spp_queued'[k + 1] = spp_queued[k + 1]
        BY <2>2, <2>4, <3>0, <3>2, SMTT(30)
      <4> QED
        BY <2>1, <2>2, <4>2, <4>3, <4>4, <4>5 DEF EventInv
    <3> QED
      BY <2>2, <3>0, <3>1, <3>2
  <2>8. spp_tx' = RingAfter(TxNum, Len(spp_queued'), Taken')
    BY <2>1, <2>3, <2>4, TxRing
  <2>9. Taken' <= Len(spp_queued') /\ Len(spp_queued') - Taken' <= TxNum
    BY <2>2, <2>3, <2>4
  <2>10. \A i \in 1 .. Len(spp_out') : spp_out'[i] = spp_queued'[i]
    BY <2>2, <2>4, SMTT(30) DEF EventInv, Taken
  <2>11. ASSUME NEW i \in 1 .. Len(spp_uart'.out)
                PROVE spp_uart'.out[i] = spp_queued'[Len(spp_out') + i]
    <3>1. Len(spp_uart.out) \in Nat /\ Len(spp_out) \in Nat
              /\ Len(spp_out) + Len(spp_uart.out) <= Len(spp_queued)
      BY DEF EventInv, Taken
    <3>2. spp_uart.out[i] = spp_queued[Len(spp_out) + i]
      BY DEF EventInv
    <3>3. Len(spp_out) + i \in 1 .. Len(spp_queued)
      BY <2>2, <3>1
    <3> QED
      BY <2>4, <3>2, <3>3
  <2>12. /\ spp_out' \in Seq(Int) /\ spp_uart' \in [in : Int, out : Seq(Int),
                isUartTxDone : BOOLEAN]
         /\ Len(spp_uart'.out) <= 1 /\ (spp_uart'.isUartTxDone <=> Len(spp_uart'.out) = 0)
    BY DEF EventInv
  <2> QED
    BY <2>1, <2>4, <2>6, <2>7, <2>8, <2>9, <2>10, <2>11, <2>12 DEF EventInv
<1> QED
  BY <1>1, <1>2

LEMMA TakeInv ==
  ASSUME Spp!SppUartAssumption, SppUartRoom, EventInv, Spp!tx_to_uart_cb
  PROVE  EventInv' /\ spp_uart'.in = spp_uart.in
<1>1. /\ Spp!my_fifo_get(spp_tx) # Spp!NoSlot /\ spp_uart.isUartTxDone
      /\ spp_tx' = Spp!my_fifo_pop(spp_tx)
      /\ spp_uart' = [spp_uart EXCEPT !.out = <<spp_txSlot[Spp!my_fifo_get(spp_tx)]>>,
             !.isUartTxDone = FALSE]
      /\ UNCHANGED <<spp_txSlot, spp_queued, spp_out>>
  BY DEF Spp!tx_to_uart_cb, Spp!TxReady
<1>2. /\ Len(spp_queued) \in Nat /\ Taken \in Nat /\ Taken < Len(spp_queued)
      /\ Spp!my_fifo_get(spp_tx) = Taken % TxNum /\ Taken = Len(spp_out) /\ TxNum \in Nat \ {0}
  <2>1. Taken # Len(spp_queued)
    BY <1>1, TxRing
  <2>2. Len(spp_uart.out) = 0 /\ Len(spp_out) \in Nat
    BY <1>1 DEF EventInv
  <2> QED
    BY <2>1, <2>2, TxRing, SppConstants DEF Taken
<1>3. spp_txSlot[Taken % TxNum] = spp_queued[Taken + 1] /\ spp_txSlot[Taken % TxNum] \in Int
  <2>0. Taken \in Taken .. Len(spp_queued) - 1
    BY <1>2
  <2>1. spp_txSlot[Taken % TxNum] = spp_queued[Taken + 1]
    BY <2>0 DEF EventInv
  <2>2. Taken \in Int
    BY <1>2
  <2>3. Taken % TxNum \in 0 .. TxNum - 1
    BY <1>2, <2>2, ModIs
  <2> QED
    BY <2>1, <2>3 DEF EventInv
<1>4. /\ spp_uart' \in [in : Int, out : Seq(Int), isUartTxDone : BOOLEAN]
      /\ spp_uart'.in = spp_uart.in
      /\ Len(spp_uart'.out) = 1 /\ spp_uart'.out[1] = spp_queued[Len(spp_out) + 1]
      /\ ~ spp_uart'.isUartTxDone
  <2> DEFINE e == spp_txSlot[Spp!my_fifo_get(spp_tx)]
  <2>1. e \in Int /\ e = spp_queued[Len(spp_out) + 1]
    BY <1>2, <1>3
  <2>2. spp_uart \in [in : Int, out : Seq(Int), isUartTxDone : BOOLEAN]
    BY DEF EventInv
  <2>3. spp_uart' = [spp_uart EXCEPT !.out = <<e>>, !.isUartTxDone = FALSE]
    BY <1>1
  <2> HIDE DEF e
  <2>4. <<e>> \in Seq(Int) /\ Len(<<e>>) = 1 /\ <<e>>[1] = e
    BY <2>1
  <2> QED
    BY <2>1, <2>2, <2>3, <2>4
<1>5. Taken' = Taken + 1 /\ Len(spp_uart'.out) = 1
  <2>1. Len(spp_out') = Len(spp_out)
    BY <1>1
  <2> QED
    BY <1>2, <1>4, <2>1 DEF Taken
<1>6. spp_tx' = RingAfter(TxNum, Len(spp_queued'), Taken')
  BY <1>1, <1>5, TxRing
<1>a. Len(spp_queued) - Taken <= TxNum /\ spp_queued' = spp_queued /\ spp_txSlot' = spp_txSlot
          /\ spp_out' = spp_out
  BY <1>1 DEF EventInv
<1>7. Taken' <= Len(spp_queued') /\ Len(spp_queued') - Taken' <= TxNum
  BY <1>2, <1>5, <1>a
<1>8. ASSUME NEW k \in Taken' .. Len(spp_queued') - 1
             PROVE spp_txSlot'[k % TxNum] = spp_queued'[k + 1]
  <2>1. k \in Taken .. Len(spp_queued) - 1
    BY <1>2, <1>5, <1>a
  <2> QED
    BY <1>a, <2>1 DEF EventInv
<1>9. \A i \in 1 .. Len(spp_uart'.out) : spp_uart'.out[i] = spp_queued'[Len(spp_out') + i]
  BY <1>4, <1>a
<1>10. /\ spp_queued' \in Seq(Int) /\ spp_out' \in Seq(Int)
       /\ spp_txSlot' \in [0 .. TxNum - 1 -> Int]
       /\ \A i \in 1 .. Len(spp_out') : spp_out'[i] = spp_queued'[i]
  BY <1>1 DEF EventInv
<1> QED
  BY <1>4, <1>5, <1>6, <1>7, <1>8, <1>9, <1>10 DEF EventInv

LEMMA Joined ==
  ASSUME NEW s \in Seq(Int), NEW t \in Seq(Int)
  PROVE  /\ s \o t \in Seq(Int) /\ Len(s \o t) = Len(s) + Len(t) /\ Len(s) \in Nat /\ Len(t) \in Nat
         /\ \A i \in 1 .. Len(s) : (s \o t)[i] = s[i]
         /\ \A i \in 1 .. Len(t) : (s \o t)[Len(s) + i] = t[i]
         /\ t # <<>> <=> Len(t) # 0
OBVIOUS

LEMMA TxDoneInv ==
  ASSUME EventInv, Spp!TxDone
  PROVE  EventInv' /\ spp_uart'.in = spp_uart.in /\ Len(spp_out') = Len(spp_out) + 1
             /\ Len(spp_out) < Len(spp_queued)
<1> DEFINE o == spp_uart.out
<1>1. /\ spp_out' = spp_out \o o /\ spp_tx' = spp_tx /\ spp_txSlot' = spp_txSlot
      /\ spp_queued' = spp_queued
      /\ spp_uart' = [spp_uart EXCEPT !.out = <<>>, !.isUartTxDone = TRUE] /\ o # <<>>
  BY DEF Spp!TxDone
<1>2. spp_out \in Seq(Int) /\ o \in Seq(Int) /\ Len(o) <= 1 /\ spp_queued \in Seq(Int)
  BY DEF EventInv
<1>3. /\ \A i \in 1 .. Len(spp_out) : spp_out[i] = spp_queued[i]
      /\ \A i \in 1 .. Len(o) : o[i] = spp_queued[Len(spp_out) + i]
      /\ Len(spp_out) + Len(o) <= Len(spp_queued) /\ Taken = Len(spp_out) + Len(o)
  BY DEF EventInv, Taken
<1>4. /\ spp_uart' \in [in : Int, out : Seq(Int), isUartTxDone : BOOLEAN]
      /\ spp_uart'.in = spp_uart.in
      /\ Len(spp_uart'.out) = 0 /\ spp_uart'.isUartTxDone
  <2>1. <<>> \in Seq(Int) /\ Len(<<>>) = 0
    OBVIOUS
  <2>2. spp_uart \in [in : Int, out : Seq(Int), isUartTxDone : BOOLEAN]
    BY DEF EventInv
  <2> QED
    BY <1>1, <2>1, <2>2
<1> HIDE DEF o
<1>5. Len(o) = 1 /\ Len(spp_out) \in Nat /\ spp_out' \in Seq(Int)
          /\ Len(spp_out') = Len(spp_out) + 1
  <2>1. /\ spp_out \o o \in Seq(Int) /\ Len(spp_out \o o) = Len(spp_out) + Len(o)
        /\ Len(spp_out) \in Nat
        /\ Len(o) \in Nat /\ (o # <<>> <=> Len(o) # 0)
    BY <1>2, Joined
  <2>2. Len(o) # 0
    BY <1>1, <2>1, Zenon
  <2>a. \A n \in Nat : n <= 1 /\ n # 0 => n = 1
    OBVIOUS
  <2>3. Len(o) = 1
    BY <1>2, <2>1, <2>2, <2>a, Zenon
  <2> QED
    BY <1>1, <2>1, <2>3
<1>6. Taken' = Taken
  BY <1>3, <1>4, <1>5 DEF Taken
<1>7. \A i \in 1 .. Len(spp_out') : spp_out'[i] = spp_queued'[i]
  <2>1. \A i \in 1 .. Len(spp_out) : spp_out'[i] = spp_out[i]
    BY <1>1, <1>2, Joined
  <2>2. spp_out'[Len(spp_out) + 1] = spp_queued[Len(spp_out) + 1]
    <3>1. 1 \in 1 .. Len(o)
      BY <1>5
    <3>2. (spp_out \o o)[Len(spp_out) + 1] = o[1]
      BY <1>2, <3>1, Joined
    <3> QED
      BY <1>1, <1>3, <3>1, <3>2
  <2> QED
    BY <1>1, <1>3, <1>5, <2>1, <2>2
<1>8. /\ spp_tx' = RingAfter(TxNum, Len(spp_queued'), Taken')
      /\ spp_txSlot' \in [0 .. TxNum - 1 -> Int]
      /\ \A k \in Taken' .. Len(spp_queued') - 1 : spp_txSlot'[k % TxNum] = spp_queued'[k + 1]
      /\ Taken' <= Len(spp_queued') /\ Len(spp_queued') - Taken' <= TxNum
  BY <1>1, <1>6 DEF EventInv
<1>9. \A i \in 1 .. Len(spp_uart'.out) : spp_uart'.out[i] = spp_queued'[Len(spp_out') + i]
  BY <1>4
<1>10. Len(spp_out) < Len(spp_queued)
  BY <1>3, <1>5
<1> QED
  BY <1>1, <1>2, <1>4, <1>5, <1>7, <1>8, <1>9, <1>10, SMTT(30) DEF EventInv

-----------------------------------------------------------------------------
(***************************************************************************)
(* Power, and the invariant.                                               *)
(***************************************************************************)
\* What is left of PowerInv when neither side's power and pins change.
LEMMA PowerSent ==
  ASSUME Spp!SppUartAssumption, SppUartRoom, SppIInv, ~ spp_pm.asleep, NEW e \in Int,
         Spp!spp_send_data(e),
         UNCHANGED spp_out, spp_uart'.in = spp_uart.in
  PROVE  PowerInv'
<1>1. CASE Spp!my_fifo_wptr(spp_tx) = Spp!NoSlot
  BY <1>1 DEF Spp!spp_send_data, SppIInv, PowerInv
<1>2. CASE Spp!my_fifo_wptr(spp_tx) # Spp!NoSlot
  <2>1. /\ spp_pm' = [spp_pm EXCEPT !.data_flg = TRUE]
        /\ spp_pin' = IF spp_pm.data_flg THEN spp_pin ELSE [spp_pin EXCEPT !.wakeup_mcu = TRUE]
    BY <1>2 DEF Spp!spp_send_data
  <2> QED
    BY <2>1 DEF SppIInv, PowerInv
<1> QED
  BY <1>1, <1>2

LEMMA SppWorking ==
  ASSUME Spp!SppUartAssumption, SppUartRoom, SppIInv
  PROVE  /\ Spp!module_uart_working <=>
              Len(spp_out) # Len(spp_queued) \/ Len(spp_handled) # Received
         /\ ~ Spp!app_module_busy =>
              /\ spp_uart.in = Spp!Nothing /\ Len(spp_handled) = spp_sent
              /\ Len(spp_out) = Len(spp_queued)
<1>1. Spp!UART_TX_BUSY <=> Len(spp_out) # Len(spp_queued)
  BY TxRing DEF SppIInv
<1>2. Spp!UART_RX_BUSY <=> Len(spp_handled) # Received
  BY RxRing DEF SppIInv
<1>3. ~ spp_pin.mcu => spp_uart.in = Spp!Nothing
  BY DEF SppIInv, PowerInv
<1> QED
  BY <1>1, <1>2, <1>3 DEF Spp!module_uart_working, Spp!app_module_busy, Spp!Pad, Received

LEMMA SppNextIInv ==
  ASSUME Spp!SppUartAssumption, SppUartRoom, SppIInv, [Spp!Next]_(Spp!vars)
  PROVE  SppIInv'
<1> DEFINE UartType == [in : Int, out : Seq(Int), isUartTxDone : BOOLEAN]
<1>0. CommandInv /\ EventInv /\ PowerInv /\ spp_uart \in UartType
  BY DEF SppIInv, EventInv
<1>1. CASE Spp!McuRaise
  <2>1. UNCHANGED <<spp_rx, spp_rxSlot, spp_tx, spp_txSlot, spp_uart, spp_loop, spp_pm, spp_sent,
            spp_handled, spp_queued, spp_out>>
        /\ spp_pin' = [spp_pin EXCEPT !.mcu = TRUE]
    BY <1>1 DEF Spp!McuRaise
  <2>2. CommandInv' /\ EventInv'
    BY <1>0, <2>1, CommandKept, EventKept
  <2>3. PowerInv'
    BY <1>0, <2>1 DEF PowerInv
  <2> QED
    BY <2>2, <2>3 DEF SppIInv
<1>2. CASE Spp!McuLower
  <2>1. /\ UNCHANGED <<spp_rx, spp_rxSlot, spp_tx, spp_txSlot, spp_uart, spp_loop, spp_pm,
               spp_sent, spp_handled, spp_queued, spp_out>>
        /\ spp_pin' = [spp_pin EXCEPT !.mcu = FALSE] /\ spp_uart.in = Spp!Nothing
    BY <1>2 DEF Spp!McuLower
  <2>2. CommandInv' /\ EventInv'
    BY <1>0, <2>1, CommandKept, EventKept
  <2>3. PowerInv'
    BY <1>0, <2>1 DEF PowerInv
  <2> QED
    BY <2>2, <2>3 DEF SppIInv
<1>3. CASE Spp!CmdBegins
  <2>1. CommandInv' /\ spp_uart' = [spp_uart EXCEPT !.in = spp_sent + 1]
    BY <1>0, <1>3, CmdBeginsInv
  <2>2. /\ spp_pin.mcu /\ ~ spp_pm.asleep /\ UNCHANGED <<spp_tx, spp_txSlot, spp_loop, spp_pm,
               spp_pin, spp_handled, spp_queued, spp_out>>
    BY <1>3 DEF Spp!CmdBegins
  <2>3. spp_sent + 1 \in Int
    BY <1>0 DEF CommandInv
  <2>4. EventInv'
    BY <1>0, <2>1, <2>2, <2>3, EventKept
  <2>5. PowerInv'
    BY <1>0, <2>2 DEF PowerInv
  <2> QED
    BY <2>1, <2>4, <2>5 DEF SppIInv
<1>4. CASE Spp!CmdEnds
  <2>1. CommandInv' /\ spp_uart' = [spp_uart EXCEPT !.in = Spp!Nothing]
    BY <1>0, <1>4, CmdEndsInv
  <2>2. UNCHANGED <<spp_tx, spp_txSlot, spp_loop, spp_pm, spp_pin, spp_sent, spp_handled,
            spp_queued, spp_out>>
    BY <1>4 DEF Spp!CmdEnds
  <2>3. Spp!Nothing \in Int
    BY DEF Spp!Nothing
  <2>4. EventInv'
    BY <1>0, <2>1, <2>2, <2>3, EventKept
  <2>5. spp_uart'.in = Spp!Nothing
    BY <1>0, <2>1
  <2>6. PowerInv'
    BY <1>0, <2>2, <2>5 DEF PowerInv
  <2> QED
    BY <2>1, <2>4, <2>6 DEF SppIInv
<1>5. CASE Spp!TxDone
  <2>1. EventInv' /\ spp_uart'.in = spp_uart.in /\ Len(spp_out') = Len(spp_out) + 1
            /\ Len(spp_out) < Len(spp_queued)
    BY <1>0, <1>5, TxDoneInv
  <2>2. UNCHANGED <<spp_rx, spp_rxSlot, spp_loop, spp_pm, spp_pin, spp_sent, spp_handled,
            spp_queued>>
    BY <1>5 DEF Spp!TxDone
  <2>3. CommandInv'
    BY <1>0, <2>1, <2>2, CommandKept
  <2>4. Len(spp_out) # Len(spp_queued)
    BY <1>0, <2>1, TxRing
  <2>5. PowerInv'
    BY <1>0, <2>1, <2>2, <2>4 DEF PowerInv
  <2> QED
    BY <2>1, <2>3, <2>5 DEF SppIInv
<1>6. CASE Spp!StackEvent
  <2>1. /\ ~ spp_pm.asleep /\ Spp!spp_send_data(Spp!FromStack)
        /\ UNCHANGED <<spp_rx, spp_rxSlot, spp_uart, spp_loop, spp_sent, spp_handled, spp_out>>
        /\ Spp!FromStack \in Int
    BY <1>6 DEF Spp!StackEvent, Spp!FromStack
  <2>2. CommandInv' /\ EventInv'
    BY <1>0, <2>1, CommandKept, SendInv
  <2>3. PowerInv'
    BY <2>1, PowerSent
  <2> QED
    BY <2>2, <2>3 DEF SppIInv
<1>7. CASE Spp!RxBegin
  <2>1. ~ spp_pm.asleep /\ UNCHANGED <<spp_tx, spp_txSlot, spp_uart, spp_pm, spp_pin, spp_sent,
            spp_handled, spp_queued, spp_out>>
    BY <1>7 DEF Spp!RxBegin
  <2>2. CommandInv' /\ EventInv'
    BY <1>0, <1>7, <2>1, RxBeginInv, EventKept
  <2>3. PowerInv'
    BY <1>0, <2>1 DEF PowerInv
  <2> QED
    BY <2>2, <2>3 DEF SppIInv
<1>8. CASE Spp!RxEnd
  <2>1. /\ CommandInv' /\ Spp!spp_send_data(Len(spp_handled) + 1)
        /\ UNCHANGED <<spp_uart, spp_out, spp_sent>>
    BY <1>0, <1>8, RxEndInv
  <2>2. Len(spp_handled) + 1 \in Int
    BY <1>0, RxRing
  <2>3. EventInv'
    BY <1>0, <2>1, <2>2, SendInv
  <2>4. ~ spp_pm.asleep
    BY <1>0, <1>8 DEF PowerInv, Spp!RxEnd
  <2>5. PowerInv'
    BY <2>1, <2>2, <2>4, PowerSent
  <2> QED
    BY <2>1, <2>3, <2>5 DEF SppIInv
<1>9. CASE Spp!tx_to_uart_cb
  <2>1. EventInv' /\ spp_uart'.in = spp_uart.in
    BY <1>0, <1>9, TakeInv
  <2>2. UNCHANGED <<spp_rx, spp_rxSlot, spp_loop, spp_pm, spp_pin, spp_sent, spp_handled,
            spp_queued, spp_out>>
    BY <1>9 DEF Spp!tx_to_uart_cb
  <2>3. CommandInv'
    BY <1>0, <2>1, <2>2, CommandKept
  <2>4. PowerInv'
    BY <1>0, <2>1, <2>2 DEF PowerInv
  <2> QED
    BY <2>1, <2>3, <2>4 DEF SppIInv
<1>10. ASSUME NEW late \in BOOLEAN, Spp!app_power_management(late) PROVE SppIInv'
  <2>1. /\ ~ spp_pm.asleep
        /\ spp_pm' = [spp_pm EXCEPT !.data_flg = @ /\ Spp!module_uart_working,
                                !.suspend = @ \/ (~ Spp!app_module_busy /\ ~ spp_pm.tick_wakeup),
                                !.tick_wakeup = @ /\ ~ late]
        /\ spp_pin' = [spp_pin EXCEPT
                         !.wakeup_mcu = @ /\ (spp_pm.data_flg => Spp!module_uart_working),
                         !.pull = @ /\ ~ (spp_pm.tick_wakeup /\ late)]
        /\ UNCHANGED <<spp_rx, spp_rxSlot, spp_tx, spp_txSlot, spp_uart, spp_loop, spp_sent,
               spp_handled, spp_queued, spp_out>>
    BY <1>10 DEF Spp!app_power_management
  <2>2. CommandInv' /\ EventInv'
    BY <1>0, <2>1, CommandKept, EventKept
  <2>3. Len(spp_out) # Len(spp_queued) => Spp!module_uart_working
    BY SppWorking
  <2> HIDE DEF Spp!module_uart_working, Spp!app_module_busy
  <2>4. PowerInv'
    BY <1>0, <2>1, <2>3 DEF PowerInv
  <2> QED
    BY <2>2, <2>4 DEF SppIInv
<1>11. CASE Spp!Sleep
  <2>1. /\ spp_loop.slot = Spp!NoSlot
        /\ UNCHANGED <<spp_rx, spp_rxSlot, spp_tx, spp_txSlot, spp_uart, spp_loop, spp_sent,
               spp_handled, spp_queued, spp_out>>
        /\ IF Spp!app_module_busy
             THEN spp_pm' = Spp!Awake(spp_pm) /\ spp_pin' = [spp_pin EXCEPT !.pull = TRUE]
             ELSE spp_pm' = [spp_pm EXCEPT !.asleep = TRUE] /\ UNCHANGED spp_pin
    BY <1>11 DEF Spp!Sleep
  <2>2. CommandInv' /\ EventInv'
    BY <1>0, <2>1, CommandKept, EventKept
  <2>3. PowerInv'
    <3>1. CASE Spp!app_module_busy
      BY <1>0, <2>1, <3>1 DEF PowerInv, Spp!Awake
    <3>2. CASE ~ Spp!app_module_busy
      <4>1. spp_uart.in = Spp!Nothing /\ Len(spp_handled) = spp_sent
                /\ Len(spp_out) = Len(spp_queued)
        BY <3>2, SppWorking
      <4> QED
        BY <1>0, <2>1, <3>2, <4>1 DEF PowerInv
    <3> QED
      BY <3>1, <3>2
  <2> QED
    BY <2>2, <2>3 DEF SppIInv
<1>12. CASE Spp!WakeUp
  <2>1. /\ UNCHANGED <<spp_rx, spp_rxSlot, spp_tx, spp_txSlot, spp_uart, spp_loop, spp_sent,
               spp_handled, spp_queued, spp_out>>
        /\ \/ spp_pm' = Spp!Awake(spp_pm) /\ spp_pin' = [spp_pin EXCEPT !.pull = TRUE]
           \/ spp_pm' = [spp_pm EXCEPT !.asleep = FALSE]
               /\ spp_pin' = [spp_pin EXCEPT !.pull = FALSE]
    BY <1>12 DEF Spp!WakeUp
  <2>2. CommandInv' /\ EventInv'
    BY <1>0, <2>1, CommandKept, EventKept
  <2>3. PowerInv'
    BY <1>0, <2>1 DEF PowerInv, Spp!Awake
  <2> QED
    BY <2>2, <2>3 DEF SppIInv
<1>13. CASE UNCHANGED Spp!vars
  <2>1. UNCHANGED <<spp_rx, spp_rxSlot, spp_tx, spp_txSlot, spp_uart, spp_loop, spp_pm, spp_pin,
            spp_sent, spp_handled, spp_queued, spp_out>>
    BY <1>13 DEF Spp!vars
  <2>2. CommandInv' /\ EventInv'
    BY <1>0, <2>1, CommandKept, EventKept
  <2>3. PowerInv'
    BY <1>0, <2>1 DEF PowerInv
  <2> QED
    BY <2>2, <2>3 DEF SppIInv
<1> QED
  BY <1>1, <1>2, <1>3, <1>4, <1>5, <1>6, <1>7, <1>8, <1>9, <1>10, <1>11, <1>12, <1>13 DEF Spp!Next

\* The inductive invariant holds in every state: what is on the line and in the rings is what was
\* sent or queued and is not yet handled, whole and in order (spp.c, app.c:290-360).
THEOREM SppAlwaysIInv ==
  ASSUME Spp!SppUartAssumption, SppUartRoom
  PROVE  Spp!Spec => []SppIInv
<1>1. Spp!Init => SppIInv
  BY SppInitIInv
<1>2. SppIInv /\ [Spp!Next]_(Spp!vars) => SppIInv'
  BY SppNextIInv
<1> QED
  BY <1>1, <1>2, PTL DEF Spp!Spec

-----------------------------------------------------------------------------
(***************************************************************************)
(* What the run checks.                                                    *)
(***************************************************************************)
LEMMA SameSequence ==
  ASSUME NEW s \in Seq(Int), NEW t \in Seq(Int), Len(s) <= Len(t),
         \A i \in 1 .. Len(s) : s[i] = t[i]
  PROVE  /\ Spp!IsPrefix(s, t)
         /\ Len(s) = Len(t) => s = t
<1>1. SubSeq(s, 1, Len(s)) = SubSeq(t, 1, Len(s))
  OBVIOUS
<1>2. Len(s) = Len(t) => s = t
  BY SMTT(30)
<1> QED
  BY <1>1, <1>2 DEF Spp!IsPrefix

\* The pointers stay in range and no ring holds more than its slots.
THEOREM SppTypeCorrect ==
  ASSUME Spp!SppUartAssumption, SppUartRoom
  PROVE  Spp!Spec => []Spp!TypeOK
<1>1. SppIInv => Spp!TypeOK
  <2> SUFFICES ASSUME SppIInv PROVE Spp!TypeOK
    OBVIOUS
  <2>1. /\ Len(spp_handled) \in Nat /\ Received \in Nat /\ Received - Len(spp_handled) <= RxNum
        /\ Len(spp_handled) <= Received /\ spp_rx = RingAfter(RxNum, Received, Len(spp_handled))
    BY RxRing DEF SppIInv, CommandInv
  <2>2. /\ Len(spp_queued) \in Nat /\ Taken \in Nat /\ Len(spp_queued) - Taken <= TxNum
        /\ Taken <= Len(spp_queued) /\ spp_tx = RingAfter(TxNum, Len(spp_queued), Taken)
    BY TxRing DEF SppIInv, EventInv
  <2>3. spp_rx.wptr \in 0 .. (Wrap - 1) /\ spp_rx.rptr \in 0 .. (Wrap - 1)
    BY <2>1, SppConstants, RingPointers
  <2>4. spp_tx.wptr \in 0 .. (Wrap - 1) /\ spp_tx.rptr \in 0 .. (Wrap - 1)
    BY <2>2, SppConstants, RingPointers
  <2>5. Spp!Filled(spp_rx) <= RxNum
    <3>1. /\ RxNum \in Nat \ {0} /\ Wrap \in Nat \ {0} /\ Wrap % RxNum = 0 /\ RxNum < Wrap
      BY SppConstants
    <3>2. Spp!Filled(spp_rx) = Received - Len(spp_handled)
      BY <2>1, <3>1, RingFacts
    <3> QED
      BY <2>1, <3>2
  <2>6. Spp!Filled(spp_tx) <= TxNum
    <3>1. /\ TxNum \in Nat \ {0} /\ Wrap \in Nat \ {0} /\ Wrap % TxNum = 0 /\ TxNum < Wrap
      BY SppConstants
    <3>2. Spp!Filled(spp_tx) = Len(spp_queued) - Taken
      BY <2>2, <3>1, RingFacts
    <3> QED
      BY <2>2, <3>2
  <2>7. /\ spp_uart.in \in {Spp!Nothing} \cup 1..MaxCmds
        /\ \A i \in DOMAIN spp_rxSlot : spp_rxSlot[i] \in {Spp!Torn, Spp!Nothing} \cup 1..MaxCmds
    <3>1. /\ spp_uart.in \in {Spp!Nothing, spp_sent} /\ spp_sent \in 0 .. MaxCmds
          /\ spp_rxSlot \in [0 .. RxNum - 1 -> {Spp!Torn, Spp!Nothing} \cup 1 .. MaxCmds]
      BY DEF SppIInv, CommandInv
    <3>2. spp_sent \in {Spp!Nothing} \cup 1 .. MaxCmds
      BY <3>1 DEF Spp!Nothing
    <3> QED
      BY <3>1, <3>2
  <2>8. /\ spp_uart.isUartTxDone \in BOOLEAN
        /\ spp_pm \in [suspend : BOOLEAN, tick_wakeup : BOOLEAN, data_flg : BOOLEAN,
               asleep : BOOLEAN]
        /\ spp_pin \in [mcu : BOOLEAN, pull : BOOLEAN, wakeup_mcu : BOOLEAN]
    BY DEF SppIInv, EventInv, PowerInv
  <2> QED
    BY <2>3, <2>4, <2>5, <2>6, <2>7, <2>8 DEF Spp!TypeOK
<1> QED
  BY <1>1, SppAlwaysIInv, PTL

\* Commands are handled whole, once each and in the order the MCU sent them,
\* across the wrap of the pointers, while the receive interrupt goes on filling
\* the ring (spp.c:240-290).
THEOREM SppCommandsKept ==
  ASSUME Spp!SppUartAssumption, SppUartRoom
  PROVE  Spp!Spec => []Spp!CmdsInOrder
<1>1. SppIInv => Spp!CmdsInOrder
  <2> SUFFICES ASSUME SppIInv PROVE Spp!CmdsInOrder
    OBVIOUS
  <2>1. spp_handled \in Seq(Int) /\ \A i \in 1 .. Len(spp_handled) : spp_handled[i] = i
    BY DEF SppIInv, CommandInv
  <2> QED
    BY <2>1 DEF Spp!CmdsInOrder
<1> QED
  BY <1>1, SppAlwaysIInv, PTL

\* What went out, and what is going out, are the first events queued.
LEMMA OutIsQueued ==
  ASSUME EventInv
  PROVE  Spp!IsPrefix(spp_out \o spp_uart.out, spp_queued)
             /\ (Len(spp_out) = Len(spp_queued) => spp_out = spp_queued)
<1> DEFINE o == spp_uart.out
<1>1. spp_out \in Seq(Int) /\ o \in Seq(Int) /\ spp_queued \in Seq(Int)
  BY DEF EventInv
<1>2. /\ \A i \in 1 .. Len(spp_out) : spp_out[i] = spp_queued[i]
      /\ \A i \in 1 .. Len(o) : o[i] = spp_queued[Len(spp_out) + i]
      /\ Len(spp_out) + Len(o) <= Len(spp_queued)
  BY DEF EventInv, Taken
<1> HIDE DEF o
<1> DEFINE both == spp_out \o o
<1>3. /\ both \in Seq(Int) /\ Len(both) = Len(spp_out) + Len(o) /\ Len(spp_out) \in Nat
      /\ Len(o) \in Nat
      /\ \A i \in 1 .. Len(spp_out) : both[i] = spp_out[i]
      /\ \A i \in 1 .. Len(o) : both[Len(spp_out) + i] = o[i]
  BY <1>1, Joined
<1> HIDE DEF both
<1>4. ASSUME NEW i \in 1 .. Len(both) PROVE both[i] = spp_queued[i]
  <2>1. CASE i <= Len(spp_out)
    BY <1>2, <1>3, <2>1
  <2>2. CASE i > Len(spp_out)
    <3>1. i - Len(spp_out) \in 1 .. Len(o) /\ Len(spp_out) + (i - Len(spp_out)) = i
      BY <1>3, <2>2
    <3>2. both[Len(spp_out) + (i - Len(spp_out))] = spp_queued[Len(spp_out) + (i - Len(spp_out))]
      BY <1>2, <1>3, <3>1
    <3> QED
      BY <3>1, <3>2
  <2> QED
    BY <1>3, <2>1, <2>2
<1>5. Spp!IsPrefix(both, spp_queued)
  BY <1>1, <1>2, <1>3, <1>4, SameSequence
<1>6. Len(spp_out) = Len(spp_queued) => spp_out = spp_queued
  <2>1. Len(spp_out) <= Len(spp_queued)
    BY <1>1, <1>2, <1>3
  <2> QED
    BY <1>1, <1>2, <2>1, SameSequence
<1> QED
  BY <1>5, <1>6 DEF both, o

\* Events go out whole, once each and in the order they were queued.
THEOREM SppEventsKept ==
  ASSUME Spp!SppUartAssumption, SppUartRoom
  PROVE  Spp!Spec => []Spp!EventsInOrder
<1>1. SppIInv => Spp!EventsInOrder
  BY OutIsQueued DEF SppIInv, Spp!EventsInOrder
<1> QED
  BY <1>1, SppAlwaysIInv, PTL

\* The module never sleeps over a command or an event, whatever the order in
\* which the MCU moves its pin, the interrupts come and the flags are read
\* (app.c:290-360).
THEOREM SppNeverSleepsBusy ==
  ASSUME Spp!SppUartAssumption, SppUartRoom
  PROVE  Spp!Spec => []Spp!SleepsIdle
<1>1. SppIInv => Spp!SleepsIdle
  <2> SUFFICES ASSUME SppIInv, spp_pm.asleep
               PROVE  spp_uart.in = Spp!Nothing /\ Len(spp_handled) = spp_sent
                          /\ spp_out = spp_queued
    BY DEF Spp!SleepsIdle
  <2>1. spp_uart.in = Spp!Nothing /\ Len(spp_handled) = spp_sent /\ Len(spp_out) = Len(spp_queued)
    BY DEF SppIInv, PowerInv
  <2> QED
    BY <2>1, OutIsQueued DEF SppIInv
<1> QED
  BY <1>1, SppAlwaysIInv, PTL

\* While an event waits or goes out the MCU is told to be awake.
THEOREM SppMcuStaysAwake ==
  ASSUME Spp!SppUartAssumption, SppUartRoom
  PROVE  Spp!Spec => []Spp!McuAwake
<1>1. SppIInv => Spp!McuAwake
  <2> SUFFICES ASSUME SppIInv, spp_out # spp_queued PROVE spp_pin.wakeup_mcu
    BY DEF Spp!McuAwake
  <2>1. Len(spp_out) # Len(spp_queued)
    BY OutIsQueued DEF SppIInv
  <2> QED
    BY <2>1 DEF SppIInv, PowerInv
<1> QED
  BY <1>1, SppAlwaysIInv, PTL
=============================================================================
