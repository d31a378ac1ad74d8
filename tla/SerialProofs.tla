---------------------------- MODULE SerialProofs ----------------------------
(***************************************************************************)
(* Proofs about the programs with a serial line: what FlashWrite promises, *)
(* for every page size, flash and buffer; what the USB serial port         *)
(* promises, for every number of packets; and that the two UARTs keep      *)
(* their promises among the other parts.                                   *)
(***************************************************************************)
EXTENDS MCSerial, WellFoundedInduction, TLAPS

\* The flash of the call when the bytes below address a are done.
Progress(a) ==
  [c \in Addr |-> IF c \in req.addr .. a - 1
                  THEN old[c] \cap req.data[c - req.addr + 1] ELSE old[c]]

\* The loop between two turns.
Loop ==
  /\ addr \in Nat
  /\ req.addr <= addr /\ addr + len = req.addr + Len(req.data)
  /\ addr + len <= PAGE_SIZE * Pages
  /\ Len(buf) = len
  /\ \A i \in 1 .. len : buf[i] = req.data[addr - req.addr + i]
  /\ ns = PAGE_SIZE - (addr % PAGE_SIZE)
  /\ flash = Progress(addr)

Running == mode \in {"writing", "stalled"} => Loop
Torn == mode = "off" => NothingElse

IInv == TypeOK /\ Programmed /\ Running /\ Torn

(***************************************************************************)
(* Arithmetic.                                                             *)
(***************************************************************************)
LEMMA ModRange ==
  ASSUME NEW a \in Nat, NEW P \in Nat \ {0}
  PROVE  a % P \in 0 .. P - 1
  BY SMT

LEMMA ModSmall ==
  ASSUME NEW P \in Nat \ {0}, NEW n \in 0 .. P - 1
  PROVE  n % P = n
  BY SMT

\* An address moved to the end of its page starts a page.
LEMMA NextPage ==
  ASSUME NEW a \in Nat, NEW P \in Nat \ {0}
  PROVE  (a + (P - (a % P))) % P = 0
  BY SMTT(30)

(***************************************************************************)
(* A piece that ends within its page programs its own bytes.               *)
(***************************************************************************)
LEMMA PieceLands ==
  ASSUME FlashWriteAssumption,
         NEW f \in [Addr -> Byte], NEW a \in Nat, NEW d \in Seq(Byte),
         Len(d) <= PAGE_SIZE - (a % PAGE_SIZE)
  PROVE  PageProgram(f, a, d) =
           [c \in Addr |-> IF c \in a .. a + Len(d) - 1 THEN f[c] \cap d[c - a + 1] ELSE f[c]]
<1>1. PAGE_SIZE \in Nat \ {0}
  BY DEF FlashWriteAssumption
<1>2. Len(d) \in Nat /\ DOMAIN d = 1 .. Len(d)
  OBVIOUS
<1>3. \A p \in DOMAIN d : Cell(a, p) = a + p - 1
  <2> SUFFICES ASSUME NEW p \in DOMAIN d PROVE Cell(a, p) = a + p - 1
    OBVIOUS
  <2> DEFINE r == a % PAGE_SIZE
  <2>1. r \in 0 .. PAGE_SIZE - 1
    BY <1>1, ModRange
  <2>2. p \in 1 .. Len(d) /\ Len(d) <= PAGE_SIZE - r
    BY <1>2
  <2>3. r + p - 1 \in 0 .. PAGE_SIZE - 1
    <3> HIDE DEF r
    <3> QED BY <1>1, <1>2, <2>1, <2>2
  <2>4. (r + p - 1) % PAGE_SIZE = r + p - 1
    <3> HIDE DEF r
    <3> DEFINE n == r + p - 1
    <3>1. n \in 0 .. PAGE_SIZE - 1
      BY <2>3
    <3> HIDE DEF n
    <3>2. n % PAGE_SIZE = n
      BY <1>1, <3>1, ModSmall
    <3> QED BY <3>2 DEF n
  <2>5. Cell(a, p) = (a - r) + ((r + p - 1) % PAGE_SIZE)
    BY DEF Cell
  <2> HIDE DEF r
  <2> QED BY <2>1, <2>2, <2>4, <2>5, <1>1
<1>4. ASSUME NEW c \in Addr
      PROVE {b \in f[c] : \A p \in DOMAIN d : Cell(a, p) = c => b \in d[p]} =
              IF c \in a .. a + Len(d) - 1 THEN f[c] \cap d[c - a + 1] ELSE f[c]
  <2>1. c \in Int
    BY DEF Addr
  <2>2. CASE c \in a .. a + Len(d) - 1
    <3>1. c - a + 1 \in DOMAIN d
      BY <1>2, <2>1, <2>2
    <3>2. \A p \in DOMAIN d : Cell(a, p) = c <=> p = c - a + 1
      BY <1>2, <1>3, <2>1
    <3>3. \A b \in f[c] : (\A p \in DOMAIN d : Cell(a, p) = c => b \in d[p]) <=> b \in d[c - a + 1]
      BY <3>1, <3>2, Zenon
    <3> QED BY <2>2, <3>3
  <2>3. CASE c \notin a .. a + Len(d) - 1
    <3>1. \A p \in DOMAIN d : Cell(a, p) # c
      BY <1>2, <1>3, <2>1, <2>3
    <3> QED BY <2>3, <3>1
  <2> QED BY <2>2, <2>3
<1>5. DOMAIN f = Addr
  OBVIOUS
<1> QED BY <1>4, <1>5 DEF PageProgram

\* A program operation clears bits at most.
LEMMA ProgramClears ==
  ASSUME NEW f \in [Addr -> Byte], NEW a, NEW d
  PROVE  /\ PageProgram(f, a, d) \in [Addr -> Byte]
         /\ \A c \in Addr : PageProgram(f, a, d)[c] \subseteq f[c]
  BY DEF PageProgram, Byte

(***************************************************************************)
(* The loop.                                                               *)
(***************************************************************************)
\* All of a call is its progress at its last address.
LEMMA WholeProgress ==
  ASSUME TypeOK
  PROVE  Progress(req.addr + Len(req.data)) = Written(old, req)
<1>1. DOMAIN old = Addr
  BY DEF TypeOK
<1>2. (req.addr + Len(req.data)) - 1 = req.addr + (Len(req.data) - 1)
  BY DEF TypeOK
<1>3. Progress(req.addr + Len(req.data)) =
        [c \in Addr |-> IF c \in req.addr .. (req.addr + Len(req.data)) - 1
                        THEN old[c] \cap req.data[c - req.addr + 1] ELSE old[c]]
  BY Zenon DEF Progress
<1>4. Written(old, req) =
        [c \in Addr |-> IF c \in req.addr .. req.addr + (Len(req.data) - 1)
                        THEN old[c] \cap req.data[c - req.addr + 1] ELSE old[c]]
  BY <1>1, Zenon DEF Written
<1> QED BY <1>2, <1>3, <1>4, Zenon

\* Progress lies between what the call leaves and what was there.
LEMMA ProgressBetween ==
  ASSUME TypeOK, NEW a \in Nat, a <= req.addr + Len(req.data)
  PROVE  /\ Progress(a) \in [Addr -> Byte]
         /\ \A c \in Addr : Written(old, req)[c] \subseteq Progress(a)[c] /\ Progress(a)[c] \subseteq old[c]
<1>1. old \in [Addr -> Byte] /\ DOMAIN old = Addr
  BY DEF TypeOK
<1>2. req.addr \in Nat /\ Len(req.data) \in Nat
  BY DEF TypeOK
<1>3. Addr \subseteq Int
  BY DEF Addr
<1>4. Progress(a) \in [Addr -> Byte]
  BY <1>1 DEF Progress, Byte
<1>5. ASSUME NEW c \in Addr
      PROVE Written(old, req)[c] \subseteq Progress(a)[c] /\ Progress(a)[c] \subseteq old[c]
  <2>1. CASE c \in req.addr .. a - 1
    <3>1. c \in req.addr .. req.addr + Len(req.data) - 1
      BY <1>2, <1>3, <2>1
    <3> QED BY <1>1, <2>1, <3>1 DEF Progress, Written
  <2>2. CASE c \notin req.addr .. a - 1
    <3>1. Progress(a)[c] = old[c]
      BY <2>2 DEF Progress
    <3>2. Written(old, req)[c] \subseteq old[c]
      BY <1>1 DEF Written
    <3> QED BY <3>1, <3>2
  <2> QED BY <2>1, <2>2
<1> QED BY <1>4, <1>5

\* What one turn programs.
LEMMA PieceDone ==
  ASSUME FlashWriteAssumption, TypeOK, Loop, NEW nw, nw = Smaller(len, ns)
  PROVE  /\ nw \in Nat /\ nw <= len /\ nw <= ns
         /\ nw < len => nw = ns
         /\ PageProgram(flash, addr, Take(buf, nw)) = Progress(addr + nw)
<1>1. /\ PAGE_SIZE \in Nat \ {0} /\ len \in Nat /\ ns \in 1 .. PAGE_SIZE /\ addr \in Nat
      /\ flash \in [Addr -> Byte] /\ old \in [Addr -> Byte] /\ buf \in Seq(Byte)
      /\ req.addr \in Nat /\ req.data \in Seq(Byte)
  BY DEF FlashWriteAssumption, TypeOK, Loop
<1>2. nw \in Nat /\ nw <= len /\ nw <= ns /\ (nw < len => nw = ns)
  BY <1>1 DEF Smaller
<1>3. /\ ns = PAGE_SIZE - (addr % PAGE_SIZE) /\ Len(buf) = len /\ req.addr <= addr
      /\ \A i \in 1 .. len : buf[i] = req.data[addr - req.addr + i]
      /\ flash = Progress(addr)
  BY DEF Loop
<1> DEFINE d == Take(buf, nw)
<1>4. d \in Seq(Byte) /\ Len(d) = nw /\ \A i \in 1 .. nw : d[i] = buf[i]
  BY <1>1, <1>2, <1>3 DEF Take
<1> HIDE DEF d
<1>5. PageProgram(flash, addr, d) =
        [c \in Addr |-> IF c \in addr .. addr + Len(d) - 1 THEN flash[c] \cap d[c - addr + 1] ELSE flash[c]]
  <2>1. Len(d) <= PAGE_SIZE - (addr % PAGE_SIZE)
    BY <1>2, <1>3, <1>4
  <2> QED BY <1>1, <1>4, <2>1, PieceLands, ZenonT(30)
<1>6. ASSUME NEW c \in Addr
      PROVE (IF c \in addr .. addr + nw - 1 THEN flash[c] \cap d[c - addr + 1] ELSE flash[c]) =
              (IF c \in req.addr .. (addr + nw) - 1 THEN old[c] \cap req.data[c - req.addr + 1] ELSE old[c])
  <2>1. c \in Int
    BY DEF Addr
  <2>2. flash[c] = IF c \in req.addr .. addr - 1 THEN old[c] \cap req.data[c - req.addr + 1] ELSE old[c]
    BY <1>3 DEF Progress
  <2>3. CASE c \in addr .. addr + nw - 1
    <3>1. flash[c] = old[c] /\ c \in req.addr .. (addr + nw) - 1
      BY <1>1, <1>2, <1>3, <2>1, <2>2, <2>3
    <3>2. c - addr + 1 \in 1 .. nw /\ c - addr + 1 \in 1 .. len
      BY <1>1, <1>2, <2>1, <2>3
    <3>3. d[c - addr + 1] = req.data[addr - req.addr + (c - addr + 1)]
      BY <1>3, <1>4, <3>2
    <3>4. addr - req.addr + (c - addr + 1) = c - req.addr + 1
      BY <1>1, <2>1
    <3> QED BY <2>3, <3>1, <3>3, <3>4
  <2>4. CASE c \notin addr .. addr + nw - 1
    <3>1. c \in req.addr .. addr - 1 <=> c \in req.addr .. (addr + nw) - 1
      BY <1>1, <1>2, <1>3, <2>1, <2>4
    <3> QED BY <2>2, <2>4, <3>1
  <2> QED BY <2>3, <2>4
<1>7. PageProgram(flash, addr, d) = Progress(addr + nw)
  <2>1. PageProgram(flash, addr, d) =
          [c \in Addr |-> IF c \in addr .. addr + nw - 1 THEN flash[c] \cap d[c - addr + 1] ELSE flash[c]]
    BY <1>4, <1>5, Zenon
  <2>2. Progress(addr + nw) =
          [c \in Addr |-> IF c \in req.addr .. (addr + nw) - 1
                          THEN old[c] \cap req.data[c - req.addr + 1] ELSE old[c]]
    BY Zenon DEF Progress
  <2> DEFINE done == PageProgram(flash, addr, d)
             step == Progress(addr + nw)
  <2>3. /\ done = [c \in Addr |-> done[c]] /\ step = [c \in Addr |-> step[c]]
        /\ \A c \in Addr : done[c] = step[c]
    <3>1. ASSUME NEW c \in Addr PROVE done[c] = step[c]
      <4>1. done[c] = IF c \in addr .. addr + nw - 1 THEN flash[c] \cap d[c - addr + 1] ELSE flash[c]
        BY <2>1
      <4>2. step[c] = IF c \in req.addr .. (addr + nw) - 1
                      THEN old[c] \cap req.data[c - req.addr + 1] ELSE old[c]
        BY <2>2
      <4> QED BY <1>6, <4>1, <4>2, Zenon
    <3>2. done = [c \in Addr |-> done[c]]
      BY <2>1
    <3>3. step = [c \in Addr |-> step[c]]
      BY <2>2
    <3> QED BY <3>1, <3>2, <3>3
  <2> HIDE DEF done, step
  <2>4. [c \in Addr |-> done[c]] = [c \in Addr |-> step[c]]
    BY <2>3, Zenon
  <2> QED BY <2>3, <2>4, Zenon DEF done, step
<1> QED BY <1>2, <1>7 DEF d

\* A turn keeps the invariant.
LEMMA PieceStep ==
  ASSUME FlashWriteAssumption, IInv, Piece
  PROVE  IInv'
<1>1. Loop /\ TypeOK /\ mode = "writing"
  BY DEF IInv, Running, Piece
<1>2. PICK nw \in {Smaller(len, ns)} :
        IF req.const /\ nw > Stack
        THEN mode' = "stalled" /\ UNCHANGED <<flash, addr, len, ns, buf>>
        ELSE flash' = PageProgram(flash, addr, Take(buf, nw)) /\ Advance(nw)
  BY DEF Piece
<1>3. UNCHANGED <<req, old>>
  BY DEF Piece
<1>4. CASE req.const /\ nw > Stack
  <2>1. mode' = "stalled" /\ UNCHANGED <<flash, addr, len, ns, buf>>
    BY <1>2, <1>4
  <2>2. TypeOK'
    BY <1>1, <1>3, <2>1 DEF TypeOK, Addr, Byte
  <2>3. Loop'
    BY <1>1, <1>3, <2>1 DEF Loop, Progress
  <2> QED BY <2>1, <2>2, <2>3 DEF IInv, Running, Torn, Programmed
<1>5. CASE ~(req.const /\ nw > Stack)
  <2>1. flash' = PageProgram(flash, addr, Take(buf, nw)) /\ Advance(nw)
    BY <1>2, <1>5
  <2>2. /\ nw \in Nat /\ nw <= len /\ nw <= ns /\ (nw < len => nw = ns)
        /\ flash' = Progress(addr + nw)
    <3>1. nw = Smaller(len, ns)
      BY <1>2
    <3> QED BY <1>1, <2>1, <3>1, PieceDone
  <2>3. /\ PAGE_SIZE \in Nat \ {0} /\ len \in Nat /\ addr \in Nat /\ buf \in Seq(Byte)
        /\ req.addr \in Nat /\ req.data \in Seq(Byte) /\ Pages \in Nat
    BY <1>1 DEF FlashWriteAssumption, TypeOK, Loop
  <2>4. /\ ns' = PAGE_SIZE /\ addr' = addr + nw /\ buf' = Drop(buf, nw) /\ len' = len - nw
        /\ mode' = IF len' > 0 THEN "writing" ELSE "idle"
    BY <2>1 DEF Advance
  <2>5. /\ req.addr <= addr /\ addr + len = req.addr + Len(req.data)
        /\ addr + len <= PAGE_SIZE * Pages /\ Len(buf) = len
        /\ \A i \in 1 .. len : buf[i] = req.data[addr - req.addr + i]
        /\ ns = PAGE_SIZE - (addr % PAGE_SIZE)
    BY <1>1 DEF Loop
  <2>6. /\ buf' \in Seq(Byte) /\ Len(buf') = len'
        /\ \A i \in 1 .. len' : buf'[i] = buf[nw + i]
    <3>1. nw \in 0 .. Len(buf) /\ len = Len(buf)
      BY <2>2, <2>3, <2>5
    <3>2. buf' = SubSeq(buf, nw + 1, Len(buf))
      BY <2>4 DEF Drop
    <3>3. buf' \in Seq(Byte) /\ Len(buf') = Len(buf) - nw /\ \A i \in 1 .. Len(buf) - nw : buf'[i] = buf[nw + i]
      BY <2>3, <3>1, <3>2, SMTT(40)
    <3> QED BY <2>4, <3>1, <3>3
  <2>7. len' \in Nat /\ addr' \in Nat /\ addr' + len' = addr + len
    BY <2>2, <2>3, <2>4
  <2>8. flash' \in [Addr -> Byte]
    <3>1. addr + nw <= req.addr + Len(req.data)
      BY <2>2, <2>3, <2>5
    <3> QED BY <1>1, <2>2, <2>3, <3>1, ProgressBetween
  <2>9. TypeOK'
    <3>1. addr' \in 0 .. PAGE_SIZE * Pages
      <4> DEFINE size == PAGE_SIZE * Pages
      <4>1. size \in Nat /\ addr + len <= size
        BY <2>3, <2>5
      <4> HIDE DEF size
      <4>2. addr' \in 0 .. size
        BY <2>2, <2>3, <2>4, <4>1
      <4> QED BY <4>2 DEF size
    <3>2. ns' \in 1 .. PAGE_SIZE /\ mode' \in {"idle", "writing", "stalled", "off"}
      BY <2>3, <2>4
    <3>3. old' \in [Addr -> Byte]
      BY <1>1, <1>3 DEF TypeOK
    <3>4. req' \in [addr : Nat, data : Seq(Byte), const : BOOLEAN]
      BY <1>1, <1>3 DEF TypeOK
    <3> QED BY <2>6, <2>7, <2>8, <3>1, <3>2, <3>3, <3>4 DEF TypeOK, Addr, Byte
  <2>10. ASSUME len' > 0 PROVE Loop'
    <3>1. nw = ns
      BY <2>2, <2>3, <2>4, <2>10
    <3>2. (addr + (PAGE_SIZE - (addr % PAGE_SIZE))) % PAGE_SIZE = 0
      BY <2>3, NextPage
    <3>3. addr' % PAGE_SIZE = 0
      BY <2>4, <2>5, <3>1, <3>2
    <3>4. ns' = PAGE_SIZE - (addr' % PAGE_SIZE)
      BY <2>3, <2>4, <3>3
    <3>5. \A i \in 1 .. len' : buf'[i] = req.data[addr' - req.addr + i]
      <4> SUFFICES ASSUME NEW i \in 1 .. len' PROVE buf'[i] = req.data[addr' - req.addr + i]
        OBVIOUS
      <4>1. nw + i \in 1 .. len
        BY <2>2, <2>3, <2>4
      <4>2. buf'[i] = req.data[addr - req.addr + (nw + i)]
        BY <2>5, <2>6, <4>1
      <4>3. addr - req.addr + (nw + i) = addr' - req.addr + i
        BY <2>2, <2>3, <2>4, <4>1
      <4> QED BY <4>2, <4>3
    <3>6. req.addr <= addr'
      BY <2>2, <2>3, <2>4, <2>5
    <3>7. flash' = Progress(addr')
      BY <2>2, <2>4
    <3>8. addr' + len' = req.addr + Len(req.data) /\ addr' + len' <= PAGE_SIZE * Pages
      BY <2>5, <2>7
    <3>9. flash' = Progress(addr)'
      BY <1>3, <3>7 DEF Progress
    <3> QED BY <1>3, <2>6, <2>7, <3>4, <3>5, <3>6, <3>8, <3>9 DEF Loop
  <2>11. ASSUME ~(len' > 0) PROVE flash' = Written(old, req)
    <3>1. addr + nw = req.addr + Len(req.data)
      BY <2>2, <2>3, <2>4, <2>5, <2>11
    <3> QED BY <1>1, <2>2, <3>1, WholeProgress
  <2>12. Programmed'
    BY <1>3, <2>4, <2>11 DEF Programmed, Written
  <2>13. Running'
    BY <2>4, <2>10 DEF Running
  <2>14. Torn'
    BY <2>4 DEF Torn
  <2> QED BY <2>9, <2>12, <2>13, <2>14 DEF IInv
<1> QED BY <1>4, <1>5

(***************************************************************************)
(* The other steps.                                                        *)
(***************************************************************************)
LEMMA CallStep ==
  ASSUME FlashWriteAssumption, IInv,
         NEW a \in Addr, NEW d \in Data, NEW const \in BOOLEAN, flash_page_program(a, d, const)
  PROVE  IInv'
<1>1. /\ PAGE_SIZE \in Nat \ {0} /\ Pages \in Nat /\ d \in Seq(Byte) /\ Len(d) \in Nat
      /\ a \in Nat /\ flash \in [Addr -> Byte]
  BY DEF FlashWriteAssumption, IInv, TypeOK, Addr, Byte
<1>2. /\ a + Len(d) <= PAGE_SIZE * Pages
      /\ mode' = "writing" /\ addr' = a /\ len' = Len(d) /\ ns' = PAGE_SIZE - (a % PAGE_SIZE) /\ buf' = d
      /\ req' = [addr |-> a, data |-> d, const |-> const]
      /\ old' = flash /\ flash' = flash
  BY DEF flash_page_program, FirstPiece
<1>3. a % PAGE_SIZE \in 0 .. PAGE_SIZE - 1
  BY <1>1, ModRange
<1>4. TypeOK'
  <2>1. ns' \in 1 .. PAGE_SIZE
    BY <1>1, <1>2, <1>3
  <2>2. addr' \in 0 .. PAGE_SIZE * Pages
    <3> DEFINE size == PAGE_SIZE * Pages
    <3>1. size \in Nat /\ a + Len(d) <= size
      BY <1>1, <1>2
    <3> HIDE DEF size
    <3>2. addr' \in 0 .. size
      BY <1>1, <1>2, <3>1
    <3> QED BY <3>2 DEF size
  <2> QED BY <1>1, <1>2, <2>1, <2>2 DEF TypeOK, Addr, Byte
<1>5. Progress(a)' = flash
  <2>1. \A c \in Addr : c \notin a .. a - 1
    BY <1>1 DEF Addr
  <2>2. Progress(a)' = [c \in Addr |-> IF c \in a .. a - 1 THEN flash[c] \cap d[c - a + 1] ELSE flash[c]]
    BY <1>2 DEF Progress, Addr
  <2> QED BY <1>1, <2>1, <2>2
<1>6. Loop'
  <2>1. flash' = Progress(addr)'
    BY <1>2, <1>5 DEF Progress
  <2>2. \A i \in 1 .. Len(d) : d[i] = d[a - a + i]
    BY <1>1
  <2> QED BY <1>1, <1>2, <2>1, <2>2 DEF Loop
<1> QED BY <1>2, <1>4, <1>6 DEF IInv, Programmed, Running, Torn

\* No call leaves the flash as it is.
LEMMA NothingWritten ==
  ASSUME NEW f \in [Addr -> Byte]
  PROVE  Written(f, NoCall) = f
<1>1. \A c \in Addr : c \notin 0 .. 0 + Len(<<>>) - 1
  BY DEF Addr
<1> QED BY <1>1 DEF Written, NoCall

LEMMA EraseStep ==
  ASSUME FlashWriteAssumption, IInv, NEW a \in Addr, flash_erase_sector(a)
  PROVE  IInv'
<1>1. flash' \in [Addr -> Byte] /\ old' = flash' /\ req' = NoCall /\ mode' = "idle"
      /\ UNCHANGED <<addr, len, ns, buf>>
  BY DEF IInv, TypeOK, flash_erase_sector, Byte
<1>2. TypeOK'
  BY <1>1 DEF IInv, TypeOK, Addr, Byte, NoCall
<1>3. flash' = Written(flash', NoCall)
  BY <1>1, NothingWritten
<1>4. Programmed'
  BY <1>1, <1>3 DEF Programmed, Written
<1> QED BY <1>1, <1>2, <1>4 DEF IInv, Running, Torn

LEMMA StartStep ==
  ASSUME FlashWriteAssumption, IInv, Start
  PROVE  IInv'
<1>1. flash \in [Addr -> Byte] /\ flash' = flash /\ old' = flash /\ req' = NoCall /\ mode' = "idle"
      /\ UNCHANGED <<addr, len, ns, buf>>
  BY DEF IInv, TypeOK, Start
<1>2. TypeOK'
  BY <1>1 DEF IInv, TypeOK, Addr, Byte, NoCall
<1>3. Programmed'
  BY <1>1, NothingWritten DEF Programmed, Written
<1> QED BY <1>1, <1>2, <1>3 DEF IInv, Running, Torn

\* What holds between two turns keeps the other bytes.
LEMMA LoopNothingElse ==
  ASSUME FlashWriteAssumption, TypeOK, Loop
  PROVE  NothingElse
<1>1. addr \in Nat /\ addr <= req.addr + Len(req.data) /\ flash = Progress(addr)
  BY DEF Loop, TypeOK
<1> QED BY <1>1, ProgressBetween DEF NothingElse

\* Whatever is left of a piece that was cut off lies between the two.
LEMMA PowerStep ==
  ASSUME FlashWriteAssumption, IInv, PowerFailsWriting
  PROVE  IInv'
<1>1. Loop /\ TypeOK
  BY DEF IInv, Running, PowerFailsWriting
<1>2. mode' = "off" /\ UNCHANGED <<addr, len, ns, buf, req, old>>
  BY DEF PowerFailsWriting
<1>3. NothingElse
  BY <1>1, LoopNothingElse
<1> DEFINE done == PageProgram(flash, addr, Take(buf, Smaller(len, ns)))
<1>4. done \in [Addr -> Byte] /\ \A c \in Addr : Written(old, req)[c] \subseteq done[c] /\ done[c] \subseteq old[c]
  <2> DEFINE nw == Smaller(len, ns)
  <2>1. nw \in Nat /\ nw <= len /\ done = Progress(addr + nw)
    BY <1>1, PieceDone
  <2>2. addr + nw \in Nat /\ addr + nw <= req.addr + Len(req.data)
    <3> HIDE DEF nw
    <3> QED BY <1>1, <2>1 DEF Loop, TypeOK
  <2> HIDE DEF nw, done
  <2> QED BY <1>1, <2>1, <2>2, ProgressBetween
<1> HIDE DEF done
<1>5. flash' \in [Addr -> Byte] /\ \A c \in Addr : flash'[c] \in {flash[c], done[c]}
  <2>1. flash \in [Addr -> Byte]
    BY <1>1 DEF TypeOK
  <2>2. CASE flash' = flash
    BY <2>1, <2>2
  <2>3. CASE \E left \in SUBSET {c \in Addr : done[c] # flash[c]} :
               flash' = [c \in Addr |-> IF c \in left THEN flash[c] ELSE done[c]]
    BY <1>4, <2>1, <2>3
  <2> QED BY <2>2, <2>3 DEF PowerFailsWriting, done
<1>6. TypeOK'
  BY <1>1, <1>2, <1>5 DEF TypeOK, Addr, Byte
<1>7. NothingElse'
  <2>1. Written(old, req)' = Written(old, req)
    BY <1>2 DEF Written
  <2>2. \A c \in Addr : Written(old, req)[c] \subseteq flash'[c] /\ flash'[c] \subseteq old[c]
    BY <1>3, <1>4, <1>5 DEF NothingElse
  <2> QED BY <1>2, <2>1, <2>2 DEF NothingElse, Addr
<1> QED BY <1>2, <1>6, <1>7 DEF IInv, Programmed, Running, Torn

(***************************************************************************)
(* The invariant.                                                          *)
(***************************************************************************)
LEMMA InitIInv ==
  ASSUME FlashWriteAssumption, Init
  PROVE  IInv
<1>1. flash \in [Addr -> Byte] /\ old = flash /\ req = NoCall /\ mode = "idle"
  BY DEF Init, Byte
<1>2. TypeOK
  <2>1. 0 \in 0 .. PAGE_SIZE * Pages /\ PAGE_SIZE \in 1 .. PAGE_SIZE
    BY DEF FlashWriteAssumption
  <2> QED BY <1>1, <2>1 DEF Init, TypeOK, NoCall, Byte
<1>3. Programmed
  BY <1>1, NothingWritten DEF Programmed
<1> QED BY <1>1, <1>2, <1>3 DEF IInv, Running, Torn

LEMMA NextIInv ==
  ASSUME FlashWriteAssumption, IInv, [Next]_vars
  PROVE  IInv'
<1>1. CASE \E a \in Addr, d \in Data, const \in BOOLEAN : flash_page_program(a, d, const)
  BY <1>1, CallStep
<1>2. CASE Piece
  BY <1>2, PieceStep
<1>3. CASE \E a \in Addr : flash_erase_sector(a)
  BY <1>3, EraseStep
<1>4. CASE PowerFailsWriting
  BY <1>4, PowerStep
<1>5. CASE Start
  BY <1>5, StartStep
<1>6. CASE UNCHANGED vars
  BY <1>6 DEF vars, IInv, TypeOK, Programmed, Running, Torn, Loop, Progress, NothingElse, Written, Addr, Byte
<1> QED BY <1>1, <1>2, <1>3, <1>4, <1>5, <1>6 DEF Next

LEMMA Invariant == Spec => []IInv
<1>1. FlashWriteAssumption
  BY FlashWriteAssumption
<1>2. Init => IInv
  BY <1>1, InitIInv
<1>3. IInv /\ [Next]_vars => IInv'
  BY <1>1, NextIInv
<1> QED BY <1>2, <1>3, PTL DEF Spec

\* The flash, the variables of the loop and the call stay in their types: no
\* address leaves the flash and no length goes below zero.
THEOREM TypeCorrect == Spec => []TypeOK
<1>1. IInv => TypeOK
  BY DEF IInv
<1> QED BY <1>1, Invariant, PTL

\* Any buffer, wherever it lies across the pages, is programmed as a whole when
\* the call returns, and nothing else is.
THEOREM WholeBufferProgrammed == Spec => []Programmed
<1>1. IInv => Programmed
  BY DEF IInv
<1> QED BY <1>1, Invariant, PTL

\* At any moment, also when power fails within a piece, no other byte has
\* changed and no bit is lost that was to stay.
THEOREM NothingElseChanges == Spec => []NothingElse
<1>1. IInv => NothingElse
  <2> SUFFICES ASSUME IInv PROVE NothingElse
    OBVIOUS
  <2>1. TypeOK
    BY DEF IInv
  <2>2. CASE mode \in {"writing", "stalled"}
    BY <2>1, <2>2, FlashWriteAssumption, LoopNothingElse DEF IInv, Running
  <2>3. CASE mode = "off"
    BY <2>3 DEF IInv, Torn
  <2>4. CASE mode = "idle"
    <3>1. flash = Written(old, req) /\ old \in [Addr -> Byte]
      BY <2>1, <2>4 DEF IInv, Programmed, TypeOK
    <3>2. \A c \in Addr : Written(old, req)[c] \subseteq old[c]
      BY <3>1 DEF Written
    <3> QED BY <3>1, <3>2 DEF NothingElse
  <2> QED BY <2>1, <2>2, <2>3, <2>4 DEF TypeOK
<1> QED BY <1>1, Invariant, PTL

-----------------------------------------------------------------------------
(***************************************************************************)
(* Induction on numbers, over sets.                                        *)
(***************************************************************************)
\* A set of numbers has a least one.
LEMMA LeastNumber ==
  ASSUME NEW T, T \subseteq Nat, T # {}
  PROVE  \E x \in T : \A y \in T : x <= y
<1> DEFINE R == {ss \in Nat \X Nat : ss[1] < ss[2]}
<1>1. OpToRel(<, Nat) = R
  BY DEF OpToRel
<1>2. IsWellFoundedOn(R, Nat)
  <2> HIDE DEF R
  <2> QED
    BY <1>1, NatLessThanWellFounded
<1>3. PICK x \in T : \A y \in T : ~ (<<y, x>> \in R)
  <2> HIDE DEF R
  <2> QED
    BY <1>2, WFMin
<1>4. ASSUME NEW y \in T PROVE x <= y
  <2>1. x \in Nat /\ y \in Nat /\ ~(<<y, x>> \in R)
    BY <1>3
  <2>2. <<y, x>> \in Nat \X Nat /\ <<y, x>>[1] = y /\ <<y, x>>[2] = x
    BY <2>1
  <2>3. ~(y < x)
    BY <2>1, <2>2
  <2> QED
    BY <2>1, <2>3
<1> QED
  BY <1>3, <1>4

\* A set of numbers that holds 0 and the number after each of its own holds all.
LEMMA Induction ==
  ASSUME NEW P, 0 \in P, \A n \in Nat : n \in P => n + 1 \in P
  PROVE  Nat \subseteq P
<1> DEFINE T == Nat \ P
<1>1. ASSUME T # {} PROVE FALSE
  <2>1. PICK x \in T : \A y \in T : x <= y
    BY <1>1, LeastNumber
  <2>2. x \in Nat /\ x # 0 /\ x \notin P
    BY <2>1
  <2>3. x - 1 \in Nat /\ x - 1 \notin T
    BY <2>1, <2>2
  <2>4. (x - 1) + 1 = x
    BY <2>2
  <2> QED
    BY <2>2, <2>3, <2>4
<1> QED
  BY <1>1

\* What n steps of F make of x.
Steps(h, x, n, F) == h[0] = x /\ \A k \in 1 .. n : h[k] = F[k][h[k - 1]]

\* They can be taken, whatever the steps are.
LEMMA Recursion ==
  ASSUME NEW S, NEW x \in S, NEW n \in Nat, NEW F \in [1 .. n -> [S -> S]]
  PROVE  \E h \in [0 .. n -> S] : Steps(h, x, n, F)
<1> DEFINE Upto(m, h) == h[0] = x /\ \A k \in 1 .. m : h[k] = F[k][h[k - 1]]
           P == {m \in Nat : m <= n => \E h \in [0 .. m -> S] : Upto(m, h)}
<1>1. 0 \in P
  <2> DEFINE h == [k \in 0 .. 0 |-> x]
  <2>1. h \in [0 .. 0 -> S] /\ Upto(0, h)
    OBVIOUS
  <2> QED
    BY <2>1
<1>2. ASSUME NEW m \in Nat, m \in P PROVE m + 1 \in P
  <2> SUFFICES ASSUME m + 1 <= n PROVE \E h \in [0 .. m + 1 -> S] : Upto(m + 1, h)
    OBVIOUS
  <2>1. PICK g \in [0 .. m -> S] : Upto(m, g)
    BY <1>2
  <2> DEFINE h == [k \in 0 .. m + 1 |-> IF k = m + 1 THEN F[m + 1][g[m]] ELSE g[k]]
  <2>2. m + 1 \in 1 .. n /\ m \in 0 .. m /\ g[m] \in S /\ F[m + 1] \in [S -> S]
    BY <1>2
  <2>3. F[m + 1][g[m]] \in S
    BY <2>2
  <2>4. h \in [0 .. m + 1 -> S]
    BY <2>3
  <2>5. \A k \in 0 .. m : h[k] = g[k]
    OBVIOUS
  <2>6. h[m + 1] = F[m + 1][h[m]]
    BY <2>2, <2>5
  <2>7. ASSUME NEW k \in 1 .. m + 1 PROVE h[k] = F[k][h[k - 1]]
    <3>1. CASE k = m + 1
      BY <2>6, <3>1
    <3>2. CASE k # m + 1
      <4>1. k \in 1 .. m /\ k \in 0 .. m /\ k - 1 \in 0 .. m
        BY <3>2
      <4> HIDE DEF h
      <4> QED
        BY <2>1, <2>5, <4>1
    <3> QED
      BY <3>1, <3>2
  <2>8. h[0] = x
    BY <2>1, <2>5
  <2> HIDE DEF h
  <2> QED
    BY <2>4, <2>7, <2>8
<1>3. Nat \subseteq P
  <2> HIDE DEF P
  <2> QED
    BY <1>1, <1>2, Induction
<1>4. n \in P
  BY <1>3
<1> QED
  BY <1>4 DEF Steps

-----------------------------------------------------------------------------
(***************************************************************************)
(* The echo over USB, for any number of packets.                           *)
(***************************************************************************)
AnyPacket == [n : Nat, size : {"short", "full", "empty", "none"}]

LEMMA EchoType == ASSUME NEW p \in AnyPacket PROVE Cdc!Echo(p) \in Seq(AnyPacket)
<1>1. Cdc!Empty \in AnyPacket
  BY DEF Cdc!Empty, AnyPacket
<1>2. <<p>> \in Seq(AnyPacket) /\ <<p, Cdc!Empty>> \in Seq(AnyPacket) /\ <<>> \in Seq(AnyPacket)
  BY <1>1
<1>3. Cdc!Echo(p) = IF p.size = "short" THEN <<p>> ELSE IF p.size = "full" THEN <<p, Cdc!Empty>> ELSE <<>>
  <2>1. CASE p.size = "short"
    BY <2>1 DEF Cdc!Echo
  <2>2. CASE p.size = "full"
    BY <2>2 DEF Cdc!Echo
  <2>3. CASE p.size \notin {"short", "full"}
    BY <2>3 DEF Cdc!Echo
  <2> QED
    BY <2>1, <2>2, <2>3
<1> HIDE DEF AnyPacket
<1> QED
  BY <1>2, <1>3

\* FlattenSeq joins from the left.
Joins(h, seqs) == h[0] = <<>> /\ \A k \in 1 .. Len(seqs) : h[k] = h[k - 1] \o seqs[k]

LEMMA FlattenIs ==
  ASSUME NEW S, NEW seqs \in Seq(Seq(S)), NEW h \in [0 .. Len(seqs) -> Seq(S)], Joins(h, seqs)
  PROVE  Cdc!FlattenSeq(seqs) = h[Len(seqs)]
<1> DEFINE n == Len(seqs)
           Flat(f) == f = [i \in 1 .. n |-> IF i = 1 THEN seqs[i] ELSE f[i - 1] \o seqs[i]]
           flatten == CHOOSE f : Flat(f)
<1>1. n \in Nat
  OBVIOUS
<1>2. CASE n = 0
  <2>1. seqs = <<>>
    BY <1>2
  <2> QED
    BY <1>2, <2>1 DEF Cdc!FlattenSeq, Joins
<1>3. CASE n # 0
  <2>1. Cdc!FlattenSeq(seqs) = flatten[n]
    BY <1>3 DEF Cdc!FlattenSeq
  <2>2. Flat(flatten)
    <3> DEFINE g == [i \in 1 .. n |-> h[i]]
    <3>1. ASSUME NEW i \in 1 .. n PROVE g[i] = IF i = 1 THEN seqs[i] ELSE g[i - 1] \o seqs[i]
      <4>1. h[i] = h[i - 1] \o seqs[i]
        BY DEF Joins
      <4>2. CASE i = 1
        <5>1. seqs[1] \in Seq(S) /\ h[0] = <<>>
          BY <1>1, <4>2 DEF Joins
        <5>2. <<>> \o seqs[1] = seqs[1]
          BY <5>1
        <5>0. i - 1 = 0
          BY <4>2
        <5>3. h[1] = seqs[1]
          BY <4>1, <4>2, <5>0, <5>1, <5>2
        <5> QED
          BY <4>2, <5>3
      <4>3. CASE i # 1
        <5>1. i - 1 \in 1 .. n
          BY <1>1, <4>3
        <5> QED
          BY <4>1, <4>3, <5>1
      <4> QED
        BY <4>2, <4>3
    <3>2. Flat(g)
      <4> DEFINE G(i) == IF i = 1 THEN seqs[i] ELSE g[i - 1] \o seqs[i]
      <4>1. \A i \in 1 .. n : g[i] = G(i)
        BY <3>1
      <4>2. g = [i \in 1 .. n |-> g[i]]
        OBVIOUS
      <4> HIDE DEF g
      <4>3. g = [i \in 1 .. n |-> G(i)]
        BY <4>1, <4>2, Zenon
      <4> QED
        BY <4>3
    <3> HIDE DEF g, Flat
    <3> QED
      BY <3>2
  <2>3. \A i \in 1 .. n : flatten[i] = IF i = 1 THEN seqs[i] ELSE flatten[i - 1] \o seqs[i]
    <3> HIDE DEF flatten
    <3> QED
      BY <2>2
  <2> DEFINE P == {m \in Nat : m \in 1 .. n => flatten[m] = h[m]}
  <2> HIDE DEF flatten
  <2>4. 0 \in P
    OBVIOUS
  <2>5. ASSUME NEW m \in Nat, m \in P PROVE m + 1 \in P
    <3> SUFFICES ASSUME m + 1 \in 1 .. n PROVE flatten[m + 1] = h[m + 1]
      OBVIOUS
    <3>1. h[m + 1] = h[m] \o seqs[m + 1]
      <4>1. m + 1 \in 1 .. Len(seqs) /\ (m + 1) - 1 = m
        OBVIOUS
      <4> QED
        BY <4>1 DEF Joins
    <3>2. CASE m = 0
      <4>1. seqs[1] \in Seq(S) /\ h[0] = <<>>
        BY <1>1, <3>2 DEF Joins
      <4>2. <<>> \o seqs[1] = seqs[1]
        BY <4>1
      <4>3. flatten[1] = seqs[1]
        BY <2>3, <3>2
      <4> QED
        BY <3>1, <3>2, <4>1, <4>2, <4>3
    <3>3. CASE m # 0
      <4>1. m \in 1 .. n /\ m + 1 # 1 /\ (m + 1) - 1 = m
        BY <1>1, <3>3
      <4>2. flatten[m + 1] = flatten[m] \o seqs[m + 1]
        BY <2>3, <4>1
      <4>3. flatten[m] = h[m]
        BY <2>5, <4>1
      <4> QED
        BY <3>1, <4>2, <4>3
    <3> QED
      BY <3>2, <3>3
  <2>6. Nat \subseteq P
    <3> HIDE DEF P
    <3> QED
      BY <2>4, <2>5, Induction
  <2> QED
    BY <1>1, <1>3, <2>1, <2>6
<1> QED
  BY <1>2, <1>3

LEMMA JoinsExist ==
  ASSUME NEW S, NEW seqs \in Seq(Seq(S))
  PROVE  \E h \in [0 .. Len(seqs) -> Seq(S)] : Joins(h, seqs)
<1> DEFINE n == Len(seqs)
           Q == Seq(S)
           F == [k \in 1 .. n |-> [v \in Q |-> v \o seqs[k]]]
<1>1. n \in Nat /\ <<>> \in Q
  OBVIOUS
<1>2. F \in [1 .. n -> [Q -> Q]]
  <2>1. ASSUME NEW k \in 1 .. n, NEW v \in Q PROVE v \o seqs[k] \in Q
    OBVIOUS
  <2> HIDE DEF Q
  <2> QED
    BY <2>1
<1>3. PICK h \in [0 .. n -> Q] : Steps(h, <<>>, n, F)
  <2> HIDE DEF F, Q, n
  <2> QED
    BY <1>1, <1>2, Recursion
<1>4. ASSUME NEW k \in 1 .. n PROVE h[k] = h[k - 1] \o seqs[k]
  <2>1. k - 1 \in 0 .. n
    BY <1>1
  <2>2. h[k] = F[k][h[k - 1]] /\ h[k - 1] \in Q
    BY <1>3, <2>1 DEF Steps
  <2> HIDE DEF Q
  <2> QED
    BY <2>2
<1>5. h[0] = <<>>
  BY <1>3 DEF Steps
<1> QED
  BY <1>4, <1>5 DEF Joins

\* One more packet sent is its echo more to come.
LEMMA EchoesAppend ==
  ASSUME NEW s \in Seq(AnyPacket), NEW p \in AnyPacket
  PROVE  /\ Cdc!Echoes(s) \in Seq(AnyPacket)
         /\ Cdc!Echoes(Append(s, p)) = Cdc!Echoes(s) \o Cdc!Echo(p)
<1> DEFINE t == Append(s, p)
           n == Len(s)
           E(u) == [i \in DOMAIN u |-> Cdc!Echo(u[i])]
           S == Seq(AnyPacket)
<1>1. /\ t \in Seq(AnyPacket) /\ n \in Nat /\ Len(t) = n + 1 /\ t[n + 1] = p
      /\ \A i \in 1 .. n : t[i] = s[i]
  OBVIOUS
<1>2. ASSUME NEW u \in Seq(AnyPacket)
      PROVE  E(u) \in Seq(S) /\ Len(E(u)) = Len(u) /\ \A i \in 1 .. Len(u) : E(u)[i] = Cdc!Echo(u[i])
  <2>1. ASSUME NEW i \in DOMAIN u PROVE Cdc!Echo(u[i]) \in S
    BY EchoType
  <2>2. DOMAIN u = 1 .. Len(u) /\ Len(u) \in Nat
    OBVIOUS
  <2> HIDE DEF S
  <2>3. E(u) \in [1 .. Len(u) -> S]
    BY <2>1, <2>2
  <2> QED
    BY <2>2, <2>3
<1>3. PICK h \in [0 .. Len(E(t)) -> Seq(AnyPacket)] : Joins(h, E(t))
  <2>1. E(t) \in Seq(Seq(AnyPacket))
    BY <1>1, <1>2
  <2> HIDE DEF E, t
  <2> QED
    BY <2>1, JoinsExist
<1>4. Len(E(t)) = n + 1
  BY <1>1, <1>2
<1>5. Cdc!Echoes(t) = h[n + 1]
  <2>1. E(t) \in Seq(Seq(AnyPacket))
    BY <1>1, <1>2
  <2>2. Cdc!FlattenSeq(E(t)) = h[Len(E(t))]
    <3> HIDE DEF E, t
    <3> QED
      BY <1>3, <2>1, FlattenIs
  <2> QED
    BY <1>4, <2>2 DEF Cdc!Echoes
<1>6. h[n + 1] = h[n] \o Cdc!Echo(p)
  <2>1. n + 1 \in 1 .. Len(E(t)) /\ (n + 1) - 1 = n
    BY <1>1, <1>4
  <2>2. E(t)[n + 1] = Cdc!Echo(p)
    BY <1>1, <1>2
  <2> HIDE DEF E, t
  <2> QED
    BY <1>3, <2>1, <2>2 DEF Joins
<1>7. Cdc!Echoes(s) = h[n] /\ h[n] \in Seq(AnyPacket)
  <2> DEFINE g == [k \in 0 .. n |-> h[k]]
  <2>1. g \in [0 .. n -> Seq(AnyPacket)] /\ g[n] = h[n] /\ h[n] \in Seq(AnyPacket)
    <3>1. n \in 0 .. n /\ \A k \in 0 .. n : k \in 0 .. n + 1
      BY <1>1
    <3> HIDE DEF E
    <3> QED
      BY <1>3, <1>4, <3>1
  <2>2. E(s) \in Seq(Seq(AnyPacket)) /\ Len(E(s)) = n /\ \A i \in 1 .. n : E(s)[i] = E(t)[i]
    BY <1>1, <1>2
  <2>3. Joins(g, E(s))
    <3>1. g[0] = <<>>
      BY <1>1, <1>3 DEF Joins
    <3>2. ASSUME NEW k \in 1 .. n PROVE g[k] = g[k - 1] \o E(s)[k]
      <4>1. k \in 1 .. Len(E(t)) /\ k \in 0 .. n /\ k - 1 \in 0 .. n
        BY <1>1, <1>4
      <4>2. h[k] = h[k - 1] \o E(t)[k]
        <5> HIDE DEF E, t
        <5> QED
          BY <1>3, <4>1 DEF Joins
      <4>3. E(s)[k] = E(t)[k]
        BY <2>2
      <4> HIDE DEF E, t
      <4> QED
        BY <4>1, <4>2, <4>3
    <3> HIDE DEF E, g
    <3> QED
      BY <2>2, <3>1, <3>2 DEF Joins
  <2>4. Cdc!FlattenSeq(E(s)) = g[n]
    <3> HIDE DEF E, g
    <3> QED
      BY <2>1, <2>2, <2>3, FlattenIs
  <2> QED
    BY <2>1, <2>4 DEF Cdc!Echoes
<1> QED
  BY <1>5, <1>6, <1>7

-----------------------------------------------------------------------------
(***************************************************************************)
(* The turns of the main loop and the host.                                *)
(***************************************************************************)
\* What is on its way back to the host.
Flight ==
  IF cdc_in.busy \/ cdc_pc = "zlp"
  THEN (IF cdc_in.busy THEN <<cdc_in.pkt>> ELSE <<>>)
         \o (IF cdc_pc = "zlp" THEN <<Cdc!Empty>> ELSE <<>>)
  ELSE IF cdc_data # Cdc!NoPacket THEN Cdc!Echo(cdc_data)
  ELSE IF cdc_out.size \in Cdc!Size THEN Cdc!Echo(cdc_out) ELSE <<>>

\* The packets of a host that sends at most n.
PacketsOf(n) == [n : 1 .. n, size : Cdc!Size]

CdcType(n) ==
  /\ cdc_in \in [busy : BOOLEAN, pkt : PacketsOf(n) \cup {Cdc!Empty}]
  /\ cdc_out \in PacketsOf(n) \cup {Cdc!Empty, Cdc!NoPacket} /\ cdc_ready \in BOOLEAN
  /\ cdc_irq \subseteq {"in", "out"} /\ cdc_flags \subseteq {"in", "out"}
  /\ cdc_pc \in {"irq", "in", "out", "main", "zlp"}
  /\ cdc_data \in PacketsOf(n) \cup {Cdc!NoPacket} /\ cdc_late \in BOOLEAN
  /\ cdc_sent \in Seq(PacketsOf(n) \cup {Cdc!Empty}) /\ cdc_got \in Seq(PacketsOf(n) \cup {Cdc!Empty})

\* One packet at most is between the host's two ends, and one place holds it.
OnePlace ==
  /\ cdc_in.busy \/ cdc_pc = "zlp" => cdc_data = Cdc!NoPacket /\ cdc_out.size \notin Cdc!Size
  /\ cdc_data # Cdc!NoPacket => cdc_pc = "main" /\ cdc_out.size \notin Cdc!Size /\ "in" \notin cdc_irq
  /\ cdc_in.busy /\ "in" \in cdc_irq => cdc_in.pkt = Cdc!Empty

\* The flags the main loop has read are those of the packets it finds.
FlagsInv ==
  /\ cdc_out.size \in Cdc!Size => "out" \in cdc_irq
  /\ "out" \in cdc_irq => ~ cdc_ready
  /\ cdc_pc = "in" => cdc_flags \subseteq cdc_irq
  /\ cdc_pc = "out" /\ "out" \in cdc_flags => "out" \in cdc_irq
  /\ cdc_pc = "in" /\ "out" \in cdc_flags /\ "in" \in cdc_irq /\ cdc_out.size \in Cdc!Size =>
       "in" \in cdc_flags
  /\ cdc_pc = "out" /\ "out" \in cdc_flags /\ cdc_out.size \in Cdc!Size => "in" \notin cdc_irq

\* What the host will have got: all it sent, but for a full packet it took too late.
Due == IF cdc_late THEN Append(Cdc!Echoes(Cdc!Front(cdc_sent)), Cdc!Empty) ELSE Cdc!Echoes(cdc_sent)

EchoInv == cdc_got \o Flight = Due

\* It has all but the echo of the last packet, and lost that only when the packet was full.
LastInv ==
  /\ cdc_sent # <<>> => Len(Cdc!Echoes(Cdc!Front(cdc_sent))) <= Len(cdc_got)
  /\ cdc_late => cdc_sent # <<>> /\ cdc_sent[Len(cdc_sent)].size = "full"

\* After that nothing is on its way to the device.
LateInv == cdc_late => cdc_pc # "zlp" /\ cdc_data = Cdc!NoPacket /\ cdc_out.size \notin Cdc!Size

CdcInv(n) == CdcType(n) /\ OnePlace /\ FlagsInv /\ EchoInv /\ LastInv /\ LateInv

\* HostSends of a host that sends at most n packets.
SendsUpTo(n) ==
  /\ cdc_ready
  /\ Len(cdc_sent) < n
  /\ cdc_got = Cdc!Echoes(cdc_sent)
  /\ \E size \in Cdc!Size \cup {"empty"} :
       /\ cdc_out' = [n |-> IF size = "empty" THEN 0 ELSE Len(cdc_sent) + 1, size |-> size]
       /\ cdc_sent' = Append(cdc_sent, cdc_out')
  /\ cdc_ready' = FALSE
  /\ cdc_irq' = cdc_irq \cup {"out"}
  /\ UNCHANGED <<cdc_in, cdc_pc, cdc_flags, cdc_data, cdc_got, cdc_late>>

LEMMA PacketFacts ==
  ASSUME NEW n \in Nat
  PROVE  /\ PacketsOf(n) \cup {Cdc!Empty, Cdc!NoPacket} \subseteq AnyPacket
         /\ \A p \in PacketsOf(n) : p.size \in Cdc!Size
         /\ Cdc!NoPacket.size \notin Cdc!Size /\ Cdc!Empty.size \notin Cdc!Size
         /\ Cdc!NoPacket.size # "empty" /\ Cdc!Empty # Cdc!NoPacket
         /\ Cdc!NoPacket \notin PacketsOf(n) /\ Cdc!Empty \notin PacketsOf(n)
         /\ Cdc!Size = {"short", "full"} /\ Cdc!Empty.size = "empty"
BY DEF PacketsOf, Cdc!Empty, Cdc!NoPacket, Cdc!Size, AnyPacket

LEMMA EchoIs ==
  ASSUME NEW p
  PROVE  /\ p.size = "short" => Cdc!Echo(p) = <<p>>
         /\ p.size = "full" => Cdc!Echo(p) = <<p, Cdc!Empty>>
         /\ p.size \notin Cdc!Size => Cdc!Echo(p) = <<>>
<1>1. CASE p.size = "short"
  BY <1>1 DEF Cdc!Echo, Cdc!Size
<1>2. CASE p.size = "full"
  BY <1>2 DEF Cdc!Echo, Cdc!Size
<1>3. CASE p.size \notin {"short", "full"}
  BY <1>3 DEF Cdc!Echo, Cdc!Size
<1> QED
  BY <1>1, <1>2, <1>3

LEMMA Pair == ASSUME NEW a, NEW b PROVE <<a>> \o <<b>> = <<a, b>>
<1>1. <<a>> \in Seq({a, b}) /\ <<b>> \in Seq({a, b}) /\ <<a, b>> \in Seq({a, b})
  OBVIOUS
<1> DEFINE c == <<a>> \o <<b>>
<1>2. c \in Seq({a, b}) /\ Len(c) = 2
  BY <1>1
<1>3. c[1] = a /\ c[2] = b
  BY <1>1
<1> HIDE DEF c
<1>4. c \in [1 .. 2 -> {a, b}]
  BY <1>2
<1>5. <<a, b>> \in [1 .. 2 -> {a, b}] /\ <<a, b>>[1] = a /\ <<a, b>>[2] = b
  OBVIOUS
<1>6. \A i \in 1 .. 2 : c[i] = <<a, b>>[i]
  BY <1>3, <1>5
<1>7. c = <<a, b>>
  BY <1>4, <1>5, <1>6
<1> QED
  BY <1>7 DEF c

FlightIs ==
  /\ cdc_in.busy /\ cdc_pc = "zlp" => Flight = <<cdc_in.pkt, Cdc!Empty>>
  /\ cdc_in.busy /\ cdc_pc # "zlp" => Flight = <<cdc_in.pkt>>
  /\ ~ cdc_in.busy /\ cdc_pc = "zlp" => Flight = <<Cdc!Empty>>
  /\ ~ cdc_in.busy /\ cdc_pc # "zlp" =>
       /\ cdc_data # Cdc!NoPacket => Flight = Cdc!Echo(cdc_data)
       /\ cdc_data = Cdc!NoPacket /\ cdc_out.size \in Cdc!Size => Flight = Cdc!Echo(cdc_out)
       /\ cdc_data = Cdc!NoPacket /\ cdc_out.size \notin Cdc!Size => Flight = <<>>

LEMMA FlightCases == FlightIs
<1>1. <<cdc_in.pkt>> \o <<Cdc!Empty>> = <<cdc_in.pkt, Cdc!Empty>>
  BY Pair
<1>2. <<cdc_in.pkt>> \o <<>> = <<cdc_in.pkt>>
  OBVIOUS
<1>3. <<>> \o <<Cdc!Empty>> = <<Cdc!Empty>>
  OBVIOUS
<1> QED
  BY <1>1, <1>2, <1>3 DEF Flight, FlightIs


LEMMA FlightCasesNext == FlightIs'
BY FlightCases, PTL

LEMMA EchoKept ==
  ASSUME EchoInv, LastInv, Flight' = Flight, UNCHANGED <<cdc_got, cdc_sent, cdc_late>>
  PROVE  EchoInv' /\ LastInv'
BY DEF EchoInv, LastInv, Due

LEMMA CdcInitInv == ASSUME NEW n \in Nat, Cdc!Init PROVE CdcInv(n)
<1>1. Cdc!Echoes(<<>>) = <<>>
  BY DEF Cdc!Echoes, Cdc!FlattenSeq
<1>2. /\ cdc_in = [busy |-> FALSE, pkt |-> Cdc!Empty]
      /\ cdc_out = Cdc!NoPacket /\ cdc_ready = TRUE
      /\ cdc_irq = {} /\ cdc_pc = "irq" /\ cdc_flags = {}
      /\ cdc_data = Cdc!NoPacket /\ cdc_sent = <<>> /\ cdc_got = <<>> /\ cdc_late = FALSE
  BY DEF Cdc!Init
<1>3. CdcType(n)
  <2>1. cdc_late \in BOOLEAN /\ cdc_ready \in BOOLEAN
    BY <1>2, Zenon
  <2> QED BY <1>2, <2>1 DEF CdcType
<1>4. OnePlace /\ FlagsInv
  BY <1>2, PacketFacts DEF OnePlace, FlagsInv
<1>5. EchoInv
  <2>1. Flight = <<>>
    BY <1>2, FlightCases, PacketFacts DEF FlightIs
  <2>2. <<>> \o <<>> = <<>>
    OBVIOUS
  <2> QED
    BY <1>1, <1>2, <2>1, <2>2 DEF EchoInv, Due
<1>6. LastInv /\ LateInv
  BY <1>2 DEF LastInv, LateInv
<1> QED
  BY <1>3, <1>4, <1>5, <1>6 DEF CdcInv

LEMMA ReadIrqInv == ASSUME NEW n \in Nat, CdcInv(n), Cdc!ReadIrq PROVE CdcInv(n)'
<1>1. /\ cdc_pc = "irq" /\ cdc_flags' = cdc_irq /\ cdc_pc' = "in"
      /\ UNCHANGED <<cdc_in, cdc_out, cdc_ready, cdc_irq, cdc_data, cdc_sent, cdc_got, cdc_late>>
  BY DEF Cdc!ReadIrq
<1>2. CdcType(n)'
  BY <1>1 DEF CdcInv, CdcType
<1>3. OnePlace' /\ FlagsInv' /\ LateInv'
  BY <1>1 DEF CdcInv, OnePlace, FlagsInv, LateInv
<1>4. Flight' = Flight
  BY <1>1 DEF Flight
<1> QED
  BY <1>1, <1>2, <1>3, <1>4, EchoKept DEF CdcInv

LEMMA InDoneInv == ASSUME NEW n \in Nat, CdcInv(n), Cdc!InDone PROVE CdcInv(n)'
<1>1. /\ cdc_pc = "in" /\ cdc_pc' = "out"
      /\ IF "in" \in cdc_flags
         THEN cdc_irq' = cdc_irq \ {"in"} /\ cdc_in' = [cdc_in EXCEPT !.pkt = Cdc!Empty]
         ELSE UNCHANGED <<cdc_irq, cdc_in>>
      /\ UNCHANGED <<cdc_out, cdc_ready, cdc_flags, cdc_data, cdc_sent, cdc_got, cdc_late>>
  BY DEF Cdc!InDone
<1>2. cdc_in \in [busy : BOOLEAN, pkt : PacketsOf(n) \cup {Cdc!Empty}]
  BY DEF CdcInv, CdcType
<1>3. cdc_in' \in [busy : BOOLEAN, pkt : PacketsOf(n) \cup {Cdc!Empty}] /\ cdc_in'.busy = cdc_in.busy
  BY <1>1, <1>2
<1>4. cdc_in.busy => cdc_in'.pkt = cdc_in.pkt
  BY <1>1, <1>2 DEF CdcInv, OnePlace, FlagsInv, LateInv
<1>5. /\ cdc_irq' \subseteq cdc_irq /\ ("out" \in cdc_irq => "out" \in cdc_irq')
      /\ ("in" \in cdc_flags => "in" \notin cdc_irq') /\ ("in" \notin cdc_flags => cdc_irq' = cdc_irq)
  BY <1>1
<1>6. CdcType(n)'
  BY <1>1, <1>3, <1>5 DEF CdcInv, CdcType
<1>7. OnePlace' /\ FlagsInv' /\ LateInv'
  BY <1>1, <1>3, <1>4, <1>5 DEF CdcInv, OnePlace, FlagsInv, LateInv
<1>8. Flight' = Flight
  BY <1>1, <1>3, <1>4 DEF Flight
<1> QED
  BY <1>1, <1>6, <1>7, <1>8, EchoKept DEF CdcInv

LEMMA OutDoneInv == ASSUME NEW n \in Nat, CdcInv(n), Cdc!OutDone PROVE CdcInv(n)'
<1>1. /\ cdc_pc = "out" /\ cdc_pc' = "main"
      /\ IF "out" \in cdc_flags
         THEN /\ cdc_irq' = cdc_irq \ {"out"}
              /\ cdc_data' = IF cdc_out.size \in Cdc!Size THEN cdc_out ELSE cdc_data
              /\ cdc_out' = Cdc!NoPacket /\ cdc_ready' = TRUE
         ELSE UNCHANGED <<cdc_irq, cdc_data, cdc_out, cdc_ready>>
      /\ UNCHANGED <<cdc_in, cdc_flags, cdc_sent, cdc_got, cdc_late>>
  BY DEF Cdc!OutDone, Cdc!usb_cdc_rx_data_from_host
<1>2. cdc_data = Cdc!NoPacket
  BY <1>1 DEF CdcInv, OnePlace
<1>3. CASE "out" \in cdc_flags /\ cdc_out.size \in Cdc!Size
  <2>1. /\ cdc_irq' = cdc_irq \ {"out"} /\ cdc_data' = cdc_out /\ cdc_out' = Cdc!NoPacket
        /\ cdc_ready' = TRUE
    BY <1>1, <1>3
  <2>2. cdc_out \in PacketsOf(n) /\ cdc_out # Cdc!NoPacket /\ Cdc!NoPacket.size \notin Cdc!Size
    BY <1>3, PacketFacts DEF CdcInv, CdcType
  <2>3. ~ cdc_in.busy /\ "in" \notin cdc_irq
    BY <1>1, <1>3 DEF CdcInv, OnePlace, FlagsInv, LateInv
  <2>4. CdcType(n)'
    BY <1>1, <2>1, <2>2 DEF CdcInv, CdcType
  <2>5. OnePlace' /\ FlagsInv' /\ LateInv'
    BY <1>1, <2>1, <2>2, <2>3 DEF CdcInv, OnePlace, FlagsInv, LateInv
  <2>6. Flight' = Flight
    <3>1. Flight = Cdc!Echo(cdc_out)
      BY <1>1, <1>2, <1>3, <2>3, FlightCases DEF FlightIs
    <3>2. Flight' = Cdc!Echo(cdc_data')
      BY <1>1, <2>1, <2>2, <2>3 DEF Flight
    <3> QED
      BY <2>1, <3>1, <3>2
  <2> QED
    BY <1>1, <2>4, <2>5, <2>6, EchoKept DEF CdcInv
<1>4. CASE ~ ("out" \in cdc_flags /\ cdc_out.size \in Cdc!Size)
  <2>1. /\ cdc_data' = cdc_data
        /\ \/ cdc_irq' = cdc_irq \ {"out"} /\ cdc_out' = Cdc!NoPacket /\ cdc_ready' = TRUE /\ cdc_out.size \notin Cdc!Size
           \/ UNCHANGED <<cdc_irq, cdc_out, cdc_ready>>
    BY <1>1, <1>4
  <2>2. Cdc!NoPacket.size \notin Cdc!Size
    BY PacketFacts
  <2>3. CdcType(n)'
    BY <1>1, <2>1 DEF CdcInv, CdcType
  <2>4. OnePlace' /\ FlagsInv' /\ LateInv'
    BY <1>1, <1>2, <2>1, <2>2 DEF CdcInv, OnePlace, FlagsInv, LateInv
  <2>5. Flight' = Flight
    BY <1>1, <1>2, <2>1, <2>2 DEF Flight
  <2> QED
    BY <1>1, <2>3, <2>4, <2>5, EchoKept DEF CdcInv
<1> QED
  BY <1>3, <1>4

LEMMA TransmitInv == ASSUME NEW n \in Nat, CdcInv(n), Cdc!Transmit PROVE CdcInv(n)'
<1>1. /\ cdc_pc = "main" /\ cdc_data' = Cdc!NoPacket
      /\ IF cdc_data = Cdc!NoPacket \/ cdc_in.busy
         THEN cdc_pc' = "irq" /\ UNCHANGED cdc_in
         ELSE /\ cdc_in' = [busy |-> TRUE, pkt |-> cdc_data]
              /\ cdc_pc' = IF cdc_data.size = "full" THEN "zlp" ELSE "irq"
      /\ UNCHANGED <<cdc_out, cdc_ready, cdc_irq, cdc_flags, cdc_sent, cdc_got, cdc_late>>
  BY DEF Cdc!Transmit, Cdc!usb_cdc_tx_data_to_host
<1>2. CASE cdc_data = Cdc!NoPacket
  <2>1. cdc_pc' = "irq" /\ cdc_in' = cdc_in
    BY <1>1, <1>2
  <2>2. CdcType(n)'
    BY <1>1, <2>1 DEF CdcInv, CdcType
  <2>3. OnePlace' /\ FlagsInv' /\ LateInv'
    BY <1>1, <1>2, <2>1 DEF CdcInv, OnePlace, FlagsInv, LateInv
  <2>4. Flight' = Flight
    BY <1>1, <1>2, <2>1 DEF Flight
  <2> QED
    BY <1>1, <2>2, <2>3, <2>4, EchoKept DEF CdcInv
<1>3. CASE cdc_data # Cdc!NoPacket
  <2>1. /\ ~ cdc_in.busy /\ cdc_out.size \notin Cdc!Size /\ "in" \notin cdc_irq
        /\ cdc_data \in PacketsOf(n)
    BY <1>3 DEF CdcInv, OnePlace, CdcType
  <2>2. cdc_in' = [busy |-> TRUE, pkt |-> cdc_data] /\ cdc_in'.busy /\ cdc_in'.pkt = cdc_data
    BY <1>1, <1>3, <2>1
  <2>3. CASE cdc_data.size = "full"
    <3>1. cdc_pc' = "zlp"
      BY <1>1, <1>3, <2>1, <2>3
    <3>2. CdcType(n)'
      BY <1>1, <2>1, <2>2, <3>1 DEF CdcInv, CdcType
    <3>3. OnePlace' /\ FlagsInv' /\ LateInv'
      BY <1>1, <2>1, <2>2, <3>1 DEF CdcInv, OnePlace, FlagsInv, LateInv
    <3>4. Flight = <<cdc_data, Cdc!Empty>>
      BY <1>1, <1>3, <2>1, <2>3, FlightCases, EchoIs DEF FlightIs
    <3>5. Flight' = <<cdc_data, Cdc!Empty>>
      BY <2>2, <3>1, FlightCasesNext DEF FlightIs
    <3> QED
      BY <1>1, <3>2, <3>3, <3>4, <3>5, EchoKept DEF CdcInv
  <2>4. CASE cdc_data.size # "full"
    <3>1. cdc_pc' = "irq" /\ cdc_data.size = "short"
      BY <1>1, <1>3, <2>1, <2>4, PacketFacts
    <3>2. CdcType(n)'
      BY <1>1, <2>1, <2>2, <3>1 DEF CdcInv, CdcType
    <3>3. OnePlace' /\ FlagsInv' /\ LateInv'
      BY <1>1, <2>1, <2>2, <3>1 DEF CdcInv, OnePlace, FlagsInv, LateInv
    <3>4. Flight = <<cdc_data>>
      BY <1>1, <1>3, <2>1, <3>1, FlightCases, EchoIs DEF FlightIs
    <3>5. Flight' = <<cdc_data>>
      BY <2>2, <3>1, FlightCasesNext DEF FlightIs
    <3> QED
      BY <1>1, <3>2, <3>3, <3>4, <3>5, EchoKept DEF CdcInv
  <2> QED
    BY <2>3, <2>4
<1> QED
  BY <1>2, <1>3

LEMMA NothingJoined ==
  ASSUME NEW S, NEW g \in Seq(S), NEW f \in Seq(S), g \o f = g
  PROVE  Len(f) = 0
<1>1. Len(g \o f) = Len(g) + Len(f) /\ Len(g) \in Nat /\ Len(f) \in Nat
  OBVIOUS
<1> QED
  BY <1>1

LEMMA FlightType ==
  ASSUME NEW n \in Nat, CdcType(n)
  PROVE  Flight \in Seq(AnyPacket)
<1>1. /\ cdc_in.pkt \in AnyPacket /\ Cdc!Empty \in AnyPacket /\ cdc_data \in AnyPacket
      /\ cdc_out \in AnyPacket
  BY PacketFacts DEF CdcType
<1>2. /\ <<cdc_in.pkt, Cdc!Empty>> \in Seq(AnyPacket) /\ <<cdc_in.pkt>> \in Seq(AnyPacket)
      /\ <<Cdc!Empty>> \in Seq(AnyPacket) /\ <<>> \in Seq(AnyPacket)
  BY <1>1
<1>3. Cdc!Echo(cdc_data) \in Seq(AnyPacket) /\ Cdc!Echo(cdc_out) \in Seq(AnyPacket)
  BY <1>1, EchoType
<1>4. cdc_in.busy \in BOOLEAN
  BY DEF CdcType
<1> QED
  BY <1>2, <1>3, <1>4, FlightCases DEF FlightIs

LEMMA LastEcho ==
  ASSUME NEW n \in Nat, CdcType(n), cdc_sent # <<>>
  PROVE  \E s \in Seq(AnyPacket), p \in AnyPacket :
           /\ s = Cdc!Front(cdc_sent) /\ p = cdc_sent[Len(cdc_sent)]
           /\ cdc_sent = Append(s, p) /\ Cdc!Echoes(s) \in Seq(AnyPacket)
           /\ Cdc!Echoes(cdc_sent) = Cdc!Echoes(s) \o Cdc!Echo(p)
<1>1. cdc_sent \in Seq(AnyPacket)
  <2>1. cdc_sent \in Seq(PacketsOf(n) \cup {Cdc!Empty}) /\ PacketsOf(n) \cup {Cdc!Empty} \subseteq AnyPacket
    BY PacketFacts DEF CdcType
  <2> HIDE DEF AnyPacket
  <2> QED
    BY <2>1
<1> HIDE DEF AnyPacket
<1>2. PICK u \in Seq(AnyPacket) : u = cdc_sent
  BY <1>1
<1>3. PICK m \in Nat : Len(u) = m + 1
  <2>1. Len(u) \in Nat /\ Len(u) # 0
    BY <1>2
  <2>2. Len(u) - 1 \in Nat /\ Len(u) = (Len(u) - 1) + 1
    BY <2>1
  <2> QED
    BY <2>2
<1>4. PICK s : s = SubSeq(u, 1, m)
  OBVIOUS
<1>5. s \in Seq(AnyPacket) /\ Len(s) = m /\ \A i \in 1 .. m : s[i] = u[i]
  BY <1>3, <1>4
<1>6. PICK p \in AnyPacket : p = u[m + 1]
  BY <1>3
<1>7. u = Append(s, p)
  <2>1. PICK v : v = Append(s, p)
    OBVIOUS
  <2>2. v \in Seq(AnyPacket) /\ Len(v) = m + 1 /\ \A i \in 1 .. m + 1 : v[i] = IF i = m + 1 THEN p ELSE s[i]
    BY <1>5, <2>1
  <2>3. \A i \in 1 .. m + 1 : v[i] = u[i]
    BY <1>5, <1>6, <2>2
  <2>4. v = u
    BY <1>3, <2>2, <2>3
  <2> QED
    BY <2>1, <2>4
<1>8. s = Cdc!Front(cdc_sent) /\ p = cdc_sent[Len(cdc_sent)]
  <2>1. Len(u) - 1 = m
    BY <1>3
  <2> QED
    BY <1>2, <1>3, <1>4, <1>6, <2>1 DEF Cdc!Front
<1>9. Cdc!Echoes(s) \in Seq(AnyPacket) /\ Cdc!Echoes(u) = Cdc!Echoes(s) \o Cdc!Echo(p)
  BY <1>5, <1>6, <1>7, EchoesAppend
<1> QED
  BY <1>2, <1>5, <1>6, <1>7, <1>8, <1>9

\* Two sequences that are the same when joined, the second parts of one length.
LEMMA SameStart ==
  ASSUME NEW S, NEW a \in Seq(S), NEW b \in Seq(S), NEW c \in Seq(S), NEW d \in Seq(S),
         a \o c = b \o d, Len(a) >= Len(b), Len(d) <= Len(c)
  PROVE  a = b /\ Len(d) = Len(c)
<1>1. PICK x, y : x = a \o c /\ y = b \o d
  OBVIOUS
<1>2. /\ x \in Seq(S) /\ Len(x) = Len(a) + Len(c) /\ \A i \in 1 .. Len(a) : x[i] = a[i]
      /\ y \in Seq(S) /\ Len(y) = Len(b) + Len(d) /\ \A i \in 1 .. Len(b) : y[i] = b[i]
  BY <1>1
<1>3. Len(a) \in Nat /\ Len(b) \in Nat /\ Len(c) \in Nat /\ Len(d) \in Nat /\ x = y
  BY <1>1
<1>4. Len(a) = Len(b) /\ Len(d) = Len(c)
  BY <1>2, <1>3
<1>5. \A i \in 1 .. Len(a) : a[i] = b[i]
  BY <1>2, <1>3, <1>4
<1>6. a = b
  BY <1>4, <1>5
<1> QED
  BY <1>4, <1>6

LEMMA JoinLen == ASSUME NEW S, NEW a \in Seq(S), NEW c \in Seq(S) PROVE Len(a \o c) = Len(a) + Len(c) /\ Len(a) \in Nat
OBVIOUS

LEMMA TransmitEmptyInv == ASSUME NEW n \in Nat, CdcInv(n), Cdc!TransmitEmpty PROVE CdcInv(n)'
<1>1. /\ cdc_pc = "zlp" /\ cdc_pc' = "irq" /\ cdc_late' = (cdc_late \/ cdc_in.busy)
      /\ cdc_in' = [busy |-> TRUE, pkt |-> Cdc!Empty]
      /\ UNCHANGED <<cdc_out, cdc_ready, cdc_irq, cdc_flags, cdc_data, cdc_sent, cdc_got>>
  BY DEF Cdc!TransmitEmpty
<1>2. cdc_in'.busy /\ cdc_in'.pkt = Cdc!Empty /\ cdc_in.busy \in BOOLEAN /\ cdc_late \in BOOLEAN /\ ~ cdc_late
  BY <1>1 DEF CdcInv, CdcType, LateInv
<1>3. cdc_late' = cdc_in.busy
  BY <1>1, <1>2, Zenon
<1>4. CdcType(n)'
  BY <1>1, <1>2, <1>3 DEF CdcInv, CdcType
<1>5. OnePlace' /\ FlagsInv' /\ LateInv'
  BY <1>1, <1>2 DEF CdcInv, OnePlace, FlagsInv, LateInv
<1>6. Flight' = <<Cdc!Empty>>
  BY <1>1, <1>2, FlightCasesNext DEF FlightIs
<1>7. CASE ~ cdc_in.busy
  <2>1. Flight' = Flight
    BY <1>1, <1>6, <1>7, FlightCases DEF FlightIs
  <2>2. cdc_late' = cdc_late
    BY <1>2, <1>3, <1>7, Zenon
  <2> QED
    BY <1>1, <1>4, <1>5, <2>1, <2>2, EchoKept DEF CdcInv
<1>8. CASE cdc_in.busy
  <2>1. Flight = <<cdc_in.pkt, Cdc!Empty>> /\ cdc_got \o Flight = Cdc!Echoes(cdc_sent)
    BY <1>1, <1>2, <1>8, FlightCases DEF FlightIs, CdcInv, EchoInv, Due
  <2>2. cdc_got \in Seq(AnyPacket) /\ Flight \in Seq(AnyPacket) /\ Len(Flight) = 2
    <3>1. cdc_got \in Seq(PacketsOf(n) \cup {Cdc!Empty}) /\ PacketsOf(n) \cup {Cdc!Empty} \subseteq AnyPacket
      BY PacketFacts DEF CdcInv, CdcType
    <3>2. cdc_got \in Seq(AnyPacket)
      <4> HIDE DEF AnyPacket
      <4> QED
        BY <3>1
    <3>3. Flight \in Seq(AnyPacket)
      BY FlightType DEF CdcInv
    <3>4. Len(<<cdc_in.pkt, Cdc!Empty>>) = 2
      OBVIOUS
    <3> QED
      BY <2>1, <3>2, <3>3, <3>4
  <2>3. cdc_sent # <<>>
    <3>1. Cdc!Echoes(<<>>) = <<>>
      BY DEF Cdc!Echoes, Cdc!FlattenSeq
    <3>2. Len(cdc_got \o Flight) = Len(cdc_got) + 2 /\ Len(cdc_got) \in Nat
      <4> HIDE DEF AnyPacket
      <4>1. PICK a \in Seq(AnyPacket), c \in Seq(AnyPacket) : a = cdc_got /\ c = Flight /\ Len(c) = 2
        BY <2>2
      <4>2. Len(a \o c) = Len(a) + 2 /\ Len(a) \in Nat
        BY <4>1, JoinLen
      <4> QED
        BY <4>1, <4>2
    <3>3. cdc_got \o Flight # <<>>
      BY <3>2
    <3> QED
      BY <2>1, <3>1, <3>3
  <2>4. PICK s \in Seq(AnyPacket), p \in AnyPacket :
          /\ s = Cdc!Front(cdc_sent) /\ p = cdc_sent[Len(cdc_sent)]
          /\ Cdc!Echoes(s) \in Seq(AnyPacket)
          /\ Cdc!Echoes(cdc_sent) = Cdc!Echoes(s) \o Cdc!Echo(p)
    BY <2>3, LastEcho DEF CdcInv
  <2>5. Cdc!Echo(p) \in Seq(AnyPacket) /\ Len(Cdc!Echo(p)) <= 2 /\ (Len(Cdc!Echo(p)) = 2 => p.size = "full")
    <3>1. Cdc!Echo(p) \in Seq(AnyPacket)
      BY EchoType
    <3>2. p.size = "short" \/ p.size = "full" \/ p.size \notin Cdc!Size
      BY DEF Cdc!Size
    <3>3. Len(<<p>>) = 1 /\ Len(<<p, Cdc!Empty>>) = 2 /\ Len(<<>>) = 0
      OBVIOUS
    <3>4. CASE p.size = "short"
      <4>1. Cdc!Echo(p) = <<p>>
        BY <3>4, EchoIs
      <4> QED
        BY <3>1, <3>3, <4>1
    <3>5. CASE p.size = "full"
      <4>1. Cdc!Echo(p) = <<p, Cdc!Empty>>
        BY <3>5, EchoIs
      <4> QED
        BY <3>1, <3>3, <3>5, <4>1
    <3>6. CASE p.size \notin Cdc!Size
      <4>1. Cdc!Echo(p) = <<>>
        BY <3>6, EchoIs
      <4> QED
        BY <3>1, <3>3, <4>1
    <3> QED
      BY <3>2, <3>4, <3>5, <3>6
  <2>6. Len(cdc_got) >= Len(Cdc!Echoes(s))
    <3>1. Len(Cdc!Echoes(s)) <= Len(cdc_got)
      BY <2>3, <2>4 DEF CdcInv, LastInv
    <3> QED
      BY <2>2, <2>4, <3>1
  <2>7. cdc_got = Cdc!Echoes(s) /\ Len(Cdc!Echo(p)) = 2
    <3> HIDE DEF AnyPacket
    <3>1. PICK a \in Seq(AnyPacket), c \in Seq(AnyPacket) : a = cdc_got /\ c = Flight /\ Len(c) = 2
      BY <2>2
    <3>2. PICK e \in Seq(AnyPacket), d \in Seq(AnyPacket) : e = Cdc!Echoes(s) /\ d = Cdc!Echo(p)
      BY <2>4, <2>5
    <3>3. a \o c = e \o d /\ Len(a) >= Len(e) /\ Len(d) <= Len(c)
      BY <2>1, <2>4, <2>5, <2>6, <3>1, <3>2
    <3>4. a = e /\ Len(d) = Len(c)
      BY <3>3, SameStart
    <3> QED
      BY <3>1, <3>2, <3>4
  <2>8. EchoInv'
    <3>1. Due' = Append(Cdc!Echoes(Cdc!Front(cdc_sent)), Cdc!Empty)
      BY <1>1, <1>3, <1>8 DEF Due
    <3>2. Append(cdc_got, Cdc!Empty) = cdc_got \o <<Cdc!Empty>>
      <4>1. Cdc!Empty \in AnyPacket
        BY PacketFacts
      <4>2. PICK g \in Seq(AnyPacket), x \in AnyPacket : g = cdc_got /\ x = Cdc!Empty
        BY <2>2, <4>1
      <4> HIDE DEF AnyPacket
      <4>3. Append(g, x) = g \o <<x>>
        OBVIOUS
      <4> QED
        BY <4>2, <4>3
    <3>3. Append(Cdc!Echoes(Cdc!Front(cdc_sent)), Cdc!Empty) = Append(cdc_got, Cdc!Empty)
      BY <2>4, <2>7
    <3> QED
      BY <1>1, <1>6, <3>1, <3>2, <3>3 DEF EchoInv
  <2>9. LastInv'
    BY <1>1, <2>3, <2>4, <2>5, <2>7 DEF CdcInv, LastInv
  <2> QED
    BY <1>4, <1>5, <2>8, <2>9 DEF CdcInv
<1> QED
  BY <1>2, <1>7, <1>8

LEMMA Joined ==
  ASSUME NEW S, NEW g \in Seq(S), NEW a \in S, NEW b \in S
  PROVE  /\ g \o <<a, b>> = Append(g, a) \o <<b>>
         /\ g \o <<a>> = Append(g, a) \o <<>>
         /\ g \o <<>> = g
OBVIOUS

LEMMA HostReadsInv == ASSUME NEW n \in Nat, CdcInv(n), Cdc!HostReads PROVE CdcInv(n)'
<1>1. /\ cdc_in.busy /\ cdc_got' = Append(cdc_got, cdc_in.pkt)
      /\ cdc_in' = [cdc_in EXCEPT !.busy = FALSE] /\ cdc_irq' = cdc_irq \cup {"in"}
      /\ UNCHANGED <<cdc_out, cdc_ready, cdc_pc, cdc_flags, cdc_data, cdc_sent, cdc_late>>
  BY DEF Cdc!HostReads
<1>2. /\ cdc_in \in [busy : BOOLEAN, pkt : PacketsOf(n) \cup {Cdc!Empty}]
      /\ cdc_got \in Seq(PacketsOf(n) \cup {Cdc!Empty})
  BY DEF CdcInv, CdcType
<1>3. ~ cdc_in'.busy /\ cdc_in' \in [busy : BOOLEAN, pkt : PacketsOf(n) \cup {Cdc!Empty}]
  BY <1>1, <1>2
<1>4. cdc_data = Cdc!NoPacket /\ cdc_out.size \notin Cdc!Size
  BY <1>1 DEF CdcInv, OnePlace
<1>5. CdcType(n)'
  BY <1>1, <1>2, <1>3 DEF CdcInv, CdcType
<1>6. OnePlace' /\ FlagsInv' /\ LateInv'
  BY <1>1, <1>3, <1>4 DEF CdcInv, OnePlace, FlagsInv, LateInv
<1>7. cdc_got \o Flight = cdc_got' \o Flight'
  <2> DEFINE S == PacketsOf(n) \cup {Cdc!Empty}
  <2>1. cdc_got \in Seq(S) /\ cdc_in.pkt \in S /\ Cdc!Empty \in S
    BY <1>2
  <2> HIDE DEF S
  <2>2. CASE cdc_pc = "zlp"
    <3>1. Flight = <<cdc_in.pkt, Cdc!Empty>>
      BY <1>1, <2>2, FlightCases DEF FlightIs
    <3>2. Flight' = <<Cdc!Empty>>
      BY <1>1, <1>3, <2>2, FlightCasesNext DEF FlightIs
    <3>3. cdc_got \o <<cdc_in.pkt, Cdc!Empty>> = Append(cdc_got, cdc_in.pkt) \o <<Cdc!Empty>>
      <4> DEFINE g == cdc_got
             a == cdc_in.pkt
             b == Cdc!Empty
      <4>1. g \in Seq(S) /\ a \in S /\ b \in S
        BY <2>1
      <4> HIDE DEF g, a, b
      <4>2. g \o <<a, b>> = Append(g, a) \o <<b>>
        BY <4>1, Joined, SMTT(30)
      <4> QED
        BY <4>2 DEF g, a, b
    <3> QED
      BY <1>1, <3>1, <3>2, <3>3
  <2>3. CASE cdc_pc # "zlp"
    <3>1. Flight = <<cdc_in.pkt>>
      BY <1>1, <2>3, FlightCases DEF FlightIs
    <3>2. Flight' = <<>>
      BY <1>1, <1>3, <1>4, <2>3, FlightCasesNext DEF FlightIs
    <3> QED
      BY <1>1, <2>1, <3>1, <3>2, Joined, SMTT(30)
  <2> QED
    BY <2>2, <2>3
<1>8. EchoInv'
  BY <1>1, <1>7 DEF CdcInv, EchoInv, Due
<1>9. LastInv'
  <2>1. Len(cdc_got') = Len(cdc_got) + 1 /\ Len(cdc_got) \in Nat
    BY <1>1, <1>2
  <2>2. ASSUME cdc_sent # <<>> PROVE Len(Cdc!Echoes(Cdc!Front(cdc_sent))) <= Len(cdc_got')
    <3>1. Len(Cdc!Echoes(Cdc!Front(cdc_sent))) <= Len(cdc_got)
      BY <2>2 DEF CdcInv, LastInv
    <3>2. Len(Cdc!Echoes(Cdc!Front(cdc_sent))) \in Nat
      <4>1. PICK s \in Seq(AnyPacket) : s = Cdc!Front(cdc_sent) /\ Cdc!Echoes(s) \in Seq(AnyPacket)
        BY <2>2, LastEcho DEF CdcInv
      <4> HIDE DEF AnyPacket
      <4> QED
        BY <4>1
    <3> QED
      BY <2>1, <3>1, <3>2
  <2> QED
    BY <1>1, <2>2 DEF CdcInv, LastInv
<1> QED
  BY <1>5, <1>6, <1>8, <1>9 DEF CdcInv

LEMMA SendsInv == ASSUME NEW n \in Nat, CdcInv(n), SendsUpTo(n) PROVE CdcInv(n)'
<1>1. PICK size \in Cdc!Size \cup {"empty"} :
        /\ cdc_out' = [n |-> IF size = "empty" THEN 0 ELSE Len(cdc_sent) + 1, size |-> size]
        /\ cdc_sent' = Append(cdc_sent, cdc_out')
  BY DEF SendsUpTo
<1>2. /\ cdc_ready /\ Len(cdc_sent) < n /\ cdc_got = Cdc!Echoes(cdc_sent)
      /\ cdc_ready' = FALSE /\ cdc_irq' = cdc_irq \cup {"out"}
      /\ UNCHANGED <<cdc_in, cdc_pc, cdc_flags, cdc_data, cdc_got, cdc_late>>
  BY DEF SendsUpTo
<1>3. /\ cdc_sent \in Seq(PacketsOf(n) \cup {Cdc!Empty}) /\ Len(cdc_sent) \in Nat
      /\ cdc_sent \in Seq(AnyPacket) /\ cdc_got \in Seq(AnyPacket)
  <2>1. /\ cdc_sent \in Seq(PacketsOf(n) \cup {Cdc!Empty}) /\ cdc_got \in Seq(PacketsOf(n) \cup {Cdc!Empty})
    BY DEF CdcInv, CdcType
  <2>2. PacketsOf(n) \cup {Cdc!Empty} \subseteq AnyPacket
    BY PacketFacts
  <2> HIDE DEF AnyPacket
  <2> QED
    BY <2>1, <2>2
<1>4. cdc_out' \in PacketsOf(n) \cup {Cdc!Empty} /\ cdc_out' \in AnyPacket /\ cdc_out'.size = size
  <2>1. CASE size = "empty"
    <3>1. cdc_out' = Cdc!Empty
      BY <1>1, <2>1 DEF Cdc!Empty
    <3> QED
      BY <2>1, <3>1, PacketFacts
  <2>2. CASE size # "empty"
    <3>1. size \in Cdc!Size /\ Len(cdc_sent) + 1 \in 1 .. n
      BY <1>1, <1>2, <1>3, <2>2
    <3>2. cdc_out' = [n |-> Len(cdc_sent) + 1, size |-> size]
      BY <1>1, <2>2
    <3>3. cdc_out' \in PacketsOf(n)
      BY <3>1, <3>2 DEF PacketsOf
    <3> QED
      BY <3>2, <3>3, PacketFacts
  <2> QED
    BY <2>1, <2>2
<1>0. ~ cdc_late
  <2> SUFFICES ASSUME cdc_late PROVE FALSE
    BY DEF CdcInv, CdcType
  <2>1. PICK s \in Seq(AnyPacket), p \in AnyPacket :
          /\ s = Cdc!Front(cdc_sent) /\ p = cdc_sent[Len(cdc_sent)] /\ Cdc!Echoes(s) \in Seq(AnyPacket)
          /\ Cdc!Echoes(cdc_sent) = Cdc!Echoes(s) \o Cdc!Echo(p)
    BY LastEcho DEF CdcInv, LastInv
  <2>2. Cdc!Echo(p) = <<p, Cdc!Empty>>
    BY <2>1, EchoIs DEF CdcInv, LastInv
  <2>3. cdc_got \o Flight = Append(Cdc!Echoes(s), Cdc!Empty) /\ Flight \in Seq(AnyPacket)
    BY <2>1, FlightType DEF CdcInv, EchoInv, Due
  <2>4. Cdc!Empty \in AnyPacket
    BY PacketFacts
  <2> HIDE DEF AnyPacket
  <2>5. PICK e \in Seq(AnyPacket), f \in Seq(AnyPacket), x \in AnyPacket :
          e = Cdc!Echoes(s) /\ f = Flight /\ x = Cdc!Empty
    BY <2>1, <2>3, <2>4
  <2>6. (e \o <<p, x>>) \o f = Append(e, x)
    BY <1>2, <2>1, <2>2, <2>3, <2>5
  <2>7. Len(e \o <<p, x>>) = Len(e) + 2 /\ e \o <<p, x>> \in Seq(AnyPacket) /\ Len(Append(e, x)) = Len(e) + 1
        /\ Len(e) \in Nat /\ Len(f) \in Nat
    OBVIOUS
  <2>8. Len((e \o <<p, x>>) \o f) = Len(e) + 2 + Len(f)
    BY <2>7
  <2> QED
    BY <2>6, <2>7, <2>8
<1>5. Flight = <<>>
  <2>1. CdcType(n) /\ cdc_got \o Flight = cdc_got
    BY <1>0, <1>2 DEF CdcInv, EchoInv, Due
  <2>2. Flight \in Seq(AnyPacket)
    BY <2>1, FlightType
  <2>3. Len(Flight) = 0
    <3> HIDE DEF AnyPacket
    <3> QED
      BY <1>3, <2>1, <2>2, NothingJoined
  <2> HIDE DEF AnyPacket
  <2> QED
    BY <2>2, <2>3
<1>6. ~ cdc_in.busy /\ cdc_pc # "zlp" /\ cdc_data = Cdc!NoPacket
  <2>1. \A a, b : <<a>> # <<>> /\ <<a, b>> # <<>>
    OBVIOUS
  <2>2. cdc_in.busy \in BOOLEAN
    BY DEF CdcInv, CdcType
  <2>3. ~ cdc_in.busy /\ cdc_pc # "zlp"
    BY <1>5, <2>1, <2>2, FlightCases DEF FlightIs
  <2>4. ASSUME cdc_data # Cdc!NoPacket PROVE FALSE
    <3>1. cdc_data \in PacketsOf(n)
      BY <2>4 DEF CdcInv, CdcType
    <3>2. cdc_data.size = "short" \/ cdc_data.size = "full"
      BY <3>1, PacketFacts
    <3>3. Cdc!Echo(cdc_data) # <<>>
      BY <2>1, <3>2, EchoIs
    <3> QED
      BY <1>5, <2>3, <2>4, <3>3, FlightCases DEF FlightIs
  <2> QED
    BY <2>3, <2>4
<1>7. Flight' = Cdc!Echo(cdc_out')
  <2>1. ~ cdc_in'.busy /\ cdc_pc' # "zlp" /\ cdc_data' = Cdc!NoPacket
    BY <1>2, <1>6
  <2>2. CASE cdc_out'.size \in Cdc!Size
    BY <2>1, <2>2, FlightCasesNext DEF FlightIs
  <2>3. CASE cdc_out'.size \notin Cdc!Size
    <3>1. Flight' = <<>>
      BY <2>1, <2>3, FlightCasesNext DEF FlightIs
    <3> QED
      BY <2>3, <3>1, EchoIs
  <2> QED
    BY <2>2, <2>3
<1>8. EchoInv'
  <2>1. Cdc!Echoes(cdc_sent') = Cdc!Echoes(cdc_sent) \o Cdc!Echo(cdc_out')
    <3> HIDE DEF AnyPacket
    <3> QED
      BY <1>1, <1>3, <1>4, EchoesAppend
  <2> QED
    BY <1>0, <1>2, <1>7, <2>1 DEF EchoInv, Due
<1>9. CdcType(n)'
  <2>1. cdc_sent' \in Seq(PacketsOf(n) \cup {Cdc!Empty})
    BY <1>1, <1>3, <1>4
  <2> QED
    BY <1>2, <1>4, <2>1 DEF CdcInv, CdcType
<1>10. OnePlace' /\ LateInv'
  BY <1>0, <1>2, <1>6 DEF OnePlace, LateInv
<1>11. FlagsInv'
  <2>1. "out" \notin cdc_irq
    BY <1>2 DEF CdcInv, FlagsInv
  <2> QED
    BY <1>2, <2>1 DEF CdcInv, FlagsInv
<1>12. LastInv'
  <2>1. cdc_sent' # <<>> /\ Cdc!Front(cdc_sent)' = cdc_sent
    <3>1. PICK u \in Seq(AnyPacket), p \in AnyPacket : u = cdc_sent /\ p = cdc_out'
      BY <1>3, <1>4
    <3>2. cdc_sent' = Append(u, p)
      BY <1>1, <3>1
    <3> HIDE DEF AnyPacket
    <3>3. Append(u, p) # <<>> /\ Len(Append(u, p)) - 1 = Len(u) /\ SubSeq(Append(u, p), 1, Len(u)) = u
      OBVIOUS
    <3>4. SubSeq(cdc_sent', 1, Len(cdc_sent') - 1) = u
      BY <3>2, <3>3
    <3> QED
      BY <3>1, <3>2, <3>3, <3>4 DEF Cdc!Front
  <2>2. Len(cdc_got) <= Len(cdc_got)
    <3> HIDE DEF AnyPacket
    <3> QED
      BY <1>3
  <2>3. Len(Cdc!Echoes(Cdc!Front(cdc_sent)')) <= Len(cdc_got')
    BY <1>2, <2>1, <2>2
  <2> QED
    BY <1>0, <1>2, <2>3 DEF LastInv
<1> QED
  BY <1>8, <1>9, <1>10, <1>11, <1>12 DEF CdcInv

\* One turn of the loop or of a host that sends at most n packets.
PortStep(n) == Cdc!MainLoop \/ Cdc!HostReads \/ SendsUpTo(n)

LEMMA PortInv ==
  ASSUME NEW n \in Nat, CdcInv(n), PortStep(n) \/ UNCHANGED cdc_vars
  PROVE  CdcInv(n)'
<1>1. CASE Cdc!ReadIrq
  BY <1>1, ReadIrqInv
<1>2. CASE Cdc!InDone
  BY <1>2, InDoneInv
<1>3. CASE Cdc!OutDone
  BY <1>3, OutDoneInv
<1>4. CASE Cdc!Transmit
  BY <1>4, TransmitInv
<1>5. CASE Cdc!TransmitEmpty
  BY <1>5, TransmitEmptyInv
<1>6. CASE Cdc!HostReads
  BY <1>6, HostReadsInv
<1>7. CASE SendsUpTo(n)
  BY <1>7, SendsInv
<1>8. CASE UNCHANGED cdc_vars
  <2>1. CdcType(n)' /\ OnePlace' /\ FlagsInv' /\ LateInv' /\ Flight' = Flight
    BY <1>8 DEF cdc_vars, CdcInv, CdcType, OnePlace, FlagsInv, LateInv, Flight
  <2> QED
    BY <1>8, <2>1, EchoKept DEF CdcInv, cdc_vars
<1> QED
  BY <1>1, <1>2, <1>3, <1>4, <1>5, <1>6, <1>7, <1>8 DEF PortStep, Cdc!MainLoop

LEMMA PrefixOfJoined ==
  ASSUME NEW S, NEW g \in Seq(S), NEW f \in Seq(S)
  PROVE  Len(g) <= Len(g \o f) /\ SubSeq(g, 1, Len(g)) = SubSeq(g \o f, 1, Len(g))
<1>1. Len(g \o f) = Len(g) + Len(f) /\ Len(g) \in Nat /\ Len(f) \in Nat
  OBVIOUS
<1>2. \A i \in 1 .. Len(g) : (g \o f)[i] = g[i]
  OBVIOUS
<1>3. g \o f \in Seq(S)
  OBVIOUS
<1> DEFINE c == g \o f
<1> HIDE DEF c
<1>4. SubSeq(g, 1, Len(g)) = SubSeq(c, 1, Len(g))
  BY <1>1, <1>2, <1>3 DEF c
<1> QED
  BY <1>1, <1>4 DEF c

LEMMA EchoPrefix ==
  ASSUME NEW n \in Nat, CdcInv(n)
  PROVE  Cdc!EchoRight
<1>1. CdcType(n) /\ cdc_got \o Flight = Due
  BY DEF CdcInv, EchoInv
<1>2. cdc_got \in Seq(AnyPacket)
  <2>1. cdc_got \in Seq(PacketsOf(n) \cup {Cdc!Empty})
    BY <1>1 DEF CdcType
  <2>2. PacketsOf(n) \cup {Cdc!Empty} \subseteq AnyPacket
    BY PacketFacts
  <2> HIDE DEF AnyPacket
  <2> QED
    BY <2>1, <2>2
<1>3. Flight \in Seq(AnyPacket)
  BY <1>1, FlightType
<1> HIDE DEF AnyPacket
<1>4. /\ Len(cdc_got) <= Len(cdc_got \o Flight)
      /\ SubSeq(cdc_got, 1, Len(cdc_got)) = SubSeq(cdc_got \o Flight, 1, Len(cdc_got))
  BY <1>2, <1>3, PrefixOfJoined
<1> QED
  BY <1>1, <1>4 DEF Cdc!EchoRight, Cdc!IsPrefix, Due

-----------------------------------------------------------------------------
(* The same at the port of any host, and among the other parts.              *)
CONSTANT Packets
Port == INSTANCE UsbCdc WITH
  MaxPackets <- Packets, Waits <- TRUE, in <- cdc_in, out <- cdc_out,
  ready <- cdc_ready, irq <- cdc_irq, pc <- cdc_pc, flags <- cdc_flags,
  data <- cdc_data, sent <- cdc_sent, got <- cdc_got, late <- cdc_late

LEMMA PortMatches ==
  /\ Port!Init => Cdc!Init
  /\ Port!Next => PortStep(Packets)
  /\ Cdc!EchoRight => Port!EchoRight
<1>1. Port!Init => Cdc!Init
  BY DEF Port!Init, Cdc!Init, Port!Empty, Cdc!Empty, Port!NoPacket, Cdc!NoPacket
<1>2. Port!ReadIrq => Cdc!ReadIrq
  BY DEF Port!ReadIrq, Cdc!ReadIrq
<1>3. Port!InDone => Cdc!InDone
  BY DEF Port!InDone, Cdc!InDone, Port!Empty, Cdc!Empty
<1>4. Port!OutDone => Cdc!OutDone
  BY DEF Port!OutDone, Cdc!OutDone, Port!NoPacket, Cdc!NoPacket, Port!Size, Cdc!Size,
         Port!usb_cdc_rx_data_from_host, Cdc!usb_cdc_rx_data_from_host
<1>5. Port!Transmit => Cdc!Transmit
  BY DEF Port!Transmit, Cdc!Transmit, Port!NoPacket, Cdc!NoPacket,
         Port!usb_cdc_tx_data_to_host, Cdc!usb_cdc_tx_data_to_host
<1>6. Port!TransmitEmpty => Cdc!TransmitEmpty
  BY DEF Port!TransmitEmpty, Cdc!TransmitEmpty, Port!Empty, Cdc!Empty
<1>7. Port!HostReads => Cdc!HostReads
  BY DEF Port!HostReads, Cdc!HostReads
<1>8. \A s : Port!Echoes(s) = Cdc!Echoes(s)
  BY DEF Port!Empty, Cdc!Empty, Port!Echo, Cdc!Echo, Port!Echoes, Cdc!Echoes,
         Port!FlattenSeq, Cdc!FlattenSeq
<1>9. Port!HostSends => SendsUpTo(Packets)
  BY <1>8 DEF Port!HostSends, SendsUpTo, Port!Size, Cdc!Size
<1>10. Cdc!EchoRight => Port!EchoRight
  BY <1>8 DEF Port!EchoRight, Cdc!EchoRight, Port!IsPrefix, Cdc!IsPrefix, Port!Front, Cdc!Front, Port!Empty, Cdc!Empty
<1> QED
  BY <1>1, <1>2, <1>3, <1>4, <1>5, <1>6, <1>7, <1>9, <1>10
  DEF Port!Next, Port!MainLoop, PortStep, Cdc!MainLoop

\* A host that waits for each echo gets back what it sent, in order, each full packet with an empty
\* one behind it, however its polls and packets fall between the steps of the main loop, and however
\* many it sends; a full packet not taken in time is lost, and no other (usbcdc.c:42-96).
THEOREM EchoesWhole == ASSUME Packets \in Nat PROVE Port!Spec => []Port!EchoRight
<1>1. Port!Init => CdcInv(Packets)
  BY PortMatches, CdcInitInv
<1>2. CdcInv(Packets) /\ [Port!Next]_(Port!vars) => CdcInv(Packets)'
  BY PortMatches, PortInv DEF Port!vars, cdc_vars
<1>3. CdcInv(Packets) => Port!EchoRight
  BY PortMatches, EchoPrefix
<1> QED
  BY <1>1, <1>2, <1>3, PTL DEF Port!Spec

LEMMA CdcSteps == ASSUME [MCNext]_all_vars PROVE PortStep(4) \/ UNCHANGED cdc_vars
<1>1. CASE CdcMoves
  <2>1. Cdc!HostSends => SendsUpTo(4)
    BY DEF Cdc!HostSends, SendsUpTo
  <2> QED
    BY <1>1, <2>1 DEF CdcMoves, Cdc!Next, PortStep
<1>2. CASE ~ CdcMoves
  BY <1>2 DEF MCNext, all_vars, WriteMoves, FwMoves, AgainMoves, LossyMoves, SlowMoves, RacedMoves, SppMoves, SoftMoves
<1> QED
  BY <1>1, <1>2

\* So it is with the other parts of these programs around it.
THEOREM EchoesRight == MCSpec => []EchoRight
<1>0. 4 \in Nat
  OBVIOUS
<1>1. MCInit => CdcInv(4)
  BY <1>0, CdcInitInv DEF MCInit
<1>2. CdcInv(4) /\ [MCNext]_all_vars => CdcInv(4)'
  BY <1>0, CdcSteps, PortInv
<1>3. CdcInv(4) => EchoRight
  <2>1. CdcInv(4) => Cdc!EchoRight
    BY <1>0, EchoPrefix
  <2>2. CdcInv(4) => Cdc!TypeOK
    BY DEF CdcInv, CdcType, PacketsOf, Cdc!TypeOK, Cdc!Packet
  <2> QED
    BY <2>1, <2>2 DEF EchoRight
<1> QED
  BY <1>1, <1>2, <1>3, PTL DEF MCSpec

-----------------------------------------------------------------------------
(***************************************************************************)
(* The UARTs among the other parts: what UartProofs shows of each alone    *)
(* holds while the other parts move.                                       *)
(***************************************************************************)
UartP == INSTANCE UartProofs WITH
  Bits <- 2, Q <- 4, Latency <- 1, DataSize <- 2, Num <- 2, MaxBytes <- 3,
  Prompt <- TRUE, Pauses <- TRUE, wire <- soft_wire, left <- soft_left,
  rx <- soft_rx, gpio <- soft_gpio, timer <- soft_timer, slots <- soft_slots,
  w <- soft_w, r <- soft_r, sent <- soft_sent, taken <- soft_taken,
  Wrap <- 4, RxNum <- 2, TxNum <- 2, Ahead <- 1, MaxCmds <- 5, MaxEvents <- 1

\* The run's rings have room for what the MCU sends ahead.
LEMMA SppConstants == UartP!Spp!SppUartAssumption /\ UartP!SppUartRoom
BY DEF UartP!Spp!SppUartAssumption, UartP!SppUartRoom

\* UartP!Spp and Spp are one module with the same constants and variables.
LEMMA SppInit == Spp!Init => UartP!Spp!Init
BY DEF Spp!Init, UartP!Spp!Init, Spp!Fifo, UartP!Spp!Fifo, Spp!NoSlot, UartP!Spp!NoSlot,
       Spp!Nothing, UartP!Spp!Nothing

LEMMA SppVars == Spp!vars = UartP!Spp!vars
BY DEF Spp!vars, UartP!Spp!vars

LEMMA SppNext == Spp!Next => UartP!Spp!Next
<1>1. Spp!McuRaise => UartP!Spp!McuRaise
  BY DEF Spp!McuRaise, UartP!Spp!McuRaise
<1>2. Spp!McuLower => UartP!Spp!McuLower
  BY DEF Spp!McuLower, UartP!Spp!McuLower, Spp!Nothing, UartP!Spp!Nothing
<1>3. Spp!CmdBegins => UartP!Spp!CmdBegins
  BY DEF Spp!CmdBegins, UartP!Spp!CmdBegins, Spp!SlotOf, UartP!Spp!SlotOf, Spp!Nothing,
         UartP!Spp!Nothing, Spp!Torn, UartP!Spp!Torn
<1>4. Spp!CmdEnds => UartP!Spp!CmdEnds
  BY DEF Spp!CmdEnds, UartP!Spp!CmdEnds, Spp!SlotOf, UartP!Spp!SlotOf, Spp!my_fifo_next,
         UartP!Spp!my_fifo_next, Spp!Nothing, UartP!Spp!Nothing
<1>5. Spp!TxDone => UartP!Spp!TxDone
  BY DEF Spp!TxDone, UartP!Spp!TxDone
<1>6. Spp!StackEvent => UartP!Spp!StackEvent
  BY DEF Spp!StackEvent, UartP!Spp!StackEvent, Spp!spp_send_data, UartP!Spp!spp_send_data,
         Spp!my_fifo_wptr, UartP!Spp!my_fifo_wptr, Spp!my_fifo_next, UartP!Spp!my_fifo_next,
         Spp!Filled, UartP!Spp!Filled, Spp!SlotOf, UartP!Spp!SlotOf, Spp!NoSlot,
         UartP!Spp!NoSlot, Spp!FromStack, UartP!Spp!FromStack
<1>7. Spp!RxBegin => UartP!Spp!RxBegin
  BY DEF Spp!RxBegin, UartP!Spp!RxBegin, Spp!my_fifo_get, UartP!Spp!my_fifo_get, Spp!SlotOf,
         UartP!Spp!SlotOf, Spp!NoSlot, UartP!Spp!NoSlot
<1>8. Spp!RxEnd => UartP!Spp!RxEnd
  BY DEF Spp!RxEnd, UartP!Spp!RxEnd, Spp!spp_send_data, UartP!Spp!spp_send_data,
         Spp!my_fifo_wptr, UartP!Spp!my_fifo_wptr, Spp!my_fifo_next, UartP!Spp!my_fifo_next,
         Spp!my_fifo_pop, UartP!Spp!my_fifo_pop, Spp!Popped, UartP!Spp!Popped, Spp!Filled,
         UartP!Spp!Filled, Spp!SlotOf, UartP!Spp!SlotOf, Spp!NoSlot, UartP!Spp!NoSlot,
         Spp!Nothing, UartP!Spp!Nothing, Spp!Torn, UartP!Spp!Torn
<1>9. Spp!tx_to_uart_cb => UartP!Spp!tx_to_uart_cb
  BY DEF Spp!tx_to_uart_cb, UartP!Spp!tx_to_uart_cb, Spp!TxReady, UartP!Spp!TxReady,
         Spp!my_fifo_get, UartP!Spp!my_fifo_get, Spp!my_fifo_pop, UartP!Spp!my_fifo_pop,
         Spp!SlotOf, UartP!Spp!SlotOf, Spp!NoSlot, UartP!Spp!NoSlot
<1>10. ASSUME NEW late \in BOOLEAN PROVE Spp!app_power_management(late)
              => UartP!Spp!app_power_management(late)
  BY DEF Spp!app_power_management, UartP!Spp!app_power_management, Spp!module_uart_working,
         UartP!Spp!module_uart_working, Spp!app_module_busy, UartP!Spp!app_module_busy,
         Spp!UART_TX_BUSY, UartP!Spp!UART_TX_BUSY, Spp!UART_RX_BUSY, UartP!Spp!UART_RX_BUSY,
         Spp!Pad, UartP!Spp!Pad, Spp!NoSlot, UartP!Spp!NoSlot
<1>11. Spp!Sleep => UartP!Spp!Sleep
  BY DEF Spp!Sleep, UartP!Spp!Sleep, Spp!app_module_busy, UartP!Spp!app_module_busy,
         Spp!module_uart_working, UartP!Spp!module_uart_working, Spp!UART_TX_BUSY,
         UartP!Spp!UART_TX_BUSY, Spp!UART_RX_BUSY, UartP!Spp!UART_RX_BUSY, Spp!Pad,
         UartP!Spp!Pad, Spp!Awake, UartP!Spp!Awake, Spp!NoSlot, UartP!Spp!NoSlot
<1>12. Spp!WakeUp => UartP!Spp!WakeUp
  BY DEF Spp!WakeUp, UartP!Spp!WakeUp, Spp!Awake, UartP!Spp!Awake
<1> QED
  BY <1>1, <1>2, <1>3, <1>4, <1>5, <1>6, <1>7, <1>8, <1>9, <1>10, <1>11, <1>12 DEF Spp!Next,
     UartP!Spp!Next

LEMMA SppProperties ==
  UartP!Spp!TypeOK /\ UartP!Spp!CmdsInOrder /\ UartP!Spp!EventsInOrder /\ UartP!Spp!SleepsIdle
      /\ UartP!Spp!McuAwake => SppRight
<1>1. UartP!Spp!TypeOK => Spp!TypeOK
  BY DEF Spp!TypeOK, UartP!Spp!TypeOK, Spp!Filled, UartP!Spp!Filled, Spp!Torn, UartP!Spp!Torn,
         Spp!Nothing, UartP!Spp!Nothing
<1>2. UartP!Spp!CmdsInOrder => Spp!CmdsInOrder
  BY DEF Spp!CmdsInOrder, UartP!Spp!CmdsInOrder
<1>3. UartP!Spp!EventsInOrder => Spp!EventsInOrder
  BY DEF Spp!EventsInOrder, UartP!Spp!EventsInOrder, Spp!IsPrefix, UartP!Spp!IsPrefix
<1>4. UartP!Spp!SleepsIdle => Spp!SleepsIdle
  BY DEF Spp!SleepsIdle, UartP!Spp!SleepsIdle, Spp!Nothing, UartP!Spp!Nothing
<1>5. UartP!Spp!McuAwake => Spp!McuAwake
  BY DEF Spp!McuAwake, UartP!Spp!McuAwake
<1> QED
  BY <1>1, <1>2, <1>3, <1>4, <1>5 DEF SppRight

LEMMA SppSteps == ASSUME [MCNext]_all_vars PROVE [UartP!Spp!Next]_(UartP!Spp!vars)
<1>1. CASE SppMoves
  BY <1>1, SppNext DEF SppMoves
<1>2. CASE ~ SppMoves
  <2>1. UNCHANGED spp_vars
    BY <1>2 DEF MCNext, all_vars, WriteMoves, FwMoves, AgainMoves, LossyMoves, SlowMoves, RacedMoves,
                SoftMoves, CdcMoves
  <2> QED
    BY <2>1 DEF spp_vars, UartP!Spp!vars
<1> QED
  BY <1>1, <1>2

\* With the other parts of these programs around it, the SPP module keeps its commands and events
\* whole and in order and sleeps only with nothing on its way: UartProofs at the run's constants.
THEOREM SppModuleRight == MCSpec => []SppRight
<1>1. MCInit => UartP!Spp!Init
  BY SppInit DEF MCInit
<1>2. [MCNext]_all_vars => [UartP!Spp!Next]_(UartP!Spp!vars)
  BY SppSteps
<1>3. MCSpec => UartP!Spp!Spec
  BY <1>1, <1>2, PTL DEF MCSpec, UartP!Spp!Spec
<1>4. UartP!Spp!Spec => []UartP!Spp!TypeOK
  BY SppConstants, UartP!SppTypeCorrect
<1>5. UartP!Spp!Spec => []UartP!Spp!CmdsInOrder
  BY SppConstants, UartP!SppCommandsKept
<1>6. UartP!Spp!Spec => []UartP!Spp!EventsInOrder
  BY SppConstants, UartP!SppEventsKept
<1>7. UartP!Spp!Spec => []UartP!Spp!SleepsIdle
  BY SppConstants, UartP!SppNeverSleepsBusy
<1>8. UartP!Spp!Spec => []UartP!Spp!McuAwake
  BY SppConstants, UartP!SppMcuStaysAwake
<1> QED
  BY <1>3, <1>4, <1>5, <1>6, <1>7, <1>8, SppProperties, PTL

\* The run's interrupts are in time, and its main loop is prompt.
LEMMA SoftConstants == UartP!SoftUartAssumption /\ UartP!InTime
BY DEF UartP!SoftUartAssumption, UartP!InTime

\* UartP and Soft have one software UART, with the same constants and variables.
LEMMA SoftInit == Soft!Init => UartP!Init
BY DEF Soft!Init, UartP!Init, Soft!Clear, UartP!Clear, Soft!NoIrq, UartP!NoIrq, Soft!Off,
       UartP!Off

LEMMA SoftVars == Soft!vars = UartP!vars
BY DEF Soft!vars, UartP!vars

LEMMA SoftIrq == ASSUME NEW c PROVE Soft!TimerIrq(Soft!GpioIrq(c))
                        = UartP!TimerIrq(UartP!GpioIrq(c))
<1>1. Soft!Clear = UartP!Clear /\ Soft!NoIrq = UartP!NoIrq /\ Soft!Off = UartP!Off
          /\ Soft!Level = UartP!Level
  BY DEF Soft!Clear, UartP!Clear, Soft!NoIrq, UartP!NoIrq, Soft!Off, UartP!Off, Soft!Level,
         UartP!Level
<1>2. Soft!GpioIrq(c) = UartP!GpioIrq(c)
  BY <1>1 DEF Soft!GpioIrq, UartP!GpioIrq, Soft!StartBit, UartP!StartBit
<1>3. ASSUME NEW d PROVE Soft!RxHandler(d) = UartP!RxHandler(d)
  BY DEF Soft!RxHandler, UartP!RxHandler, Soft!Index, UartP!Index
<1>4. ASSUME NEW d PROVE Soft!Keep(d) = UartP!Keep(d)
  BY <1>1, <1>3 DEF Soft!Keep, UartP!Keep, Soft!Index, UartP!Index, Soft!ReplaceAt,
                    UartP!ReplaceAt
<1>5. ASSUME NEW d PROVE Soft!DataBit(d) = UartP!DataBit(d)
  BY <1>1 DEF Soft!DataBit, UartP!DataBit
<1>6. ASSUME NEW d PROVE Soft!StopBit(d) = UartP!StopBit(d)
  BY <1>1, <1>4 DEF Soft!StopBit, UartP!StopBit
<1>7. ASSUME NEW d PROVE Soft!DoneCheck(d) = UartP!DoneCheck(d)
  BY <1>1, <1>3 DEF Soft!DoneCheck, UartP!DoneCheck, Soft!UART_RECE_DONE_NUM,
                    UartP!UART_RECE_DONE_NUM
<1>8. ASSUME NEW d PROVE Soft!TimerIrq(d) = UartP!TimerIrq(d)
  BY <1>1, <1>5, <1>6, <1>7 DEF Soft!TimerIrq, UartP!TimerIrq
<1> QED
  BY <1>2, <1>8

LEMMA SoftNext == Soft!Next => UartP!Next
<1>1. ASSUME NEW b, Soft!Send(b) PROVE UartP!Send(b)
  BY <1>1 DEF Soft!Send, UartP!Send, Soft!Putchar, UartP!Putchar, Soft!NoIrq, UartP!NoIrq
<1>2. Soft!Tick => UartP!Tick
  BY DEF Soft!Tick, UartP!Tick, Soft!Aged, UartP!Aged, Soft!FallingEdge, UartP!FallingEdge,
         Soft!Level, UartP!Level, Soft!NoIrq, UartP!NoIrq, Soft!Off, UartP!Off
<1>3. Soft!Irq => UartP!Irq
  BY SoftIrq DEF Soft!Irq, UartP!Irq, Soft!NoIrq, UartP!NoIrq
<1>4. Soft!Take => UartP!Take
  BY DEF Soft!Take, UartP!Take, Soft!Index, UartP!Index
<1>5. Soft!soft_uart_dis => UartP!soft_uart_dis
  BY DEF Soft!soft_uart_dis, UartP!soft_uart_dis, Soft!Clear, UartP!Clear, Soft!NoIrq,
         UartP!NoIrq, Soft!Off, UartP!Off
<1>6. Soft!soft_uart_en => UartP!soft_uart_en
  BY DEF Soft!soft_uart_en, UartP!soft_uart_en, Soft!Clear, UartP!Clear, Soft!NoIrq, UartP!NoIrq
<1> QED
  BY <1>1, <1>2, <1>3, <1>4, <1>5, <1>6 DEF Soft!Next, UartP!Next, Soft!Byte, UartP!Byte

LEMMA SoftProperties == UartP!TypeOK /\ UartP!BytesAsSent /\ UartP!WritesInBuffer => BytesAsSent
<1>1. UartP!TypeOK => Soft!TypeOK
  BY DEF Soft!TypeOK, UartP!TypeOK, Soft!Byte, UartP!Byte, Soft!UART_RECE_DONE_NUM,
         UartP!UART_RECE_DONE_NUM, Soft!NoIrq, UartP!NoIrq, Soft!Off, UartP!Off
<1>2. Soft!Held = UartP!Held
  BY DEF Soft!Held, UartP!Held, Soft!Index, UartP!Index, Soft!FlattenSeq, UartP!FlattenSeq
<1>3. UartP!BytesAsSent => Soft!BytesAsSent
  BY <1>2 DEF Soft!BytesAsSent, UartP!BytesAsSent, Soft!IsPrefix, UartP!IsPrefix, Soft!NoIrq,
              UartP!NoIrq
<1>4. UartP!WritesInBuffer => Soft!WritesInBuffer
  BY DEF Soft!WritesInBuffer, UartP!WritesInBuffer
<1> QED
  BY <1>1, <1>3, <1>4 DEF BytesAsSent

LEMMA SoftSteps == ASSUME [MCNext]_all_vars PROVE [UartP!Next]_(UartP!vars)
<1>1. CASE SoftMoves
  BY <1>1, SoftNext DEF SoftMoves
<1>2. CASE ~ SoftMoves
  <2>1. UNCHANGED soft_vars
    BY <1>2 DEF MCNext, all_vars, WriteMoves, FwMoves, AgainMoves, LossyMoves, SlowMoves, RacedMoves,
                SppMoves, CdcMoves
  <2> QED
    BY <2>1 DEF soft_vars, UartP!vars
<1> QED
  BY <1>1, <1>2

\* The software UART receives every byte as it was sent, once and in order, into the
\* receiving buffer, while the other parts of the run move.
THEOREM SoftUartRight == MCSpec => []BytesAsSent
<1>1. MCInit => UartP!Init
  BY SoftInit DEF MCInit
<1>2. [MCNext]_all_vars => [UartP!Next]_(UartP!vars)
  BY SoftSteps
<1>3. MCSpec => UartP!Spec
  BY <1>1, <1>2, PTL DEF MCSpec, UartP!Spec
<1>4. UartP!Spec => []UartP!TypeOK
  BY SoftConstants, UartP!TypeCorrect
<1>5. UartP!Spec => []UartP!BytesAsSent
  BY SoftConstants, UartP!BytesKept
<1>6. UartP!Spec => []UartP!WritesInBuffer
  BY SoftConstants, UartP!WritesWhenPrompt
<1> QED
  BY <1>3, <1>4, <1>5, <1>6, SoftProperties, PTL
=============================================================================
