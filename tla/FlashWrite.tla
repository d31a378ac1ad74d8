----------------------------- MODULE FlashWrite -----------------------------
(***************************************************************************)
(* Writing to the internal flash (drivers/B85/flash.c, the same in B87 and  *)
(* TC321X).  flash_page_program cuts a buffer at the page boundaries, as     *)
(* the chip goes back to the start of a page when it is sent more than the   *)
(* page holds.  Interrupts are off for one piece at a time, and power may    *)
(* fail within a piece.  A byte is the set of its 1 bits: programming only   *)
(* clears bits, erasing sets them.  The chip is external.                    *)
(***************************************************************************)
EXTENDS Integers, Sequences

CONSTANTS
  PAGE_SIZE,
  Pages,       \* pages of the flash
  Sector,      \* pages of a sector
  Bits,        \* bits of a byte
  Data,        \* buffers that are written
  Stack        \* STACK_SIZE_FOR_FLASH_DATA

ASSUME FlashWriteAssumption ==
  /\ PAGE_SIZE \in Nat \ {0} /\ Pages \in Nat /\ Sector \in Nat \ {0}
  /\ Data \subseteq Seq(SUBSET Bits) /\ Stack \in Nat

VARIABLES
  flash,           \* the bytes of the chip
  mode,            \* "idle", "writing", "stalled" in while(1), or "off"
  addr, len, ns, buf,  \* the variables of flash_page_program; buf is what is left
  req, old         \* the last call, and the flash before it

vars == <<flash, mode, addr, len, ns, buf, req, old>>

Addr == 0 .. PAGE_SIZE * Pages - 1
Byte == SUBSET Bits

\* Where the p-th byte sent to the chip lands.
Cell(a, p) == (a - (a % PAGE_SIZE)) + (((a % PAGE_SIZE) + p - 1) % PAGE_SIZE)

\* The chip programs the bytes d from address a on.
PageProgram(f, a, d) ==
  [c \in DOMAIN f |-> {b \in f[c] : \A p \in DOMAIN d : Cell(a, p) = c => b \in d[p]}]

SectorOf(a) == {c \in Addr : c \div (PAGE_SIZE * Sector) = a \div (PAGE_SIZE * Sector)}

\* What a call that ends leaves.
Written(f, r) ==
  [c \in DOMAIN f |-> IF c \in r.addr .. r.addr + Len(r.data) - 1
                      THEN f[c] \cap r.data[c - r.addr + 1] ELSE f[c]]

NoCall == [addr |-> 0, data |-> <<>>, const |-> FALSE]

Take(s, n) == SubSeq(s, 1, n)
Drop(s, n) == SubSeq(s, n + 1, Len(s))

\* What is left of the page of the address.
FirstPiece(a) == PAGE_SIZE - (a % PAGE_SIZE)

\* A buffer in flash (const) goes through a copy on the stack.
flash_page_program(a, d, const) ==
  /\ mode = "idle"
  /\ a + Len(d) <= PAGE_SIZE * Pages
  /\ mode' = "writing"
  /\ addr' = a /\ len' = Len(d) /\ ns' = FirstPiece(a) /\ buf' = d
  /\ req' = [addr |-> a, data |-> d, const |-> const]
  /\ old' = flash
  /\ UNCHANGED flash

Smaller(m, n) == IF m > n THEN n ELSE m

\* A mistake: the buffer does not move on.
AdvanceBuf(nw) ==
  /\ ns' = PAGE_SIZE
  /\ addr' = addr + nw /\ UNCHANGED buf /\ len' = len - nw
  /\ mode' = IF len' > 0 THEN "writing" ELSE "idle"

Advance(nw) ==
  /\ ns' = PAGE_SIZE
  /\ addr' = addr + nw /\ buf' = Drop(buf, nw) /\ len' = len - nw
  /\ mode' = IF len' > 0 THEN "writing" ELSE "idle"

\* One turn of the loop.
Piece ==
  /\ mode = "writing"
  /\ \E nw \in {Smaller(len, ns)} :
       IF req.const /\ nw > Stack
       THEN mode' = "stalled" /\ UNCHANGED <<flash, addr, len, ns, buf>>
       ELSE /\ flash' = PageProgram(flash, addr, Take(buf, nw))
            /\ Advance(nw)
  /\ UNCHANGED <<req, old>>

\* The whole sector of the address is erased.
flash_erase_sector(a) ==
  /\ mode = "idle"
  /\ flash' = [c \in Addr |-> IF c \in SectorOf(a) THEN Bits ELSE flash[c]]
  /\ old' = flash' /\ req' = NoCall
  /\ UNCHANGED <<mode, addr, len, ns, buf>>

\* Power fails between two pieces or within one, which leaves any of its bits.
PowerFailsWriting ==
  /\ mode \in {"writing", "stalled"}
  /\ \/ UNCHANGED flash
     \/ /\ mode = "writing"
        /\ \E done \in {PageProgram(flash, addr, Take(buf, Smaller(len, ns)))} :
             \E left \in SUBSET {c \in Addr : done[c] # flash[c]} :
               flash' = [c \in Addr |-> IF c \in left THEN flash[c] ELSE done[c]]
  /\ mode' = "off"
  /\ UNCHANGED <<addr, len, ns, buf, req, old>>

Start ==
  /\ mode = "off"
  /\ mode' = "idle"
  /\ old' = flash /\ req' = NoCall
  /\ UNCHANGED <<flash, addr, len, ns, buf>>

Init ==
  /\ flash = [c \in Addr |-> Bits]
  /\ mode = "idle"
  /\ addr = 0 /\ len = 0 /\ ns = PAGE_SIZE /\ buf = <<>>
  /\ req = NoCall /\ old = flash

Next ==
  \/ \E a \in Addr, d \in Data, const \in BOOLEAN : flash_page_program(a, d, const)
  \/ Piece
  \/ \E a \in Addr : flash_erase_sector(a)
  \/ PowerFailsWriting
  \/ Start

Spec == Init /\ [][Next]_vars

(***************************************************************************)
(* Properties.                                                             *)
(***************************************************************************)
TypeOK ==
  /\ flash \in [Addr -> Byte] /\ old \in [Addr -> Byte]
  /\ mode \in {"idle", "writing", "stalled", "off"}
  /\ addr \in 0 .. PAGE_SIZE * Pages /\ len \in Nat /\ ns \in 1 .. PAGE_SIZE
  /\ buf \in Seq(Byte)
  /\ req \in [addr : Nat, data : Seq(Byte), const : BOOLEAN]

\* A call that returns has programmed its bytes and no other, wherever the
\* buffer lies across the pages (flash.c:230-252).
Programmed == mode = "idle" => flash = Written(old, req)

\* At every moment, also when power fails, bytes outside the buffer's place are
\* as they were and bytes inside have lost none but the bits they were to lose.
NothingElse ==
  \A c \in Addr : Written(old, req)[c] \subseteq flash[c] /\ flash[c] \subseteq old[c]

\* A buffer in flash that is longer than the copy on the stack stalls the
\* program (flash.c:224-225).
\* The code does not keep this: see the README.
LongStalls == mode = "idle" => ~(req.const /\ Len(req.data) > Stack)
=============================================================================
