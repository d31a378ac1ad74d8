------------------------------ MODULE FlashChips ------------------------------
(***************************************************************************)
(* The flash chips of drivers/B85, B87 and TC321X: the block protection    *)
(* bits of their status registers, and the codes that lock the low area.   *)
(* A status is the set of the positions of its 1 bits; sizes are in KB.    *)
(***************************************************************************)
EXTENDS Integers, FiniteSets, TLC

BpWide   == {2, 3, 4, 5, 6, 14}   \* 0x407c: BP0-2, TB, SEC, CMP
BpNarrow == {2, 3, 4}             \* 0x1c:   BP0-2

Wide(mid, size, low)   == [mid |-> mid, size |-> size, bp |-> BpWide, low |-> low]
Narrow(mid, size, low) == [mid |-> mid, size |-> size, bp |-> BpNarrow, low |-> low]

\* The codes many chips share.
TopBottom == 64 :> {2, 5} @@ 128 :> {3, 5} @@ 256 :> {2, 3, 5}
Cmp512 == 448 :> {2, 14} @@ 384 :> {3, 14} @@ TopBottom
Cmp1M  == 960 :> {2, 14} @@ 896 :> {3, 14} @@ 768 :> {2, 3, 14}
            @@ 512 :> {4, 5} @@ TopBottom
Tail512 == 448 :> {4} @@ 384 :> {2, 4} @@ 256 :> {3, 4} @@ 512 :> {2, 3, 4}
Tail1M  == 960 :> {4} @@ 896 :> {2, 4} @@ 768 :> {3, 4} @@ 1024 :> {2, 3, 4}

Mid1060c8   == Narrow("1060c8", 64, 64 :> {4})
Mid11325e   == Narrow("11325e", 128, 64 :> {4} @@ 128 :> {2, 3, 4})
Mid1160c8   == Narrow("1160c8", 128, 64 :> {4} @@ 128 :> {2, 3, 4})
Mid13325e   == Narrow("13325e", 512, Tail512)
Mid134051   == Narrow("134051", 512, Tail512)
Mid1360c8   == Narrow("1360c8", 512, Tail512)
Mid14325e   == Narrow("14325e", 1024, Tail1M)
Mid1460c8   == Narrow("1460c8", 1024, Tail1M)
Mid0113325e == Wide("0113325e", 512, 512 :> {4} @@ Cmp512)
Mid136085   == Wide("136085", 512, 512 :> {2, 3, 4, 5, 6} @@ Cmp512)
Mid1360eb   == Wide("1360eb", 512, 512 :> {2, 3, 4, 5, 6} @@ Cmp512)
Mid0114325e == Wide("0114325e", 1024, 1024 :> {2, 3, 4} @@ Cmp1M)
Mid011460c8 == Wide("011460c8", 1024, 1024 :> {2, 3, 4, 5, 6} @@ Cmp1M)
Mid146085   == Wide("146085", 1024, 1024 :> {2, 3, 4, 5, 6} @@ Cmp1M)
Mid1471cd   == Wide("1471cd", 1024, 1024 :> {2, 3, 4, 5, 6} @@ Cmp1M)
Mid156085   == Wide("156085", 2048, 1984 :> {2, 14} @@ 1920 :> {3, 14} @@ 1792 :> {2, 3, 14}
                              @@ 1536 :> {4, 14} @@ 1024 :> {2, 4, 5} @@ 512 :> {4, 5}
                              @@ TopBottom)

-----------------------------------------------------------------------------
(* What a chip refuses to program or erase: [first, last + 1).             *)

Bp(sr) == (IF 2 \in sr THEN 1 ELSE 0) + (IF 3 \in sr THEN 2 ELSE 0)
            + (IF 4 \in sr THEN 4 ELSE 0)
AtMost(a, b) == IF a < b THEN a ELSE b
Nothing == <<0, 0>>

NarrowArea(size, n) ==
  LET left == 4 * 2 ^ n   \* 8K .. 256K stay writable
  IN CASE n = 0 -> Nothing
       [] n = 7 -> <<0, size>>
       [] OTHER -> <<0, IF left < size THEN size - left ELSE size>>
NarrowLocked(size, sr) == NarrowArea(size, Bp(sr))

\* The protected share n, counted in sectors (SEC), from the bottom (TB), inverted (CMP).
WideArea(size, n, sec, bottom, cmp) ==
  LET span == CASE n = 0 -> 0
                [] n = 7 -> size
                [] OTHER -> IF sec THEN AtMost(4 * 2 ^ (n - 1), 32)
                                   ELSE AtMost(64 * 2 ^ (n - 1), size)
  IN IF span = (IF cmp THEN size ELSE 0) THEN Nothing
     ELSE CASE ~ cmp /\ bottom   -> <<0, span>>
            [] ~ cmp /\ ~ bottom -> <<size - span, size>>
            [] cmp /\ bottom     -> <<span, size>>
            [] cmp /\ ~ bottom   -> <<0, size - span>>
WideLocked(size, sr) == WideArea(size, Bp(sr), 6 \in sr, 5 \in sr, 14 \in sr)

Locked(c, sr) == IF c.bp = BpWide THEN WideLocked(c.size, sr) ELSE NarrowLocked(c.size, sr)

Covers(r, lo, hi)  == r[1] <= lo /\ hi <= r[2]
Touches(r, lo, hi) == r[1] < hi /\ lo < r[2]
=============================================================================
