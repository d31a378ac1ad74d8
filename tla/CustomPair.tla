------------------------------ MODULE CustomPair ------------------------------
(***************************************************************************)
(* The bond table of the central (vendor/common/custom_pair.c): a table in  *)
(* RAM and a log of eight-byte entries in one flash sector, read back when  *)
(* the device starts.  Power may fail between two flash operations and      *)
(* within one.                                                             *)
(***************************************************************************)
EXTENDS Integers, Sequences, FiniteSets

CONSTANTS
  Device,       \* peers: address type and address
  MaxBonds,          \* USER_PAIR_SLAVE_MAX_NUM
  Entries,      \* entries of the sector (FLASH_CUSTOM_PAIRING_MAX_SIZE / 8)
  TornErase,    \* power that fails while a sector is erased leaves any part of it
  Power         \* times that power fails, to bound the runs

CustomPairAssumption ==
  MaxBonds \in Nat \ {0} /\ Entries \in Nat /\ Entries > 2 * MaxBonds /\ TornErase \in BOOLEAN /\ Power \in Nat

VARIABLES
  flash,    \* the sector: one cell per entry
  tbl,      \* user_tbl_slaveMac: [idx, device], the first curNum of them
  cfg_idx,  \* user_bond_slave_flash_cfg_idx / 8
  mode,     \* "off", "on", or "stuck" in the endless loop
  kept,     \* devices no power failure may take: whole in flash, and not about to be deleted
  full,     \* an add failed since the last start
  failures

vars == <<flash, tbl, cfg_idx, mode, kept, full, failures>>

\* An entry by its mark: 0xff (and the rest 0xff or not), 0x5a with a device, anything else.  A
\* device with a wrong address is Odd.
Odd == "odd"
Free == [mark |-> "free", device |-> Odd]
Spoilt == [mark |-> "spoilt", device |-> Odd]
Dead == [mark |-> "dead", device |-> Odd]
Bond(d) == [mark |-> "bond", device |-> d]
Place == 0..(Entries - 1)

-----------------------------------------------------------------------------
(* Flash operations: writes at a place, or an erase of the sector.         *)

Mark(i) == [op |-> "mark", at |-> i, device |-> Odd]
Write(i, d) == [op |-> "write", at |-> i, device |-> d]
Erase == [op |-> "erase", at |-> 0, device |-> Odd]

\* Bits are only cleared: an address over a spoilt entry is a mixture.
Done(f, o) ==
  CASE o.op = "mark" -> [f EXCEPT ![o.at] = Dead]
    [] o.op = "write" -> [f EXCEPT ![o.at] = IF f[o.at] = Free THEN Bond(o.device) ELSE Bond(Odd)]
    [] o.op = "erase" -> [i \in Place |-> Free]

\* What an operation that power interrupted can leave.
Torn(f, o) ==
  CASE o.op = "mark" -> {f, Done(f, o)}
    [] o.op = "write" -> {f} \union {[f EXCEPT ![o.at] = c] : c \in {Spoilt, Dead, Bond(Odd)}}
    [] o.op = "erase" -> IF TornErase THEN {[i \in Place |-> IF i \in S THEN Free ELSE f[i]] : S \in SUBSET Place}
                         ELSE {f, Done(f, o)}

After(f, ops) ==
  LET after[k \in 0..Len(ops)] == IF k = 0 THEN f ELSE Done(after[k - 1], ops[k])
  IN  after[Len(ops)]

\* All that power failing somewhere in ops can leave.
Failed(f, ops) ==
  UNION {Torn(After(f, SubSeq(ops, 1, k - 1)), ops[k]) : k \in 1..Len(ops)}

-----------------------------------------------------------------------------
(* The start: user_master_host_pairing_flash_init and                      *)
(* user_bond_slave_flash_clean.                                            *)

End(f) == IF \E i \in Place : f[i].mark \in {"free", "spoilt"}
            THEN CHOOSE i \in Place : f[i].mark \in {"free", "spoilt"}
                                      /\ \A j \in 0..(i - 1) : f[j].mark \notin {"free", "spoilt"}
            ELSE Entries

Found(f) ==
  LET found[k \in 0..End(f)] ==
        IF k = 0 THEN <<>>
        ELSE IF f[k - 1].mark = "bond"
          THEN Append(found[k - 1], [idx |-> k - 1, device |-> f[k - 1].device])
        ELSE found[k - 1]
  IN  found[End(f)]

DevicesIn(t) == {t[i].device : i \in 1..Len(t)}

Clean(t) == <<Erase>> \o [i \in 1..Len(t) |-> Write(i - 1, t[i].device)]

PowerFails(ops, safe) ==
  /\ failures < Power /\ failures' = failures + 1
  /\ flash' \in Failed(flash, ops) /\ mode' = "off" /\ kept' = safe
  /\ tbl' = <<>> /\ cfg_idx' = -1 /\ full' = FALSE

Stuck(t) == Len(t) > MaxBonds

Start ==
  /\ mode = "off"
  /\ \E t \in {Found(flash)}, last \in {End(flash) - 1} :
       \/ /\ Stuck(t) /\ mode' = "stuck" /\ UNCHANGED <<flash, tbl, cfg_idx, kept, full, failures>>
       \/ /\ ~Stuck(t) /\ last < Entries \div 2
          /\ mode' = "on" /\ tbl' = t /\ cfg_idx' = last /\ kept' = DevicesIn(t) \ {Odd}
          /\ UNCHANGED <<flash, full, failures>>
       \/ /\ ~Stuck(t) /\ last >= Entries \div 2
          /\ \/ /\ flash' = After(flash, Clean(t)) /\ mode' = "on" /\ cfg_idx' = Len(t) - 1
                /\ tbl' = [i \in 1..Len(t) |-> [t[i] EXCEPT !.idx = i - 1]]
                /\ kept' = DevicesIn(t) \ {Odd} /\ UNCHANGED <<full, failures>>
             \/ PowerFails(Clean(t), {})

-----------------------------------------------------------------------------
(* The operations blm_host.c and app.c call.                               *)

\* user_tbl_slave_mac_delete_by_index and its flash operation.
Deleted(t, i) == SubSeq(t, 1, i - 1) \o SubSeq(t, i + 1, Len(t))

\* A mistake: the new bond is written before the oldest is marked.
AddOpsBefore(d) ==
  IF cfg_idx + 1 >= Entries THEN <<>>
  ELSE <<Write(cfg_idx + 1, d)>> \o (IF Len(tbl) >= MaxBonds THEN <<Mark(tbl[1].idx)>> ELSE <<>>)
AddOps(d) ==
  (IF Len(tbl) >= MaxBonds THEN <<Mark(tbl[1].idx)>> ELSE <<>>)
  \o (IF cfg_idx + 1 >= Entries THEN <<>> ELSE <<Write(cfg_idx + 1, d)>>)

\* user_tbl_slave_mac_add.  The counter moves on although the entry does not fit.  The table
\* holds the address of the device whatever the flash made of it; over an entry that an
\* earlier write spoilt the bond is not kept.
Add(d) ==
  /\ mode = "on" /\ cfg_idx <= Entries
  /\ \E t \in {IF Len(tbl) >= MaxBonds THEN Deleted(tbl, 1) ELSE tbl}, room \in {cfg_idx + 1 < Entries} :
       \/ /\ cfg_idx' = cfg_idx + 1 /\ flash' = After(flash, AddOps(d))
          /\ tbl' = IF room THEN Append(t, [idx |-> cfg_idx + 1, device |-> d]) ELSE t
          /\ kept' = (kept \cap DevicesIn(t)) \cup (IF room /\ flash[cfg_idx + 1] = Free THEN {d} ELSE {})
          /\ full' = (full \/ ~room) /\ UNCHANGED <<mode, failures>>
       \/ PowerFails(AddOps(d), kept \cap DevicesIn(t))

\* user_tbl_slave_mac_search: one more than the index, 0 if it is not there.
user_tbl_slave_mac_search(d) ==
  IF \E i \in 1..Len(tbl) : tbl[i].device = d
    THEN CHOOSE i \in 1..Len(tbl) : tbl[i].device = d /\ \A j \in 1..(i - 1) : tbl[j].device # d
    ELSE 0

\* user_tbl_slave_mac_delete_by_adr.
DeleteOps(i) == <<Mark(tbl[i].idx)>>

DeleteByAdr(d) ==
  /\ mode = "on"
  /\ \E i \in {user_tbl_slave_mac_search(d)} :
       /\ i # 0
       /\ \/ /\ flash' = After(flash, DeleteOps(i)) /\ tbl' = Deleted(tbl, i)
             /\ kept' = kept \cap DevicesIn(tbl') /\ UNCHANGED <<cfg_idx, mode, full, failures>>
          \/ PowerFails(DeleteOps(i), kept \cap DevicesIn(Deleted(tbl, i)))

DeleteAllOps == [i \in 1..Len(tbl) |-> Mark(tbl[i].idx)]
DeleteAll ==
  /\ mode = "on" /\ tbl # <<>>
  /\ \/ /\ flash' = After(flash, DeleteAllOps) /\ tbl' = <<>> /\ kept' = {}
        /\ UNCHANGED <<cfg_idx, mode, full, failures>>
     \/ PowerFails(DeleteAllOps, {})

\* Power off between two operations.
PowerOff ==
  /\ mode = "on" /\ failures < Power /\ failures' = failures + 1
  /\ mode' = "off" /\ tbl' = <<>> /\ cfg_idx' = -1 /\ full' = FALSE
  /\ UNCHANGED <<flash, kept>>

Init ==
  /\ flash = [i \in Place |-> Free] /\ tbl = <<>> /\ cfg_idx = -1 /\ mode = "off" /\ kept = {}
  /\ full = FALSE /\ failures = 0

Next ==
  \/ Start \/ DeleteAll \/ PowerOff
  \/ \E d \in Device : (user_tbl_slave_mac_search(d) = 0 /\ Add(d)) \/ DeleteByAdr(d)

Spec == Init /\ [][Next]_vars /\ WF_vars(Start)

-----------------------------------------------------------------------------
\* Type invariant.
TypeOK ==
  /\ \A i \in Place : flash[i] \in {Free, Spoilt, Dead, Bond(Odd)} \union {Bond(d) : d \in Device}
  /\ Len(tbl) <= MaxBonds /\ \A i \in 1..Len(tbl) : tbl[i].idx \in Place /\ tbl[i].device \in Device \union {Odd}
  /\ cfg_idx \in -1..(Entries + 1) /\ mode \in {"off", "on", "stuck"} /\ kept \subseteq Device

\* The log in flash says what the table says: a start at any moment finds as many bonds, at their
\* places and in the order that decides which is the oldest, each with the device of the table
\* unless it was written over an entry that power had spoilt (custom_pair.c:93-218, 236-293).
SameBond(a, b) == a.idx = b.idx /\ (a.device = b.device \/ (a.device = Odd /\ b.device \notin kept))
LogIsTable ==
  mode = "on" => \E t \in {Found(flash)} : Len(t) = Len(tbl) /\ \A i \in 1..Len(t) : SameBond(t[i], tbl[i])

\* A bond no operation was about is there after power failed within an add or a delete, or
\* between two operations.  The code does not keep it within user_bond_slave_flash_clean, which
\* erases the sector first: see the README.
OthersSurvive == mode = "off" => kept \subseteq DevicesIn(Found(flash))

\* A bond that was deleted does not come back, whatever operation, or start, power fails in.
NoneReturns ==
  [][mode' = "off" =>
       DevicesIn(Found(flash')) \ {Odd} \subseteq DevicesIn(IF mode = "on" THEN tbl ELSE Found(flash))]_vars

\* The start never meets more bonds than the table holds (custom_pair.c:280-284).
NeverStuck == mode # "stuck"

\* An add finds room in the sector (custom_pair.c:241).
\* The code does not keep this: see the README.
AddFits == ~full

\* A device that was switched on comes up.
Starts == mode = "off" ~> mode = "on"
=============================================================================
