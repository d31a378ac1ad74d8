------------------------------- MODULE KeyScan -------------------------------
(***************************************************************************)
(* The key matrix of application/keyboard/keyboard.c: each pass of the     *)
(* main loop drives the rows, reads the columns, removes ghost keys,       *)
(* filters bounces, queues a changed matrix and turns the oldest queued    *)
(* matrix into a key event.                                                *)
(* A key is <<row, column>>, a matrix a set of keys (a bit mask per drive  *)
(* pin in the code).  The fingers and the wires are external.              *)
(***************************************************************************)
EXTENDS Integers, FiniteSetsExt

CONSTANTS
  Drive, Scan,          \* numbers of drive_pins and scan_pins
  Modifier, Repeatable, \* keys mapped to VK_CTRL..VK_RWIN, and in kb_map_repeat
  Fn,                   \* keys mapped to VK_FN
  KB_RETURN_KEY_MAX,    \* 6, keys of an event
  KB_RM_GHOST_KEY_EN, KB_REPEAT_KEY_ENABLE,
  Interval,             \* scans in KB_REPEAT_KEY_INTERVAL_MS
  Status                \* what callers pass to kb_scan_key: a set of records
                        \* [poweron, invalid, read : BOOLEAN]

Row == 0..Drive - 1
Col == 0..Scan - 1
Key == Row \X Col
Matrix == SUBSET Key

KeyScanAssumption ==
  /\ Drive \in 1..4 /\ Scan \in Nat \ {0}
  /\ Modifier \subseteq Key /\ Repeatable \subseteq Key /\ Fn \subseteq Key
  /\ KB_RETURN_KEY_MAX \in Nat \ {0} /\ Interval \in Nat
  /\ KB_RM_GHOST_KEY_EN \in BOOLEAN /\ KB_REPEAT_KEY_ENABLE \in BOOLEAN
  /\ Status \subseteq [poweron : BOOLEAN, invalid : BOOLEAN, read : BOOLEAN]

VARIABLES
  pressed,  \* the keys held down
  reading,  \* what the rows read
  scan,     \* [pre, last]: mtrx_pre and mtrx_last
  hold,     \* [release_cnt, ret_last] of kb_key_pressed
  buff,     \* [slot, wptr, rptr]: matrix_buff and its pointers
  rep,      \* repeat_key, with the scans since key_change_tick
  event,    \* kb_event, and the map it was looked up in
  past      \* history: what two scans in a row agreed on, and the matrix of
            \* the last event
vars == <<pressed, reading, scan, hold, buff, rep, event, past>>

TypeOK ==
  /\ pressed \in Matrix /\ reading \in Matrix
  /\ scan \in [pre : Matrix, last : Matrix]
  /\ hold \in [release_cnt : 0..6, ret_last : SUBSET Col]
  /\ buff \in [slot : [0..3 -> Matrix], wptr : 0..7, rptr : 0..7]
  /\ (buff.wptr - buff.rptr) % 8 <= 4
  /\ rep \in [key_change_flg : {"NONE", "CHANGE", "SAME"}, key_repeat_flg : BOOLEAN,
              age : 0..Interval]
  /\ event.ret \in BOOLEAN /\ event.keys \in Matrix /\ event.ctrl \subseteq Modifier
  /\ event.fn \in BOOLEAN
  /\ past \in [agreed : Matrix, shown : Matrix]

Init ==
  /\ pressed = {} /\ reading = {}
  /\ scan = [pre |-> {}, last |-> {}]
  /\ hold = [release_cnt |-> 0, ret_last |-> {}]
  /\ buff = [slot |-> [i \in 0..3 |-> {}], wptr |-> 0, rptr |-> 0]
  /\ rep = [key_change_flg |-> "NONE", key_repeat_flg |-> FALSE, age |-> Interval]
  /\ event = [ret |-> FALSE, keys |-> {}, ctrl |-> {}, fn |-> FALSE]
  /\ past = [agreed |-> {}, shown |-> {}]

-----------------------------------------------------------------------------
(* The wires: rows with a pressed key in a common column are connected, so  *)
(* that each of them reads the keys of all.  Two joins reach all of at most *)
(* four rows.                                                               *)
Cols(m, i) == {c \in Col : <<i, c>> \in m}
Linked(m) == {r \in Row \X Row : \E k \in m : k[1] = r[1] /\ <<r[2], k[2]>> \in m}
Join(m) == UNION {{r[1]} \X Cols(m, r[2]) : r \in Linked(m)}

PressOrRelease ==
  /\ \E k \in Key : pressed' = (pressed \ {k}) \cup ({k} \ pressed)
  /\ \E m \in {Join(pressed')} : reading' = Join(m)
  /\ UNCHANGED <<scan, hold, buff, rep, event, past>>

-----------------------------------------------------------------------------
\* Columns two rows share, where other keys may have closed one of the corners.
Mix(m, i, j) ==
  LET mix == Cols(m, i) \cap Cols(m, j)
  IN  IF Cardinality(mix) > 1 \/ Cols(m, i) # Cols(m, j) THEN mix ELSE {}

\* mix_final gathers the pairs of the rows up to i with later ones; the rows
\* before i are already cleared, the later ones are not.
MixFinal(m, i) == UNION {UNION {Mix(m, j, l) : l \in j + 1..Drive - 1} : j \in 0..i}
kb_rmv_ghost_key(m) ==
  UNION {{i} \X (Cols(m, i) \ MixFinal(m, i)) : i \in Row}

\* key_debounce_filter, for a matrix.
Filter(m, s) ==
  {k \in Key : IF k \in s.last THEN k \in m \cup s.pre ELSE k \in m \cap s.pre}

\* A mistake: the scans stop with the key.
HoldOnce(read) == [release_cnt |-> 0, ret_last |-> {k[2] : k \in read}]
\* kb_key_pressed: the columns to read; after the last key for some scans more.
Hold(read) ==
  LET ret == {k[2] : k \in read}
  IN  IF ret # {} THEN [release_cnt |-> 5, ret_last |-> ret]
      ELSE [hold EXCEPT !.release_cnt = IF @ = 0 THEN 0 ELSE @ - 1]

\* The repeat timer, after a scan that changed the matrix or not.
Elapsed == IF rep.age < Interval THEN rep.age + 1 ELSE Interval
RepeatTimer(changed) ==
  IF ~KB_REPEAT_KEY_ENABLE THEN [rep |-> rep, push |-> changed]
  ELSE IF changed THEN [rep |-> [rep EXCEPT !.key_change_flg = "CHANGE", !.age = 0], push |-> TRUE]
  ELSE LET flg == IF rep.key_change_flg = "CHANGE" THEN "SAME" ELSE rep.key_change_flg
           due == flg = "SAME" /\ rep.key_repeat_flg /\ Elapsed = Interval
       IN  [rep |-> [rep EXCEPT !.key_change_flg = flg, !.age = IF due THEN 0 ELSE Elapsed],
            push |-> due]

\* Into matrix_buff.
Push(b, m) ==
  LET w == (b.wptr + 1) % 8
  IN  [slot |-> [b.slot EXCEPT ![b.wptr % 4] = m], wptr |-> w,
       rptr |-> IF (w - b.rptr) % 8 > 4 THEN (w - 4) % 8 ELSE b.rptr]
\* Out of it; nothing reads the slot again, so that its content is forgotten.
Pop(b) == [b EXCEPT !.slot[b.rptr % 4] = {}, !.rptr = (@ + 1) % 8]

\* kb_remap_key_code: the first keys of the matrix by row and column; keys
\* behind the last that fits are not looked at, modifiers included.
Before(k, l) == k[1] < l[1] \/ (k[1] = l[1] /\ k[2] < l[2])
Plain(m) == {k \in m : k \notin Modifier \cup Fn}
Seen(m) == {k \in m : Cardinality({l \in Plain(m) : Before(l, k)}) < KB_RETURN_KEY_MAX}
Remapped(m, fn) ==
  [ret |-> TRUE, keys |-> Plain(m) \cap Seen(m), ctrl |-> Modifier \cap Seen(m), fn |-> fn]

\* kb_scan_row tests for VK_FN with the row it drives, while the bits it tests
\* are those of the row before; the first call sees all rows.
FnSeen(read) ==
  \E k \in Fn :
    IF k[1] = 0 THEN \E i \in Row : <<i, k[2]>> \in read ELSE <<k[1] - 1, k[2]>> \in read

\* After the read out of an event: may its only key repeat?
RepeatKey(r, e) ==
  IF KB_REPEAT_KEY_ENABLE /\ r.key_change_flg = "CHANGE"
  THEN [r EXCEPT !.key_repeat_flg = \E k \in Repeatable : e.keys = {k}]
  ELSE r

NoEvent == [event EXCEPT !.ret = FALSE, !.keys = {}, !.ctrl = {}, !.fn = FALSE]

\* kb_scan_key without a key: nothing is read, kb_event stays as it is.
kb_scan_idle ==
  /\ reading = {} /\ hold.release_cnt = 0
  /\ rep' = IF KB_REPEAT_KEY_ENABLE THEN [rep EXCEPT !.key_change_flg = "NONE", !.age = Elapsed]
            ELSE rep
  /\ event' = [event EXCEPT !.ret = FALSE]
  /\ UNCHANGED <<pressed, reading, scan, hold, buff, past>>

\* kb_scan_key_value, for the matrix m read and the filtered one.
Scanned(numlock_status, m, cur) ==
  LET timer == RepeatTimer(cur # scan.last)
      queued == IF timer.push THEN Push(buff, cur) ELSE buff
      out == queued.slot[queued.rptr % 4]
      reads == numlock_status.read /\ ~numlock_status.invalid /\ queued.wptr # queued.rptr
      e == Remapped(out, FnSeen(reading))
  IN  /\ scan' = [pre |-> m, last |-> cur]
      /\ buff' = IF reads THEN Pop(queued) ELSE queued
      /\ event' = IF reads THEN e ELSE [NoEvent EXCEPT !.ret = numlock_status.invalid]
      /\ rep' = IF reads THEN RepeatKey(timer.rep, e) ELSE timer.rep
      /\ past' = [agreed |-> {k \in Key : IF numlock_status.poweron \/ (k \in m) = (k \in scan.pre)
                                          THEN k \in m ELSE k \in past.agreed},
                  shown |-> IF reads THEN out ELSE past.shown]

kb_scan_key_value(numlock_status) ==
  /\ reading # {} \/ hold.release_cnt > 0
  /\ hold' = Hold(reading)
  /\ \E m \in {IF KB_RM_GHOST_KEY_EN THEN kb_rmv_ghost_key(reading) ELSE reading} :
       \E cur \in {IF numlock_status.poweron THEN m ELSE Filter(m, scan)} :
         Scanned(numlock_status, m, cur)
  /\ UNCHANGED <<pressed, reading>>

kb_scan_key == kb_scan_idle \/ \E numlock_status \in Status : kb_scan_key_value(numlock_status)

Next == PressOrRelease \/ kb_scan_key

Spec == Init /\ [][Next]_vars

-----------------------------------------------------------------------------
(* Properties.                                                              *)

\* Where ghost keys are removed, a key that appears in the matrix is down at
\* that scan, also when three corners of a square are held and the wires close
\* the fourth, and when a third row makes a pair of rows doubtful.
NoGhostKey ==
  [][KB_RM_GHOST_KEY_EN => scan'.last \ scan.last \subseteq pressed]_vars

\* The debounced matrix is for each key what two scans in a row last agreed on:
\* one odd sample neither makes nor ends a key press.
Debounced == scan.last = past.agreed

\* The newest matrix is never lost: the last event or, while matrices wait,
\* the youngest of them shows the debounced keys, also after the ring has
\* overwritten older ones.
NewestKept ==
  scan.last = IF buff.wptr = buff.rptr THEN past.shown ELSE buff.slot[(buff.wptr - 1) % 4]

\* When the scan stops because no key is down, the release has been filtered
\* and reported: no key stays down in the host's eyes.
ReleasedWhenIdle ==
  hold.release_cnt = 0 => scan.pre = {} /\ scan.last = {} /\ past.shown = {}

\* A matrix is repeated only while a single repeatable key is held.
RepeatsHeldKey ==
  [][rep'.age = 0 /\ rep.age # 0 /\ scan'.last = scan.last
       => \E k \in Repeatable : Plain(scan.last) = {k}]_vars
=============================================================================
