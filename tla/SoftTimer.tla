------------------------------- MODULE SoftTimer -------------------------------
(***************************************************************************)
(* The software timers of vendor/common/blt_soft_timer.c: a table sorted   *)
(* by due time, polled by the main loop, whose first entry is also the     *)
(* wake-up time of the sleeping device.  All times are ticks of a clock    *)
(* that wraps (2^32 ticks of 1/16 us), compared by their difference.       *)
(***************************************************************************)
EXTENDS Integers, SequencesExt

CONSTANTS
  Callback,        \* the callback functions of the application
  Interval,        \* timer intervals, in ticks
  MAX_TIMER_NUM,   \* 4
  Wrap,            \* 2^32
  Quarter,         \* BIT(30), the span within which two times compare
  SafePre,         \* BLT_TIMER_SAFE_MARGIN_PRE: this early counts as expired
  SafePost,        \* BLT_TIMER_SAFE_MARGIN_POST: later than this does not
  Near,            \* 5000 ms: the wake-up time must be this close
  Results,         \* what callbacks return: "stop" < 0, "same" = 0, "new" > 0
  MainOps,         \* what the main loop may call: "add", "delete"
  CallbackOps,     \* what callbacks may call
  MaxGap,          \* the longest turn of the main loop that is awake
  MaxSleep         \* the longest sleep without a wake-up time: a radio event

ASSUME TimerAssumption ==
  /\ MAX_TIMER_NUM \in Nat \ {0}
  /\ Quarter \in Nat \ {0} /\ Wrap = 4 * Quarter
  /\ SafePre \in Nat /\ SafePost \in Nat /\ SafePre < SafePost
  /\ Near \in Nat /\ Interval \subseteq Nat
  /\ Results \subseteq {"stop", "same", "new"}
  /\ MainOps \subseteq {"add", "delete"}
  /\ CallbackOps \subseteq {"add", "delete"}
  /\ MaxGap \in Nat /\ MaxSleep \in Nat

Time == 0..(Wrap - 1)
Minus(t1, t2) == (t1 - t2) % Wrap
Plus(t, interval) == (t + interval) % Wrap

TIME_COMPARE_BIG(t1, t2) == Minus(t1, t2) < Quarter

\* An expiry test that forgets the wrap.
PlainExpired(t, now) == t <= now + SafePre
Expired(t, now) == Minus(now + SafePre, t) < SafePost

VARIABLES
  clock,    \* clock_time()
  timer,    \* blt_timer.timer[0 .. currentNum - 1]
  wakeup,   \* bls_pm_setAppWakeupLowPower(t, on)
  proc,     \* locals of blt_soft_timer_process while it runs
  idle      \* ticks since its last call returned

vars == <<clock, timer, wakeup, proc, idle>>

Entry == [cb: Callback, t: Time, interval: Interval]

Off == [on |-> FALSE, t |-> 0]
Armed(t) == [on |-> TRUE, t |-> t]
NotRunning == [on |-> FALSE, now |-> 0, i |-> 1, change_flg |-> FALSE]

TypeOK ==
  /\ clock \in Time
  /\ timer \in Seq(Entry) /\ Len(timer) <= MAX_TIMER_NUM
  /\ wakeup \in [on: BOOLEAN, t: Time]
  /\ proc \in [on: BOOLEAN, now: Time, i: 1..(MAX_TIMER_NUM + 1),
               change_flg: BOOLEAN]
  /\ idle \in Nat

Init ==
  /\ clock \in Time
  /\ timer = <<>>
  /\ wakeup = Off
  /\ proc = NotRunning
  /\ idle = 0

-----------------------------------------------------------------------------
(***************************************************************************)
(* The bubble sort of blt_soft_timer_sort, equal entries swapped too.      *)
(***************************************************************************)
SwapIfBig(tab, j) ==
  IF TIME_COMPARE_BIG(tab[j].t, tab[j + 1].t)
    THEN [tab EXCEPT ![j] = tab[j + 1], ![j + 1] = tab[j]]
    ELSE tab

\* The table after the first n comparisons of a pass.
BubbleUp(tab, n) ==
  LET pass[j \in 0..n] == IF j = 0 THEN tab ELSE SwapIfBig(pass[j - 1], j)
  IN  pass[n]

\* Pass i compares the entries up to Len(tab) - i + 1.
Sort(tab) ==
  LET sorted[i \in 0..Len(tab)] ==
        IF i = 0 THEN tab ELSE BubbleUp(sorted[i - 1], Len(tab) - i)
  IN  sorted[Len(tab)]

\* The wake-up time of the last entry.
WakeupForLast(tab, now) == IF tab # <<>> THEN Armed(tab[Len(tab)].t) ELSE Off

\* The wake-up time is the first entry's if that is near enough.
WakeupFor(tab, now) ==
  IF tab # <<>> /\ Minus(tab[1].t, now) < Near THEN Armed(tab[1].t) ELSE Off

\* blt_soft_timer_add on the table
Added(tab, cb, interval) ==
  Sort(Append(tab, [cb |-> cb, t |-> Plus(clock, interval), interval |-> interval]))

\* blt_soft_timer_delete: the first entry of cb
IndexOf(tab, cb) == SelectInSeq(tab, LAMBDA e : e.cb = cb)
WakeupUnchanged(tab, i) == wakeup
DeletedWakeup(tab, i) ==
  IF i = 1 THEN WakeupFor(RemoveAt(tab, 1), clock)
  ELSE wakeup

-----------------------------------------------------------------------------
blt_soft_timer_add(cb, interval) ==
  /\ ~proc.on /\ "add" \in MainOps
  /\ Len(timer) < MAX_TIMER_NUM
  /\ timer' = Added(timer, cb, interval)
  /\ wakeup' = Armed(timer'[1].t)
  /\ UNCHANGED <<clock, proc, idle>>

blt_soft_timer_delete(cb) ==
  LET i == IndexOf(timer, cb)
  IN  /\ ~proc.on /\ "delete" \in MainOps
      /\ i # 0
      /\ timer' = RemoveAt(timer, i)
      /\ wakeup' = DeletedWakeup(timer, i)
      /\ UNCHANGED <<clock, proc, idle>>

\* A start of the loop that waits for the wrong end of the table.
StartOnLast ==
  /\ ~proc.on
  /\ IF timer # <<>> /\ Expired(timer[Len(timer)].t, clock)
       THEN /\ proc' = [NotRunning EXCEPT !.on = TRUE, !.now = clock]
            /\ UNCHANGED <<wakeup, idle>>
       ELSE idle' = 0 /\ UNCHANGED <<wakeup, proc>>
  /\ UNCHANGED <<clock, timer>>

\* A call that has nothing to do, or the start of the loop over the table.
ProcessStart ==
  /\ ~proc.on
  /\ \/ /\ timer = <<>>
        /\ wakeup' = Off /\ idle' = 0
        /\ UNCHANGED proc
     \/ /\ timer # <<>> /\ ~Expired(timer[1].t, clock)
        /\ idle' = 0
        /\ UNCHANGED <<wakeup, proc>>
     \/ /\ timer # <<>> /\ Expired(timer[1].t, clock)
        /\ proc' = [NotRunning EXCEPT !.on = TRUE, !.now = clock]
        /\ UNCHANGED <<wakeup, idle>>
  /\ UNCHANGED <<clock, timer>>

\* The callback of entry proc.i is run now.
Runs == proc.on /\ proc.i <= Len(timer) /\ Expired(timer[proc.i].t, proc.now)

ProcessSkip ==
  /\ proc.on /\ proc.i <= Len(timer)
  /\ ~Expired(timer[proc.i].t, proc.now)
  /\ proc' = [proc EXCEPT !.i = @ + 1]
  /\ UNCHANGED <<clock, timer, wakeup, idle>>

\* The table and wake-up time after whatever the callback calls.
CallbackEffects ==
  {[tab |-> timer, wakeup |-> wakeup]}
  \cup (IF "add" \in CallbackOps /\ Len(timer) < MAX_TIMER_NUM
          THEN {[tab |-> Added(timer, cb, interval),
                 wakeup |-> Armed(Added(timer, cb, interval)[1].t)] :
                  cb \in Callback, interval \in Interval}
          ELSE {})
  \cup {[tab |-> RemoveAt(timer, i), wakeup |-> DeletedWakeup(timer, i)] :
          i \in {IndexOf(timer, cb) : cb \in {c \in Callback :
             "delete" \in CallbackOps /\ IndexOf(timer, c) # 0}}}

\* The table sorted within the loop.
RearmAndSort(tab, i, interval) ==
  Sort([tab EXCEPT ![i].interval = interval, ![i].t = Plus(proc.now, interval)])

\* Entry i, if the table still has one, is rearmed.
Rearm(tab, i, interval) ==
  IF i <= Len(tab)
    THEN [tab EXCEPT ![i].interval = interval, ![i].t = Plus(proc.now, interval)]
    ELSE tab

\* Result < 0: blt_soft_timer_delete_by_index.
Stop(tab, i) == IF i <= Len(tab) THEN RemoveAt(tab, i) ELSE tab

\* The code reads the table at proc.i again after the callback.
ProcessFire ==
  LET i == proc.i
  IN  /\ Runs
      /\ \E e \in CallbackEffects :
           /\ wakeup' = e.wakeup
           /\ \/ /\ "stop" \in Results
                 /\ timer' = Stop(e.tab, i)
                 /\ proc' = [proc EXCEPT !.i = i + 1]
              \/ /\ "same" \in Results
                 /\ timer' = IF i <= Len(e.tab)
                               THEN Rearm(e.tab, i, e.tab[i].interval) ELSE e.tab
                 /\ proc' = [proc EXCEPT !.i = i + 1, !.change_flg = TRUE]
              \/ /\ "new" \in Results
                 /\ \E interval \in Interval : timer' = Rearm(e.tab, i, interval)
                 /\ proc' = [proc EXCEPT !.i = i + 1, !.change_flg = TRUE]
      /\ UNCHANGED <<clock, idle>>

\* After the loop: sorted if an entry was rearmed, and the wake-up time set.
SortNever(tab) == tab
SortIfChanged(tab) == IF proc.change_flg THEN Sort(tab) ELSE tab

ProcessDone ==
  /\ proc.on /\ proc.i > Len(timer)
  /\ timer' = SortIfChanged(timer)
  /\ wakeup' = WakeupFor(timer', proc.now)
  /\ proc' = NotRunning
  /\ idle' = 0
  /\ UNCHANGED clock

(***************************************************************************)
(* The clock runs.  Awake, the main loop comes back within MaxGap; asleep, *)
(* the device wakes at the wake-up time or after MaxSleep.                 *)
(***************************************************************************)
Asleep == ~proc.on /\ ~(wakeup.on /\ TIME_COMPARE_BIG(clock, wakeup.t))

TimePasses ==
  /\ idle < MaxGap \/ (Asleep /\ idle < MaxSleep)
  /\ clock' = Plus(clock, 1)
  /\ idle' = idle + 1
  /\ UNCHANGED <<timer, wakeup, proc>>

Process == ProcessStart \/ ProcessSkip \/ ProcessFire \/ ProcessDone

Next ==
  \/ \E cb \in Callback, interval \in Interval : blt_soft_timer_add(cb, interval)
  \/ \E cb \in Callback : blt_soft_timer_delete(cb)
  \/ Process
  \/ TimePasses

Spec == Init /\ [][Next]_vars

\* The main loop calls blt_soft_timer_process for ever, and the clock runs.
FairSpec == Spec /\ WF_vars(Process) /\ WF_vars(TimePasses)

-----------------------------------------------------------------------------
\* "Timer tasks are originally ordered" (blt_soft_timer.c:107): between two
\* calls the table is in order of time, across the wrap of the clock, so that
\* looking at its first entry is enough (lines 200 and 237).  It has its places
\* only (line 87).
Ordered ==
  /\ TypeOK
  /\ ~proc.on =>
       \A i \in 1..(Len(timer) - 1) : TIME_COMPARE_BIG(timer[i + 1].t, timer[i].t)

\* The device is never left to wake for a timer that was deleted or moved:
\* a wake-up time is the first entry's (lines 99, 149, 238).
WakesForFirst ==
  ~proc.on /\ wakeup.on => timer # <<>> /\ wakeup.t = timer[1].t

\* Nothing expired goes unseen: an entry is either ahead of the clock or so
\* little behind that blt_soft_timer_process still takes it for expired.  One
\* beyond the window blocks the table until the clock has wrapped.
NoneMissed ==
  \A i \in DOMAIN timer :
    \/ Minus(timer[i].t, clock) < Quarter
    \/ Expired(timer[i].t, clock)

\* "so as to trigger the timers in turn" (blt_soft_timer.c:42-43): a callback
\* never runs while an entry that was due before it still waits.
InTurn ==
  [][Runs /\ ProcessFire =>
       \A k \in DOMAIN timer :
         Expired(timer[k].t, proc.now)
           => TIME_COMPARE_BIG(timer[k].t, timer[proc.i].t)]_vars

\* Every timer is served: a callback in the table runs or is deleted.
Served ==
  \A cb \in Callback :
    [](IndexOf(timer, cb) # 0 =>
         <>(IndexOf(timer, cb) = 0 \/ (Runs /\ timer[proc.i].cb = cb)))
=============================================================================
