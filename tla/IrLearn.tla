------------------------------- MODULE IrLearn -------------------------------
(* The remote control learns an infrared code (vendor/ble_remote/             *)
(* rc_ir_learn.c): an interrupt at each edge of the carrier takes the time    *)
(* since the last one and sorts it into bursts and gaps; the main loop starts *)
(* the learning and finds its end.  The interrupt may come between any two    *)
(* steps of the main loop.                                                    *)
EXTENDS Integers, Sequences

CONSTANTS
  Cycle,       \* time from edge to edge within a burst
  Gaps,        \* times from the last edge of a burst to the next one
  Threshold,   \* IR_LEARN_INTERVAL_THRESHOLD
  End,         \* IR_LEARN_END_THRESHOLD
  CHECK,       \* IR_CARR_CHECK_CNT
  MIN,         \* CARR_AND_NO_CARR_MIN_NUMBER
  MAX,         \* MAX_SECTION_NUMBER
  MaxBurst,    \* bound: edges of a burst
  MaxStarts    \* bound: how often learning is started

\* Two cycles are more than the threshold leaves to a carrier.  An edge that comes
\* while the record is cleared may use up one of the checks (10 in the code).
IrLearnAssumption ==
  /\ {Cycle, Threshold, End, CHECK, MIN, MAX, MaxBurst, MaxStarts} \subseteq Nat \ {0}
  /\ Cycle % 3 = 0 /\ Cycle < Threshold /\ Threshold < End /\ CHECK > 1 /\ MIN < MAX
  /\ \A g \in Gaps : g \in Nat /\ Threshold < g /\ g < End

VARIABLES
  state,      \* ir_learn_state
  edges,      \* ir_enter_irq_cnt up to three
  inCarrier,  \* carr_or_not
  since,      \* last_trigger_tm_point - carr_switch_start_tm_point
  first,      \* carr_first_interval
  checks,     \* carr_check_cnt
  cycle,      \* carr_cycle_interval
  cnt, buf,   \* wave_series_cnt, wave_series_buf with its first index 1
  irq,        \* is the interrupt enabled?
  quiet,      \* no edge for End, or for ten seconds
  pc,         \* where the main loop was interrupted
  signal,     \* what was sent since the first edge taken: edges of bursts, and gaps
  starts

recVars == <<edges, inCarrier, since, first, checks, cycle, cnt, buf>>
vars == <<state, recVars, irq, quiet, pc, signal, starts>>

Ended == {"success", "first_too_long", "no_carrier", "over_time", "too_few", "full"}
Heard == {"wait", "begin"}

Init ==
  /\ state = "disable" /\ edges = 0 /\ inCarrier = FALSE /\ since = 0 /\ first = 0
  /\ checks = 0 /\ cycle = 0 /\ cnt = 0 /\ buf = [i \in 1 .. MAX |-> 0]
  /\ irq = FALSE /\ quiet = TRUE /\ pc = "loop" /\ signal = <<>> /\ starts = 0

-----------------------------------------------------------------------------
(* The interrupt: ir_record.  Entry i of the code is buf[i + 1].           *)

Limit(n) == IF n > 3 THEN 3 ELSE n
Longer(a, b) == IF a < b THEN b ELSE a

FirstEdge ==
  /\ state' = "begin"
  /\ UNCHANGED <<inCarrier, since, first, checks, cycle, cnt, buf>>

SecondEdge(dt) ==
  /\ IF dt > Threshold
     THEN state' = "first_too_long" /\ UNCHANGED <<inCarrier, since, first>>
     ELSE inCarrier' = TRUE /\ first' = dt /\ since' = dt /\ UNCHANGED state
  /\ UNCHANGED <<checks, cycle, cnt, buf>>

\* The longest of the first intervals.
Check(dt) ==
  IF checks < CHECK THEN cycle' = Longer(cycle, dt) /\ checks' = checks + 1
  ELSE UNCHANGED <<cycle, checks>>

\* Full: what would be entry MAX lies behind the buffer.
Enter(n, time) == IF n < MAX THEN [buf EXCEPT ![n + 1] = time] ELSE buf
StateAt(n, s) == IF n >= MAX THEN "full" ELSE s

CarrierEdge(dt) ==
  /\ dt < Threshold
  /\ cnt' = IF inCarrier THEN cnt ELSE cnt + 1
  /\ inCarrier' = TRUE /\ since' = since + dt
  /\ buf' = Enter(cnt', since')
  /\ state' = StateAt(cnt', state)
  /\ Check(dt) /\ UNCHANGED first

\* A burst has one cycle more than its edges tell.
BurstWhole == [buf EXCEPT ![cnt + 1] = @ + first]

GapEdge(dt) ==
  /\ Threshold < dt /\ dt < End
  /\ IF inCarrier
     THEN /\ inCarrier' = FALSE /\ since' = 0 /\ cnt' = cnt + 1
          /\ buf' = IF cnt' < MAX THEN [BurstWhole EXCEPT ![cnt' + 1] = dt - first \div 3]
                    ELSE BurstWhole
          /\ state' = StateAt(cnt', state) /\ Check(dt)
     ELSE state' = "no_carrier" /\ UNCHANGED <<inCarrier, since, cnt, buf, cycle, checks>>
  /\ UNCHANGED first

LateEdge(dt) ==
  /\ dt > End
  /\ state' = StateAt(cnt, "sample_end")
  /\ Check(dt) /\ UNCHANGED <<inCarrier, since, first, cnt, buf>>

ir_record(dt) ==
  /\ edges' = Limit(edges + 1)
  /\ \/ edges = 0 /\ FirstEdge
     \/ edges = 1 /\ SecondEdge(dt)
     \/ edges > 1 /\ (CarrierEdge(dt) \/ GapEdge(dt) \/ LateEdge(dt))

\* The sender.  A gap comes when the first burst had edges enough to find the
\* cycle; later bursts may be of one edge, and the sender may stop at any time.
GapMayCome == Len(signal) = 1 => signal[1] >= CHECK + 2

Grown == [signal EXCEPT ![Len(signal)] = @ + 1]
Intervals ==
  IF quiet \/ signal = <<>> THEN {End + 1}
  ELSE (IF signal[Len(signal)] < MaxBurst THEN {Cycle} ELSE {})
         \cup (IF GapMayCome THEN Gaps ELSE {})

SignalAfter(dt) ==
  CASE signal = <<>> -> <<1>>
    [] dt = Cycle    -> Grown
    [] dt \in Gaps   -> signal \o <<dt, 1>>
    [] OTHER         -> signal

\* ir_learn_irq_handler; an edge in another state changes nothing.  The bytes
\* from carr_check_cnt to the state are cleared in less than a cycle.
Edge ==
  /\ irq /\ state \in Heard /\ (pc = "clearing" => checks = 0)
  /\ \E dt \in Intervals : ir_record(dt) /\ signal' = SignalAfter(dt)
  /\ quiet' = FALSE
  /\ UNCHANGED <<irq, pc, starts>>

\* No edge for long enough.
Silence ==
  /\ ~quiet /\ quiet' = TRUE
  /\ UNCHANGED <<state, recVars, irq, pc, signal, starts>>

-----------------------------------------------------------------------------
(* The main loop.                                                          *)

\* ir_learn_start clears the record from its first byte to its last, the state
\* being in the middle; then it enables the interrupt.
StartClearing ==
  /\ pc = "loop" /\ state # "success" /\ starts < MaxStarts
  /\ starts' = starts + 1 /\ pc' = "clearing"
  /\ inCarrier' = FALSE /\ since' = 0 /\ first' = 0 /\ checks' = 0
  /\ UNCHANGED <<state, edges, cycle, cnt, buf, irq, quiet, signal>>

StartCleared ==
  /\ pc = "clearing" /\ pc' = "cleared"
  /\ state' = "disable" /\ edges' = 0 /\ cycle' = 0 /\ cnt' = 0
  /\ buf' = [i \in 1 .. MAX |-> 0]
  /\ irq' = TRUE /\ signal' = <<>>
  /\ UNCHANGED <<inCarrier, since, first, checks, quiet, starts>>

StartWaiting ==
  /\ pc = "cleared" /\ pc' = "loop"
  /\ state' = "wait" /\ quiet' = FALSE
  /\ UNCHANGED <<recVars, irq, signal, starts>>

\* ir_learn_detect, up to its decision and after it.
DetectOverTime ==
  /\ pc = "loop" /\ state = "wait" /\ quiet
  /\ pc' = "over_time"
  /\ UNCHANGED <<state, recVars, irq, quiet, signal, starts>>

DetectEnd ==
  /\ pc = "loop" /\ ((state = "begin" /\ quiet) \/ state = "sample_end")
  /\ pc' = "ending"
  /\ UNCHANGED <<state, recVars, irq, quiet, signal, starts>>

StopOverTime ==
  /\ pc = "over_time" /\ pc' = "loop"
  /\ state' = "over_time" /\ irq' = FALSE
  /\ UNCHANGED <<recVars, quiet, signal, starts>>

\* The last cycle is added to entry cnt - 1.
StopEnd ==
  /\ pc = "ending" /\ pc' = "loop"
  /\ IF cnt > MIN THEN state' = "success" /\ buf' = [buf EXCEPT ![cnt] = @ + cycle]
     ELSE state' = "too_few" /\ UNCHANGED buf
  /\ irq' = FALSE
  /\ UNCHANGED <<edges, inCarrier, since, first, checks, cycle, cnt, quiet, signal, starts>>

StartEnds == StartCleared \/ StartWaiting
ir_learn_start == StartClearing \/ StartEnds
ir_learn_detect == DetectOverTime \/ DetectEnd \/ StopOverTime \/ StopEnd

Next == Edge \/ Silence \/ ir_learn_start \/ ir_learn_detect

Spec == Init /\ [][Next]_vars
Fairness == WF_vars(Silence) /\ WF_vars(StartEnds) /\ WF_vars(ir_learn_detect)
FairSpec == Spec /\ Fairness

TypeOK ==
  /\ state \in Ended \cup Heard \cup {"disable", "sample_end"} /\ edges \in 0 .. 3
  /\ inCarrier \in BOOLEAN /\ {since, first, cycle} \subseteq Nat /\ checks \in 0 .. CHECK
  /\ cnt \in 0 .. MAX /\ buf \in [1 .. MAX -> Nat] /\ {irq, quiet} \subseteq BOOLEAN
  /\ pc \in {"loop", "clearing", "cleared", "over_time", "ending"}
  /\ signal \in Seq(Nat) /\ starts \in 0 .. MaxStarts

-----------------------------------------------------------------------------
(* Properties.                                                             *)

\* What a burst of n edges and a gap between two edges are recorded as: a burst
\* counts whole cycles, a gap begins with the low part of the last one.
Section(i) == IF i % 2 = 1 THEN signal[i] * Cycle ELSE signal[i] - Cycle \div 3

\* A code that was learned is the one that was sent: its carrier, the number of
\* sections, each of them, and the last two together, wherever interrupts came
\* and whatever earlier attempts left (rc_ir_learn.c 96-193, 339-363).  An edge
\* alone at the end is not a burst.
LearnedRight ==
  state = "success" /\ signal[Len(signal)] > 1 =>
    /\ cycle = Cycle /\ Len(signal) = cnt + 1
    /\ \A i \in 1 .. cnt - 1 : buf[i] = Section(i)
    /\ buf[cnt] + buf[cnt + 1] = Section(cnt) + Section(cnt + 1)

\* "add last carrier" (rc_ir_learn.c 354): the last burst has its last cycle too.
LastBurstWhole == state = "success" /\ signal[Len(signal)] > 1 => buf[cnt + 1] = Section(cnt + 1)

\* A start is followed by an end, or the remote stays awake (app.c 430).
LearningEnds == (pc = "clearing") ~> (state \in Ended)
=============================================================================
