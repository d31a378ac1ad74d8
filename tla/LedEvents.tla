------------------------------ MODULE LedEvents ------------------------------
(* The LED of a device (vendor/common/blt_led.c): an event switches it on and *)
(* off a number of times, and one of higher priority takes its place.  The    *)
(* main loop comes to led_proc when it may, late by any time.                 *)
EXTENDS Integers

CONSTANTS
  Configs,  \* events, as in led_cfg of the application
  Forever,  \* the repeat count 0xff: on or off until the next event
  Width,    \* the times of device_led_t wrap here, 65536 ms
  MaxLate   \* bound: time after startTick that is told apart

LedEventsAssumption ==
  /\ MaxLate \in Nat /\ {Forever, Width} \subseteq Nat \ {0}
  /\ Configs \subseteq [on : Nat, off : Nat, repeat : Nat \ {0}, priority : Nat]
  /\ \A c \in Configs : c.on + c.off > 0

VARIABLES
  led,       \* device_led but for its pin
  elapsed,   \* time since startTick
  event,     \* the configuration taken last
  age, shone \* how long ago, and how often the LED was switched on since

vars == <<led, elapsed, event, age, shone>>

busy == led.repeat # 0
PowerOn == [on |-> 0, off |-> 1, repeat |-> Forever, priority |-> 0]

Init ==
  /\ led = [isOn |-> FALSE, repeat |-> 0, priority |-> 0, on |-> 0, off |-> 0]
  /\ elapsed = 0 /\ event = PowerOn /\ age = 0 /\ shone = 0

\* With one of the times zero, the other is taken as often as the count says, in 16 bits.
Pattern(c) ==
  CASE c.repeat = Forever -> [on |-> c.on, off |-> c.off, repeat |-> 0]
    [] c.repeat # Forever /\ c.on = 0 -> [on |-> 0, off |-> (c.off * c.repeat) % Width, repeat |-> 1]
    [] c.repeat # Forever /\ c.on # 0 /\ c.off = 0 ->
         [on |-> (c.on * c.repeat) % Width, off |-> 0, repeat |-> 1]
    [] OTHER -> [on |-> c.on, off |-> c.off, repeat |-> c.repeat]

Refused(c) == busy /\ led.priority >= c.priority

device_led_setup(c) ==
  /\ ~Refused(c)
  /\ LET p == Pattern(c) IN
       led' = [isOn |-> p.on # 0, repeat |-> p.repeat, priority |-> c.priority, on |-> p.on, off |-> p.off]
  /\ elapsed' = 0 /\ event' = c /\ age' = 0
  /\ shone' = IF led'.isOn THEN 1 ELSE 0

\* A mistake: the next phase begins when the main loop has seen the end of this one.
FromNow(time) == 0
After(time) == elapsed - time

SwitchOff ==
  /\ led.isOn /\ elapsed > led.on
  /\ IF led.off # 0
     THEN led' = [led EXCEPT !.isOn = FALSE] /\ elapsed' = After(led.on)
     ELSE led' = [led EXCEPT !.isOn = FALSE, !.repeat = 0] /\ UNCHANGED elapsed
  /\ UNCHANGED <<event, age, shone>>

SwitchOn ==
  /\ ~led.isOn /\ elapsed > led.off
  /\ IF led.repeat > 1
     THEN /\ led' = [led EXCEPT !.repeat = @ - 1, !.isOn = TRUE]
          /\ elapsed' = After(led.off) /\ shone' = shone + 1
     ELSE led' = [led EXCEPT !.repeat = 0] /\ UNCHANGED <<elapsed, shone>>
  /\ UNCHANGED <<event, age>>

led_proc == busy /\ (SwitchOff \/ SwitchOn)

Tick ==
  /\ busy /\ elapsed < MaxLate
  /\ elapsed' = elapsed + 1 /\ age' = age + 1
  /\ UNCHANGED <<led, event, shone>>

Next == (\E c \in Configs : device_led_setup(c)) \/ led_proc \/ Tick
Spec == Init /\ [][Next]_vars
Fairness == WF_vars(led_proc) /\ WF_vars(Tick)

TypeOK ==
  /\ led \in [isOn : BOOLEAN, repeat : Nat, priority : Nat, on : Nat, off : Nat]
  /\ elapsed \in 0 .. MaxLate /\ event \in Configs \cup {PowerOn} /\ {age, shone} \subseteq Nat

-----------------------------------------------------------------------------
(* Properties.                                                             *)

Length(c) == IF c.repeat = Forever THEN 0 ELSE (c.on + c.off) * c.repeat
Flashes(c) ==
  CASE c.on = 0 -> 0
    [] c.on # 0 /\ (c.off = 0 \/ c.repeat = Forever) -> 1
    [] OTHER -> c.repeat

\* The times that device_led_setup joins into one fit their 16 bits.
TimesFit ==
  \A c \in Configs :
    c.repeat # Forever /\ 0 \in {c.on, c.off} => (c.on + c.off) * c.repeat < Width

\* With times that fit, an event that is over shone as often as its configuration says and took no
\* less than its time, however late the main loop was, and the LED is as it says.
ShoneAsAsked ==
  ~busy => /\ shone = Flashes(event) /\ age >= Length(event)
           /\ led.isOn <=> (event.repeat = Forever /\ event.on # 0)

\* Until its time is over, only an event of higher priority takes its place.
Protected == [][age' < age /\ age < Length(event) => event'.priority > event.priority]_vars

\* Lateness does not add up: the event is over with the main loop's last delay.
NoDrift == busy /\ elapsed <= 1 => age <= Length(event) + 1

\* The LED does not keep the device awake for good, as long as the application
\* begins no event again and again.
Shines == [](busy => <>(~busy \/ age = 0))
=============================================================================
