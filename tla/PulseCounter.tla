----------------------------- MODULE PulseCounter -----------------------------
(***************************************************************************)
(* The counter of external pulses of the Nano: INT0 starts Timer2 on each  *)
(* falling edge, the compare match looks at the pin half-way and the       *)
(* overflow counts the pulse if the pin is still low.  The contact of the  *)
(* meter bounces when it moves, and noise shorter than the compare time    *)
(* pulls the pin low at any moment.  Every two seconds the scheduler makes *)
(* a power of the time between two pulses.                                 *)
(*                                                                         *)
(* A tick is a fraction of the 16 ms of Timer2.  Edges and interrupts come *)
(* in any order within a tick; all the requests of a tick are served before*)
(* the next one.                                                           *)
(***************************************************************************)
EXTENDS Integers

CONSTANTS
  OCR2A,        \* ticks to the compare match, 8 ms
  TOP,          \* ticks to the overflow, 16 ms
  Bounce,       \* ticks a contact that moves may bounce
  Spike,        \* ticks noise may pull the pin low
  Closed,       \* ticks the contact stays closed at least, bounces apart
  Open,         \* ticks it stays open at least
  Hold,         \* bound on the ages
  Intervals     \* times between two pulses of a meter that is running

ASSUME PulseAssumption ==
  /\ OCR2A \in Nat \ {0} /\ TOP \in Nat /\ OCR2A < TOP
  /\ Bounce \in 0 .. OCR2A - 1 /\ Spike \in 0 .. OCR2A - 1
  /\ Closed \in Nat /\ TOP < Closed /\ Open \in Nat /\ OCR2A < Open
  /\ Hold \in Nat /\ Closed <= Hold /\ Open <= Hold
  /\ {"none", "silence"} \cap Intervals = {}

VARIABLES
  contact, age,       \* where the contact is, and for how many ticks
  pin,                \* pulseExternalPin: "OFF" is the low level, "ON" the high one
  low,                \* ticks the pin has been low in this spike
  running,            \* TCCR2B # 0
  TCNT2,
  requests,           \* interrupt requests of INT0, TIMER2_COMPA, TIMER2_OVF
  attached,           \* INT0 is served
  due,                \* pulses of the meter that are not counted
  deltaTimeImpulsion, lastDeltaTimeImpulsion, lastMinuteDeltaTimeImpulsion,
  impulsionFlag,
  Pimpulsion,         \* the interval it was computed from, "none" for a power of 0
  silent,             \* history: minutes checked since the last pulse, up to 2
  disturbed           \* history: the router was stopped, and all is not yet quiet

environment == <<contact, age, pin, low>>
timer == <<running, TCNT2>>
power == <<lastDeltaTimeImpulsion, lastMinuteDeltaTimeImpulsion, impulsionFlag, Pimpulsion>>
rate == <<deltaTimeImpulsion, power, silent>>
vars == <<environment, timer, requests, attached, rate, due, disturbed>>
--------------------------------------------------------------------------------
(* The meter and the noise *)

\* A falling edge asks for INT0; the request is kept while INT0 is detached.
Drive(level) ==
  /\ pin' = level
  /\ requests' = IF pin = "ON" /\ level = "OFF" THEN requests \cup {"INT0"} ELSE requests

Close ==
  /\ contact = "open" /\ age >= Open /\ pin = "ON"
  /\ contact' = "closing" /\ age' = 0 /\ low' = 0
  /\ Drive("OFF")
  /\ due' = IF disturbed THEN due ELSE due + 1
  /\ UNCHANGED <<timer, attached, rate, disturbed>>

Release ==
  /\ contact = "closed" /\ age >= Closed
  /\ contact' = "opening" /\ age' = 0 /\ low' = 0
  /\ Drive("ON")
  /\ UNCHANGED <<timer, attached, rate, due, disturbed>>

Bounces ==
  /\ contact \in {"closing", "opening"}
  /\ Drive(IF pin = "ON" THEN "OFF" ELSE "ON")
  /\ UNCHANGED <<contact, age, low, timer, attached, rate, due, disturbed>>

Settle ==
  /\ contact \in {"closing", "opening"}
  /\ contact' = IF contact = "closing" THEN "closed" ELSE "open"
  /\ Drive(IF contact = "closing" THEN "OFF" ELSE "ON")
  /\ age' = 0
  /\ UNCHANGED <<low, timer, attached, rate, due, disturbed>>

Noise ==
  /\ contact = "open"
  /\ Drive(IF pin = "ON" THEN "OFF" ELSE "ON")
  /\ low' = 0
  /\ UNCHANGED <<contact, age, timer, attached, rate, due, disturbed>>

Meter == Close \/ Release \/ Bounces \/ Settle \/ Noise
--------------------------------------------------------------------------------
(* Timer2 and its interrupts *)

Enabled == IF attached THEN requests ELSE requests \ {"INT0"}

Tick ==
  /\ Enabled = {}
  /\ contact \in {"closing", "opening"} => age < Bounce
  /\ contact = "open" /\ pin = "OFF" => low < Spike
  /\ age' = IF age < Hold THEN age + 1 ELSE age
  /\ low' = IF contact = "open" /\ pin = "OFF" THEN low + 1 ELSE low
  /\ TCNT2' = IF running THEN (TCNT2 + 1) % TOP ELSE TCNT2
  /\ requests' = requests \cup (IF running /\ TCNT2' = OCR2A THEN {"COMPA"} ELSE {})
                          \cup (IF running /\ TCNT2' = 0 THEN {"OVF"} ELSE {})
  /\ UNCHANGED <<contact, pin, running, attached, rate, due, disturbed>>

\* Both branches start Timer2 from 0.
Restarted == 0

pulseExternalInterrupt ==
  /\ "INT0" \in Enabled
  /\ requests' = requests \ {"INT0"}
  /\ running' = TRUE /\ TCNT2' = Restarted
  /\ UNCHANGED <<environment, attached, rate, due, disturbed>>

\* Mutant: the compare match lets Timer2 run.
Rejected_Never == FALSE

\* The pin is high half-way: not a pulse.
Rejected == pin = "ON"

Compare ==
  /\ "COMPA" \in Enabled /\ "INT0" \notin Enabled
  /\ requests' = requests \ {"COMPA"}
  /\ IF Rejected THEN running' = FALSE /\ TCNT2' = 0 ELSE UNCHANGED timer
  /\ UNCHANGED <<environment, attached, rate, due, disturbed>>

\* A pulse: the time since the one before, which may span a silence.
Count ==
  /\ due' = IF disturbed THEN due ELSE due - 1
  /\ deltaTimeImpulsion' \in IF silent = 2 THEN {"silence"} ELSE Intervals
  /\ silent' = 0
  /\ UNCHANGED power

NoPulse == UNCHANGED <<rate, due>>

\* The pin is low 16 ms after the last edge: one pulse more in indexImpulsion.
Overflow ==
  /\ Enabled = {"OVF"}
  /\ requests' = requests \ {"OVF"}
  /\ running' = FALSE /\ TCNT2' = 0
  /\ IF pin = "OFF" THEN Count ELSE NoPulse
  /\ UNCHANGED <<environment, attached, disturbed>>
--------------------------------------------------------------------------------
(* The power of the meter, in PVRScheduler *)

\* Mutant: a silence does not make the next interval be ignored.
NoPower_KeepsFlag == impulsionFlag

\* What a minute without a pulse leaves in impulsionFlag.
NoPower == FALSE

\* The check of second 8 of each minute.
Silence == deltaTimeImpulsion = lastMinuteDeltaTimeImpulsion

\* Every two seconds; minute tells the check of second 8.  The first interval
\* after a silence is ignored.
PulsePower(minute) ==
  LET over == minute /\ Silence
      flag == IF over THEN NoPower ELSE impulsionFlag
      new == deltaTimeImpulsion # lastDeltaTimeImpulsion
  IN /\ impulsionFlag' = (flag \/ new)
     /\ Pimpulsion' = IF new /\ flag THEN deltaTimeImpulsion
                      ELSE IF over THEN "none" ELSE Pimpulsion
     /\ lastDeltaTimeImpulsion' = deltaTimeImpulsion
     /\ lastMinuteDeltaTimeImpulsion' =
          IF minute THEN deltaTimeImpulsion ELSE lastMinuteDeltaTimeImpulsion
     /\ silent' = IF minute /\ silent < 2 THEN silent + 1 ELSE silent
     /\ UNCHANGED <<environment, timer, requests, attached, deltaTimeImpulsion, due, disturbed>>

PVRScheduler == \E minute \in BOOLEAN : PulsePower(minute)
--------------------------------------------------------------------------------
(* The stop and the start of the router *)

\* stopPVR leaves Timer2 to itself.  From here pulses may be lost and noise
\* counted: the history starts anew once all is quiet.
Stop ==
  /\ attached
  /\ attached' = FALSE
  /\ disturbed' = TRUE /\ due' = 0
  /\ UNCHANGED <<environment, timer, requests, rate>>

configTimer2 == running' = FALSE /\ TCNT2' = 0

\* An edge that was seen while detached is served now.
Start ==
  /\ ~attached
  /\ attached' = TRUE
  /\ configTimer2
  /\ UNCHANGED <<environment, requests, rate, due, disturbed>>

Quiet ==
  /\ attached /\ disturbed
  /\ contact = "open" /\ age >= Open /\ pin = "ON" /\ Enabled = {} /\ ~running
  /\ disturbed' = FALSE
  /\ UNCHANGED <<environment, timer, requests, attached, rate, due>>
--------------------------------------------------------------------------------
Init ==
  /\ contact = "open" /\ age = 0 /\ pin = "ON" /\ low = 0
  /\ running = FALSE /\ TCNT2 = 0 /\ requests = {}
  /\ attached = TRUE
  /\ deltaTimeImpulsion = "none" /\ lastDeltaTimeImpulsion = "none"
  /\ lastMinuteDeltaTimeImpulsion = "none"
  /\ impulsionFlag = FALSE /\ Pimpulsion = "none" /\ silent = 2
  /\ due = 0 /\ disturbed = FALSE

Interrupt == pulseExternalInterrupt \/ Compare \/ Overflow
Next == Meter \/ Tick \/ Interrupt \/ PVRScheduler \/ Stop \/ Start \/ Quiet

Spec == Init /\ [][Next]_vars
================================================================================
