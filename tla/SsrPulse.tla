------------------------------- MODULE SsrPulse -------------------------------
(***************************************************************************)
(* How the SSR pin is driven: the zero-crossing interrupt starts Timer1    *)
(* with the delay of the half-cycle in OCR1A, the compare interrupt turns  *)
(* the SSR on, the overflow interrupt turns it off at PULSE_END, and the   *)
(* main program stops and restarts everything (stopPVR, startPVR).         *)
(*                                                                         *)
(* An interrupt request is a flag that stays pending until its routine     *)
(* runs.  Routines run one at a time, before the main program goes on, in  *)
(* the order INT1, TIMER1_COMPA, TIMER1_OVF.  Time is counted in ticks of  *)
(* Timer1 (64 us); no routine waits for a whole tick.                      *)
(***************************************************************************)
EXTENDS Integers, FiniteSets

CONSTANTS
  Delays,         \* the values of energyToDelay for a command above 0
  PULSE_END,      \* end of the pulse, in ticks after the zero crossing
  Far,            \* a delay never reached: 30000
  Top,            \* the largest value of the 16-bit counter
  MinGap,         \* crossings closer than that are taken for noise: 8 ms
  EarliestCross,  \* from there on the mains may cross zero again
  SinceMax,       \* bound of the clock: without a crossing, 2 s have passed
  NCSTART         \* zero crossings of the warm-up

ASSUME PulseAssumption ==
  /\ PULSE_END \in Nat /\ Delays \subseteq 1 .. PULSE_END - 1
  /\ Top \in Nat /\ Far \in PULSE_END + 2 .. Top - PULSE_END
ASSUME MainsAssumption ==
  /\ MinGap \in Nat /\ EarliestCross \in Nat /\ NCSTART \in Nat \ {0}
  /\ SinceMax \in Nat /\ PULSE_END + 1 < SinceMax /\ EarliestCross <= SinceMax

VARIABLES
  ssr,            \* pulseTriacPin, "ON" or "OFF"
  TCCR1B,         \* 5 when Timer1 counts, 0 when it is stopped
  TCNT1, OCR1A,   \* its counter and its comparator
  pending,        \* interrupt requests not served yet
  masked,         \* requests that are not served: INT1 when it is detached
  coldStart,
  triacMode,
  since,          \* ticks since the last crossing that was taken into account
  main,           \* where the main program is
  command,        \* what that crossing decided: "none", "pulse" or "full"
  shots           \* history: how often the SSR was turned on since then

timer == <<TCCR1B, TCNT1, OCR1A>>
history == <<command, shots>>
vars == <<ssr, timer, pending, masked, coldStart, triacMode, since, main, history>>

Flags == {"INT1", "OCF1A", "TOV1"}
TriacModes == {"STOP", "FORCE", "AUTOM"}

\* The requests that interrupt the main program.
Requests == pending \ masked
--------------------------------------------------------------------------------
(* The hardware and the mains *)

\* One tick of Timer1: a match or an overflow raises its flag.
Tick ==
  /\ Requests = {}
  /\ since' = IF since = SinceMax THEN since ELSE since + 1
  /\ IF TCCR1B = 5
       THEN /\ TCNT1' = (TCNT1 + 1) % (Top + 1)
            /\ pending' = pending
                 \cup {f \in {"OCF1A"} : TCNT1' = OCR1A}
                 \cup {f \in {"TOV1"} : TCNT1' = 0}
       ELSE UNCHANGED <<TCNT1, pending>>
  /\ UNCHANGED <<ssr, TCCR1B, OCR1A, masked, coldStart, triacMode, main, history>>

\* synchroACPin changes: the mains cross zero, or noise shortly after they did.
Cross ==
  /\ since <= MinGap \/ since >= EarliestCross
  /\ pending' = pending \cup {"INT1"}
  /\ UNCHANGED <<ssr, timer, masked, coldStart, triacMode, since, main, history>>
--------------------------------------------------------------------------------
(* The interrupt routines *)

\* The warm-up goes on.
Warming == coldStart > 0

\* Mutant: no debounce.
EndsHalfCycle_NoDebounce == ~Warming

\* This crossing comes late enough after the last one.
EndsHalfCycle == ~Warming /\ since > MinGap

\* Mutant: STOP forgets to stop the timer.
TimerRuns_InStop == triacMode # "FORCE" /\ OCR1A' # Far

\* Whether Timer1 goes on counting: power is asked for, and not overridden.
TimerRuns == triacMode = "AUTOM" /\ OCR1A' # Far

\* Mutant: the counter is not loaded.
PulseStart_NoLoad == TCNT1

\* The value from which the counter overflows at PULSE_END.
PulseStart == (Top - (PULSE_END - OCR1A)) % (Top + 1)

\* zeroCrossingInterrupt, warm-up.
WarmUp ==
  /\ "INT1" \in Requests
  /\ Warming
  /\ coldStart' = coldStart - 1
  /\ ssr' = "OFF"
  /\ TCCR1B' = 0 /\ TCNT1' = 0 /\ OCR1A' = Far
  /\ since' = 0
  /\ command' = "none" /\ shots' = 0
  /\ pending' = pending \ {"INT1"}
  /\ UNCHANGED <<masked, triacMode, main>>

\* zeroCrossingInterrupt, end of a half-cycle.  The regulator asks for no power
\* or for the power of one of the delays; STOP and FORCE override it, but leave
\* its delay in OCR1A.  The flags of Timer1 are not cleared.
HalfCycle ==
  /\ "INT1" \in Requests
  /\ EndsHalfCycle
  /\ ssr' = IF triacMode = "FORCE" THEN "ON" ELSE "OFF"
  /\ TCNT1' = 0
  /\ OCR1A' \in {Far} \cup Delays
  /\ TCCR1B' = IF TimerRuns THEN 5 ELSE 0
  /\ command' = CASE triacMode = "STOP"  -> "none"
                  [] triacMode = "FORCE" -> "full"
                  [] triacMode = "AUTOM" -> IF OCR1A' = Far THEN "none" ELSE "pulse"
  /\ shots' = IF triacMode = "FORCE" THEN 1 ELSE 0
  /\ since' = 0
  /\ pending' = pending \ {"INT1"}
  /\ UNCHANGED <<masked, coldStart, triacMode, main>>

\* zeroCrossingInterrupt, too early after the last crossing: an error bit only.
Ignored ==
  /\ "INT1" \in Requests
  /\ ~Warming /\ ~EndsHalfCycle
  /\ pending' = pending \ {"INT1"}
  /\ UNCHANGED <<ssr, timer, masked, coldStart, triacMode, since, main, history>>

\* TIMER1_COMPA: the SSR goes on, and the counter jumps so as to overflow at
\* PULSE_END.
Compare ==
  /\ "OCF1A" \in Requests /\ "INT1" \notin Requests
  /\ ssr' = "ON"
  /\ TCNT1' = PulseStart
  /\ shots' = shots + 1
  /\ pending' = pending \ {"OCF1A"}
  /\ UNCHANGED <<TCCR1B, OCR1A, masked, coldStart, triacMode, since, main, command>>

\* TIMER1_OVF: end of the pulse.
Overflow ==
  /\ "TOV1" \in Requests /\ Requests \cap {"INT1", "OCF1A"} = {}
  /\ ssr' = "OFF"
  /\ TCCR1B' = 0 /\ TCNT1' = 0
  /\ pending' = pending \ {"TOV1"}
  /\ UNCHANGED <<OCR1A, masked, coldStart, triacMode, since, main, history>>
--------------------------------------------------------------------------------
(* The main program, which runs when no request is left *)

Main(from, to) == Requests = {} /\ main = from /\ main' = to

\* SETSSR or the scheduler running BOOST.
SetTriacMode ==
  /\ Main("loop", "loop")
  /\ triacMode' \in TriacModes
  /\ UNCHANGED <<ssr, timer, pending, masked, coldStart, since, history>>

\* stopPVR, called by RESET or by fatalError, one step after the other.
StopCrossings ==
  /\ Main("loop", "detached")
  /\ masked' = {"INT1"}
  /\ UNCHANGED <<ssr, timer, pending, coldStart, triacMode, since, history>>

StopTimer ==
  /\ Main("detached", "timerOff")
  /\ TCCR1B' = 0
  /\ UNCHANGED <<ssr, TCNT1, OCR1A, pending, masked, coldStart, triacMode, since, history>>

\* Mutant: the SSR is not turned off.
StopSsr_Forgotten ==
  /\ Main("timerOff", "stopped")
  /\ UNCHANGED <<ssr, timer, pending, masked, coldStart, triacMode, since, history>>

StopSsr ==
  /\ Main("timerOff", "stopped")
  /\ ssr' = "OFF"
  /\ UNCHANGED <<timer, pending, masked, coldStart, triacMode, since, history>>

\* startPVR up to the wait for the warm-up, interrupts being off.
Start ==
  /\ Main("stopped", "warmup")
  /\ ssr' = "OFF"
  /\ triacMode' = "AUTOM"
  /\ TCCR1B' = 0 /\ TCNT1' = 0 /\ OCR1A' = Far
  /\ masked' = {}
  /\ coldStart' = NCSTART
  /\ UNCHANGED <<pending, since, history>>

\* The main program sees the end of the warm-up.
EnterLoop ==
  /\ coldStart = 0
  /\ Main("warmup", "loop")
  /\ UNCHANGED <<ssr, timer, pending, masked, coldStart, triacMode, since, history>>
--------------------------------------------------------------------------------
Init ==
  /\ ssr = "OFF"
  /\ TCCR1B = 0 /\ TCNT1 = 0 /\ OCR1A = Far
  /\ pending = {}
  /\ masked = {}
  /\ coldStart = NCSTART
  /\ triacMode = "AUTOM"
  /\ since = 0
  /\ main = "warmup"
  /\ command = "none" /\ shots = 0

Interrupt == WarmUp \/ HalfCycle \/ Ignored \/ Compare \/ Overflow
MainProgram == \/ SetTriacMode \/ StopCrossings \/ StopTimer \/ StopSsr
               \/ Start \/ EnterLoop

Next == Tick \/ Cross \/ Interrupt \/ MainProgram

Spec == Init /\ [][Next]_vars

\* Time passes, routines and stopPVR run to their end, and the loop calls
\* fatalError when no crossing came for two seconds.
SyncLost == since = SinceMax /\ StopCrossings
FairSpec ==
  /\ Spec
  /\ WF_vars(Tick) /\ WF_vars(Interrupt)
  /\ WF_vars(SyncLost) /\ WF_vars(StopTimer) /\ WF_vars(StopSsr)
================================================================================
