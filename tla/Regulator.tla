------------------------------- MODULE Regulator -------------------------------
(***************************************************************************)
(* The PI regulator that zeroCrossingInterrupt runs at the end of every    *)
(* half-cycle of the mains: from periodP, the power samples summed over    *)
(* the half-cycle, it computes controlCommand, the share of full power     *)
(* (0..MaxCommand) the SSR delivers during the next one.                   *)
(*                                                                         *)
(* The shifts of the code are floor divisions by the constants ErrorDiv    *)
(* and CommandDiv, and its `long' is a two's complement integer of         *)
(* 2 * LongHalf values, on which avr-gcc wraps around.                     *)
(***************************************************************************)
EXTENDS Integers

CONSTANTS
  ErrorDiv,     \* 2 ^ ERROR_BIT_SHIFT, 64 in the code
  CommandDiv,   \* 2 ^ COMMAND_BIT_SHIFT, 16384 in the code
  MaxCommand,   \* 255: full power
  LongHalf,     \* 2 ^ 31: half the number of values of a long
  NCSTART,      \* zero crossings of the warm-up, 5 in the code
  PeriodMax,    \* bound on |periodP| over one half-cycle
  SetpointMax,  \* bound on |P_SETPOINT|
  ReserveMax,   \* bound on the energy reserve, -controlIntegralMinValue
  GainPMin, GainPMax,   \* GAIN_P as SETPARAM accepts it
  GainIMin, GainIMax    \* GAIN_I as SETPARAM accepts it

ASSUME ScaleAssumption ==
  /\ ErrorDiv \in Nat \ {0} /\ CommandDiv \in Nat \ {0}
  /\ MaxCommand \in Nat \ {0} /\ LongHalf \in Nat \ {0}
  /\ NCSTART \in Nat \ {0}
ASSUME RangeAssumption ==
  /\ PeriodMax \in Nat /\ SetpointMax \in Nat /\ ReserveMax \in Nat
  /\ GainPMin \in Nat /\ GainPMax \in Nat /\ GainPMin <= GainPMax
  /\ GainIMin \in Nat /\ GainIMax \in Nat /\ GainIMin <= GainIMax

VARIABLES
  coldStart,                 \* warm-up crossings still to come
  P_SETPOINT,
  controlIntegral,
  controlIntegralMinValue,
  lastControlError,
  controlCommand,
  GAIN_P, GAIN_I,
  triacMode,
  leastI, mostI              \* history: the least and the largest GAIN_I since the warm-up

statics == <<P_SETPOINT, controlIntegral, controlIntegralMinValue,
             lastControlError, controlCommand>>
gains == <<GAIN_P, GAIN_I, leastI, mostI>>
vars == <<coldStart, statics, gains, triacMode>>

TriacModes == {"STOP", "FORCE", "AUTOM"}
Periods == -PeriodMax .. PeriodMax
Setpoints == -SetpointMax .. SetpointMax
LongRange == -LongHalf .. LongHalf - 1
--------------------------------------------------------------------------------
\* What a long holds after an arithmetic result x was stored in it.
long(x) == ((x + LongHalf) % (2 * LongHalf)) - LongHalf

ControlError(p) == (p + P_SETPOINT) \div ErrorDiv

\* controlIntegral after the error e was added, before any anti-windup.
Integrated(e) == long(controlIntegral + e)

\* The PI sum as the formula of the code means it, and as a long holds it.
ExactSum(e) == GAIN_I * Integrated(e) + GAIN_P * (e + lastControlError)
Command(e) == long(ExactSum(e)) \div CommandDiv

\* What the SSR is made to deliver when the regulator asks for c: STOP and
\* FORCE override the regulator, which goes on computing.
Deliver(c) ==
  controlCommand' = CASE triacMode = "STOP"  -> 0
                      [] triacMode = "FORCE" -> MaxCommand
                      [] triacMode = "AUTOM" -> c

\* Mutants of Idle: without the floor of the integral; without controlCommand = 0.
Idle_NoFloor(e) ==
  Command(e) <= 0 /\ controlIntegral' = Integrated(e) /\ Deliver(0)
Idle_Negative(e) ==
  /\ Command(e) <= 0
  /\ controlIntegral' = IF Integrated(e) <= controlIntegralMinValue
                          THEN controlIntegralMinValue ELSE Integrated(e)
  /\ Deliver(Command(e))

\* Balance or import: no routing, and the integral keeps to the reserve.
Idle(e) ==
  /\ Command(e) <= 0
  /\ controlIntegral' = IF Integrated(e) <= controlIntegralMinValue
                          THEN controlIntegralMinValue ELSE Integrated(e)
  /\ Deliver(0)

\* The linear range.
Linear(e) ==
  /\ Command(e) \in 1 .. MaxCommand
  /\ controlIntegral' = Integrated(e)
  /\ Deliver(Command(e))

\* Full power: the accumulation of this half-cycle is taken back.
Saturated(e) ==
  /\ Command(e) > MaxCommand
  /\ controlIntegral' = long(Integrated(e) - e)
  /\ Deliver(MaxCommand)

\* A zero crossing that ends a half-cycle, in normal operation.
HalfCycle ==
  /\ coldStart = 0
  /\ \E p \in Periods :
       LET e == ControlError(p) IN
         /\ Idle(e) \/ Linear(e) \/ Saturated(e)
         /\ lastControlError' = e
  /\ UNCHANGED <<coldStart, P_SETPOINT, controlIntegralMinValue, gains, triacMode>>

\* A zero crossing of the warm-up.  The setpoint and the reserve are computed
\* anew from the parameters P_MARGIN, P_OFFSET, P_CALIB and E_RESERVE.
ColdStart ==
  /\ coldStart > 0
  /\ coldStart' = coldStart - 1
  /\ P_SETPOINT' \in Setpoints
  /\ controlIntegralMinValue' \in -ReserveMax .. 0
  /\ controlIntegral' = 0
  /\ lastControlError' = P_SETPOINT' \div ErrorDiv
  /\ controlCommand' = 0
  /\ leastI' = GAIN_I /\ mostI' = GAIN_I
  /\ UNCHANGED <<GAIN_P, GAIN_I, triacMode>>

\* startPVR, called by RESET or by fatalError; the loop runs neither before
\* the warm-up of the previous start is over.
Restart ==
  /\ coldStart = 0
  /\ coldStart' = NCSTART
  /\ triacMode' = "AUTOM"
  /\ UNCHANGED <<statics, gains>>

\* SETPARAM on GAIN_P or GAIN_I, or LOADCFG, which sets both: taken into account
\* at the next half-cycle.
SetGain ==
  /\ coldStart = 0
  /\ GAIN_P' \in GainPMin .. GainPMax
  /\ GAIN_I' \in GainIMin .. GainIMax
  /\ leastI' = IF GAIN_I' < leastI THEN GAIN_I' ELSE leastI
  /\ mostI' = IF GAIN_I' > mostI THEN GAIN_I' ELSE mostI
  /\ UNCHANGED <<coldStart, statics, triacMode>>

\* SETSSR, or the scheduler running BOOST.
SetTriacMode ==
  /\ coldStart = 0
  /\ triacMode' \in TriacModes
  /\ UNCHANGED <<coldStart, statics, gains>>

Init ==
  /\ coldStart = NCSTART
  /\ P_SETPOINT \in Setpoints
  /\ controlIntegral = 0
  /\ controlIntegralMinValue \in -ReserveMax .. 0
  /\ lastControlError = P_SETPOINT \div ErrorDiv
  /\ controlCommand = 0
  /\ GAIN_P \in GainPMin .. GainPMax
  /\ GAIN_I \in GainIMin .. GainIMax
  /\ triacMode = "AUTOM"
  /\ leastI = GAIN_I /\ mostI = GAIN_I

Next == HalfCycle \/ ColdStart \/ Restart \/ SetGain \/ SetTriacMode

Spec == Init /\ [][Next]_vars

\* The mains keep crossing zero.
FairSpec == Spec /\ WF_vars(HalfCycle) /\ WF_vars(ColdStart)
================================================================================
