---------------------------- MODULE RegulatorProps ----------------------------
(***************************************************************************)
(* What the regulator must guarantee: the arithmetic of the PI sum stays   *)
(* inside a long, the integral stays bounded whatever the production does, *)
(* and an import leads to less power being routed.                         *)
(***************************************************************************)
EXTENDS Regulator

ErrorMax == (PeriodMax + SetpointMax) \div ErrorDiv + 1
Errors == -ErrorMax .. ErrorMax

\* The largest weight of the proportional term, whatever two errors follow.
Swing == 2 * GainPMax * ErrorMax

\* Where the integral stays while no GAIN_I is below g.
IntegralCeil(g) == ((MaxCommand + 1) * CommandDiv + Swing) \div g
IntegralFloor(g) == LET s == -(Swing \div g)
                    IN IF -ReserveMax < s THEN -ReserveMax ELSE s

\* The values that GAIN_I had since the warm-up are such that an integral which
\* the smallest of them made fits in a long with the largest of them.
Capacity(least, most) ==
  /\ least > 0
  /\ most * (IntegralCeil(least) + ErrorMax) + Swing < LongHalf
  /\ most * (ErrorMax - IntegralFloor(least)) + Swing < LongHalf
  /\ IntegralCeil(least) + ErrorMax < LongHalf
  /\ ErrorMax - IntegralFloor(least) < LongHalf

TypeOK ==
  /\ coldStart \in 0 .. NCSTART
  /\ P_SETPOINT \in Setpoints
  /\ controlIntegral \in Int
  /\ controlIntegralMinValue \in -ReserveMax .. 0
  /\ lastControlError \in Errors
  /\ controlCommand \in 0 .. MaxCommand
  /\ GAIN_P \in GainPMin .. GainPMax
  /\ GAIN_I \in GainIMin .. GainIMax
  /\ triacMode \in TriacModes
  /\ leastI \in GainIMin .. GAIN_I
  /\ mostI \in GAIN_I .. GainIMax
--------------------------------------------------------------------------------
\* However long the surplus or the import lasts, and whatever gains SETPARAM
\* sets meanwhile within Capacity, the accumulated error stays between two bounds that
\* the smallest GAIN_I gives: what the anti-windup code of the half-cycle is for.
IntegralBounded ==
  Capacity(leastI, mostI) => controlIntegral \in IntegralFloor(leastI) .. IntegralCeil(leastI)

\* Whatever the next half-cycle measures, its PI sum does not leave a long, so
\* that a strong surplus is never taken for an import by a change of sign: the
\* reason that the code gives for ERROR_BIT_SHIFT.  The code does not keep it, since
\* GAIN_I may be raised over an integral that a smaller one has wound up.
SumFitsLong == \A e \in Errors : /\ controlIntegral + e \in LongRange
                                 /\ ExactSum(e) \in LongRange

\* It does keep it as long as GAIN_I has not been raised too far above one of its values
\* since the warm-up.
NoOverflow == Capacity(leastI, mostI) => SumFitsLong

\* The router imports, that is its error is at most -least, in every
\* half-cycle from some point on, in automatic mode.
KeepsImporting(least) ==
  <>[](coldStart = 0 /\ triacMode = "AUTOM" /\ lastControlError <= -least)

\* An import of any size that lasts takes the SSR out of full power: the
\* integral does not stay wound up.
ImportLeavesFullPower ==
  KeepsImporting(1) => []<>(controlCommand < MaxCommand)

\* An import that outweighs what one swing of the proportional term can have left
\* above full power, so that the integral cannot stay wound up by it, while GAIN_I
\* is the one that wound it up.
ImportOutweighs ==
  leastI = mostI /\ lastControlError * (GAIN_I + 2 * GAIN_P) <= -Swing

\* Such an import, when it lasts in automatic mode, ends up stopping the routing
\* for good, whatever the regulator had stored before.
LargeImportStopsRouting ==
  <>[](coldStart = 0 /\ triacMode = "AUTOM" /\ ImportOutweighs) => <>[](controlCommand = 0)
================================================================================
