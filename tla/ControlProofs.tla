----------------------------- MODULE ControlProofs -----------------------------
(***************************************************************************)
(* Two controls that share no state: the power of the SSR in each          *)
(* half-cycle, and the running time of the relay in each day.  For every   *)
(* value of the constants: the types of the regulator and, while the       *)
(* values of GAIN_I respect Capacity, the bounds of its integral and the   *)
(* absence of overflow in its PI sum; and how far the limits of the code   *)
(* let GAIN_I be raised.  For every length of the days, every countdown    *)
(* and all limits: the relay never runs for more than the maximum, nor     *)
(* against the user's choice, and when the days suffice (DaysSuffice) it   *)
(* runs for the minimum.                                                   *)
(***************************************************************************)
EXTENDS RegulatorProps, Parameters, RelayPlusDayProps, TLAPS

\* Facts about products and floor divisions of integers.
LEMMA MulMono ==
  ASSUME NEW a \in Int, NEW b \in Int, NEW c \in Nat, a <= b
  PROVE  /\ a * c \in Int /\ b * c \in Int
         /\ a * c <= b * c /\ c * a <= c * b
  OBVIOUS

LEMMA DivMod ==
  ASSUME NEW x \in Int, NEW d \in Nat \ {0}
  PROVE  /\ x \div d \in Int
         /\ d * (x \div d) \in Int
         /\ d * (x \div d) <= x
         /\ x < d * (x \div d) + d
  OBVIOUS

LEMMA DivRange ==
  ASSUME NEW m \in Nat, NEW x \in -m .. m, NEW d \in Nat \ {0}
  PROVE  x \div d \in -(m \div d + 1) .. (m \div d + 1)
  BY DivMod

\* A long holds an integer, and the exact value of what fits in it.
LEMMA LongInt ==
  ASSUME NEW x \in Int
  PROVE  long(x) \in Int
  BY ScaleAssumption DEF long

LEMMA LongExact ==
  ASSUME NEW x \in LongRange
  PROVE  long(x) = x
  BY ScaleAssumption DEF long, LongRange
--------------------------------------------------------------------------------
\* The error of a half-cycle is one of Errors, and so is the setpoint alone.
LEMMA ErrorMaxNat == ErrorMax \in Nat \ {0}
  BY ScaleAssumption, RangeAssumption, DivMod DEF ErrorMax

LEMMA ErrorRange ==
  ASSUME NEW x \in -(PeriodMax + SetpointMax) .. (PeriodMax + SetpointMax)
  PROVE  x \div ErrorDiv \in Errors
  BY ScaleAssumption, RangeAssumption, DivRange DEF ErrorMax, Errors

LEMMA ErrorOK ==
  ASSUME TypeOK, NEW p \in Periods
  PROVE  ControlError(p) \in Errors
<1>1. p + P_SETPOINT \in -(PeriodMax + SetpointMax) .. (PeriodMax + SetpointMax)
  BY RangeAssumption DEF TypeOK, Periods, Setpoints
<1> QED BY <1>1, ErrorRange DEF ControlError

LEMMA SetpointOK ==
  ASSUME NEW s \in Setpoints
  PROVE  s \div ErrorDiv \in Errors
<1>1. s \in -(PeriodMax + SetpointMax) .. (PeriodMax + SetpointMax)
  BY RangeAssumption DEF Setpoints
<1> QED BY <1>1, ErrorRange

LEMMA CommandInt ==
  ASSUME TypeOK, NEW e \in Errors
  PROVE  /\ Integrated(e) \in Int
         /\ ExactSum(e) \in Int
         /\ Command(e) \in Int
<1>1. /\ GAIN_I \in Int /\ GAIN_P \in Int
      /\ controlIntegral \in Int /\ lastControlError \in Int /\ e \in Int
  BY RangeAssumption, ErrorMaxNat DEF TypeOK, Errors
<1>2. Integrated(e) \in Int
  BY <1>1, LongInt DEF Integrated
<1>3. ExactSum(e) \in Int
  BY <1>1, <1>2 DEF ExactSum
<1>4. Command(e) \in Int
  BY <1>3, LongInt, DivMod, ScaleAssumption DEF Command
<1> QED BY <1>2, <1>3, <1>4
--------------------------------------------------------------------------------
LEMMA DeliverOK ==
  ASSUME TypeOK, NEW c \in 0 .. MaxCommand, Deliver(c)
  PROVE  controlCommand' \in 0 .. MaxCommand
  BY ScaleAssumption DEF Deliver, TypeOK, TriacModes

\* Whatever the gains, overflows included, the regulator keeps its types: the
\* command in particular stays in 0..MaxCommand, the index of energyToDelay.
LEMMA TypeInit == Init => TypeOK
  BY ScaleAssumption, RangeAssumption, SetpointOK
  DEF Init, TypeOK, TriacModes

LEMMA TypeHalfCycle ==
  ASSUME TypeOK, HalfCycle
  PROVE  TypeOK'
<1>1. PICK p \in Periods :
        LET e == ControlError(p) IN
          /\ Idle(e) \/ Linear(e) \/ Saturated(e)
          /\ lastControlError' = e
  BY DEF HalfCycle
<1> DEFINE e == ControlError(p)
<1>2. e \in Errors
  BY ErrorOK
<1> HIDE DEF e
<1>3. Integrated(e) \in Int /\ Command(e) \in Int /\ e \in Int
  BY <1>2, CommandInt, ErrorMaxNat DEF Errors
<1>4. controlIntegral' \in Int
  <2>1. CASE Idle(e)
    BY <2>1, <1>3, RangeAssumption DEF Idle, TypeOK
  <2>2. CASE Linear(e)
    BY <2>2, <1>3 DEF Linear
  <2>3. CASE Saturated(e)
    BY <2>3, <1>3, LongInt DEF Saturated
  <2> QED BY <1>1, <2>1, <2>2, <2>3 DEF e
<1>5. controlCommand' \in 0 .. MaxCommand
  <2>1. CASE Idle(e)
    BY <2>1, DeliverOK, ScaleAssumption DEF Idle
  <2>2. CASE Linear(e)
    BY <2>2, <1>3, DeliverOK, ScaleAssumption DEF Linear
  <2>3. CASE Saturated(e)
    BY <2>3, DeliverOK, ScaleAssumption DEF Saturated
  <2> QED BY <1>1, <2>1, <2>2, <2>3 DEF e
<1> QED
  BY <1>1, <1>2, <1>4, <1>5 DEF TypeOK, HalfCycle, gains, e

LEMMA TypeStep == TypeOK /\ [Next]_vars => TypeOK'
<1> SUFFICES ASSUME TypeOK, [Next]_vars PROVE TypeOK'
  OBVIOUS
<1>1. CASE HalfCycle
  BY <1>1, TypeHalfCycle
<1>2. CASE ColdStart
  BY <1>2, SetpointOK, ScaleAssumption DEF ColdStart, TypeOK, gains
<1>3. CASE Restart
  BY <1>3, ScaleAssumption DEF Restart, TypeOK, statics, gains, TriacModes
<1>4. CASE SetGain
  BY <1>4, RangeAssumption DEF SetGain, TypeOK, statics
<1>5. CASE SetTriacMode
  BY <1>5 DEF SetTriacMode, TypeOK, statics, gains
<1>6. CASE UNCHANGED vars
  BY <1>6 DEF vars, statics, gains, TypeOK
<1> QED BY <1>1, <1>2, <1>3, <1>4, <1>5, <1>6 DEF Next

THEOREM TypeCorrect == Spec => []TypeOK
  BY TypeInit, TypeStep, PTL DEF Spec
--------------------------------------------------------------------------------
\* The bounds of the integral as numbers, for a gain above 0.
LEMMA SwingNat == Swing \in Nat
  BY RangeAssumption, ErrorMaxNat, MulMono DEF Swing

LEMMA BoundsInt ==
  ASSUME NEW g \in Nat \ {0}
  PROVE  /\ IntegralCeil(g) \in Nat /\ IntegralFloor(g) \in Int
         /\ IntegralFloor(g) <= -ReserveMax /\ -ReserveMax <= 0
         /\ IntegralFloor(g) <= -(Swing \div g)
<1> USE RangeAssumption, ScaleAssumption, SwingNat
<1>1. (MaxCommand + 1) * CommandDiv \in Nat
  OBVIOUS
<1>2. IntegralCeil(g) \in Nat
  BY <1>1, DivMod DEF IntegralCeil
<1>3. Swing \div g \in Int
  BY DivMod
<1> QED BY <1>2, <1>3 DEF IntegralFloor

\* The quotient of a natural number, and what it leaves of it.
LEMMA DivNat ==
  ASSUME NEW x \in Nat, NEW d \in Nat \ {0}
  PROVE  /\ x \div d \in Nat
         /\ d * (x \div d) \in Nat
         /\ d * (x \div d) <= x
         /\ x \div d <= d * (x \div d)
<1> DEFINE q == x \div d
<1>1. q \in Int /\ d * q \in Int /\ d * q <= x /\ x < d * q + d
  BY DivMod
<1> HIDE DEF q
<1>2. q >= 0
  <2>1. CASE q <= -1
    <3>1. d * q <= d * (-1)
      BY <1>1, <2>1, MulMono
    <3> QED BY <3>1, <1>1
  <2> QED BY <2>1, <1>1
<1>3. 1 * q <= d * q /\ d * q \in Nat
  BY <1>1, <1>2, MulMono
<1> QED BY <1>1, <1>2, <1>3 DEF q

\* A quotient does not grow with its divisor.
LEMMA DivAnti ==
  ASSUME NEW x \in Nat, NEW d \in Nat \ {0}, NEW g \in Nat \ {0}, d <= g
  PROVE  x \div g <= x \div d
<1> DEFINE q == x \div g
           r == x \div d
<1>1. /\ q \in Nat /\ g * q \in Nat /\ g * q <= x
      /\ r \in Nat /\ d * r \in Nat /\ x < d * r + d
  BY DivNat, DivMod
<1> HIDE DEF q, r
<1>2. d * q <= g * q /\ d * q \in Int
  BY <1>1, MulMono
<1>3. CASE r + 1 <= q
  <2>1. d * (r + 1) <= d * q
    BY <1>1, <1>3, MulMono
  <2>2. d * (r + 1) = d * r + d
    BY <1>1
  <2> QED BY <1>1, <1>2, <2>1, <2>2
<1> QED BY <1>1, <1>3 DEF q, r

\* The bounds widen when the gain has been smaller.
LEMMA BoundsWiden ==
  ASSUME NEW d \in Nat \ {0}, NEW g \in Nat \ {0}, d <= g
  PROVE  IntegralCeil(g) <= IntegralCeil(d) /\ IntegralFloor(d) <= IntegralFloor(g)
<1> DEFINE top == (MaxCommand + 1) * CommandDiv + Swing
<1>1. top \in Nat /\ Swing \in Nat /\ ReserveMax \in Nat
  BY ScaleAssumption, RangeAssumption, SwingNat
<1> HIDE DEF top
<1>2. top \div g <= top \div d /\ Swing \div g <= Swing \div d
  BY <1>1, DivAnti
<1>3. Swing \div g \in Nat /\ Swing \div d \in Nat
  BY <1>1, DivNat
<1> QED BY <1>1, <1>2, <1>3 DEF IntegralCeil, IntegralFloor, top

\* Capacity asks for more when the gains lie farther apart.
LEMMA CapacityNarrows ==
  ASSUME NEW least \in Nat, NEW most \in Nat, NEW low \in Nat, NEW high \in Nat,
         low <= least, most <= high, Capacity(low, high)
  PROVE  Capacity(least, most)
<1> DEFINE up(g) == IntegralCeil(g) + ErrorMax
           down(g) == ErrorMax - IntegralFloor(g)
<1>1. low \in Nat \ {0} /\ least \in Nat \ {0}
  BY DEF Capacity
<1>2. /\ up(least) \in Nat /\ up(low) \in Nat /\ up(least) <= up(low)
      /\ down(least) \in Nat /\ down(low) \in Nat /\ down(least) <= down(low)
  BY <1>1, BoundsInt, BoundsWiden, ErrorMaxNat, RangeAssumption
<1>3. /\ high * up(low) + Swing < LongHalf /\ up(low) < LongHalf
      /\ high * down(low) + Swing < LongHalf /\ down(low) < LongHalf
  BY DEF Capacity
<1> HIDE DEF up, down
<1>4. /\ most * up(least) <= high * up(least) /\ high * up(least) <= high * up(low)
      /\ most * down(least) <= high * down(least)
      /\ high * down(least) <= high * down(low)
      /\ most * up(least) \in Int /\ high * up(least) \in Int /\ high * up(low) \in Int
      /\ most * down(least) \in Int /\ high * down(least) \in Int
      /\ high * down(low) \in Int
  BY <1>2, MulMono
<1>5. /\ most * up(least) + Swing < LongHalf /\ up(least) < LongHalf
      /\ most * down(least) + Swing < LongHalf /\ down(least) < LongHalf
  BY <1>2, <1>3, <1>4, SwingNat, ScaleAssumption
<1> QED BY <1>1, <1>5 DEF Capacity, up, down

\* What the proportional term can weigh, over any two errors.
LEMMA SwingBound ==
  ASSUME NEW g \in GainPMin .. GainPMax, NEW e \in Errors, NEW l \in Errors
  PROVE  /\ g * (e + l) \in Int
         /\ -Swing <= g * (e + l) /\ g * (e + l) <= Swing
<1>1. /\ ErrorMax \in Nat /\ g \in Nat /\ GainPMax \in Nat /\ g <= GainPMax
      /\ e + l \in Int /\ e + l <= 2 * ErrorMax /\ -(2 * ErrorMax) <= e + l
  BY ErrorMaxNat, RangeAssumption DEF Errors
<1>2. g * (2 * ErrorMax) <= GainPMax * (2 * ErrorMax)
  BY <1>1, MulMono
<1>3. g * (e + l) <= g * (2 * ErrorMax) /\ g * (-(2 * ErrorMax)) <= g * (e + l)
  BY <1>1, MulMono
<1>4. GainPMax * (2 * ErrorMax) = Swing
  BY <1>1 DEF Swing
<1>5. g * (-(2 * ErrorMax)) = -(g * (2 * ErrorMax))
  BY <1>1
<1> QED BY <1>1, <1>2, <1>3, <1>4, <1>5

\* An integral between its bounds gives a PI sum that fits in a long.
LEMMA SumFits ==
  ASSUME TypeOK, IntegralBounded, Capacity(leastI, mostI), NEW e \in Errors
  PROVE  /\ controlIntegral + e \in LongRange
         /\ Integrated(e) = controlIntegral + e
         /\ ExactSum(e) \in LongRange
<1> DEFINE i == controlIntegral + e
           low == IntegralFloor(leastI) - ErrorMax
           high == IntegralCeil(leastI) + ErrorMax
           pro == GAIN_P * (e + lastControlError)
<1>1. /\ controlIntegral \in Int /\ lastControlError \in Errors
      /\ GAIN_I \in Nat /\ mostI \in Nat /\ GAIN_I <= mostI /\ leastI \in Nat \ {0}
      /\ GAIN_P \in GainPMin .. GainPMax
      /\ ErrorMax \in Nat /\ e \in Int /\ -ErrorMax <= e /\ e <= ErrorMax
  BY RangeAssumption, ErrorMaxNat DEF TypeOK, Errors, Capacity
<1>2. /\ low \in Int /\ high \in Int /\ i \in Int
      /\ low <= 0 /\ 0 <= high /\ low <= i /\ i <= high
  BY <1>1, BoundsInt, RangeAssumption DEF IntegralBounded
<1>3. i \in LongRange
  BY <1>1, <1>2, BoundsInt, ScaleAssumption DEF Capacity, LongRange
<1>4. Integrated(e) = i
  BY <1>3, LongExact DEF Integrated
<1>5. pro \in Int /\ -Swing <= pro /\ pro <= Swing
  BY <1>1, SwingBound
<1> HIDE DEF i, low, high, pro
<1>6. /\ GAIN_I * i <= GAIN_I * high /\ GAIN_I * low <= GAIN_I * i
      /\ GAIN_I * high <= mostI * high
      /\ GAIN_I * (-low) <= mostI * (-low)
      /\ GAIN_I * (-low) = -(GAIN_I * low)
      /\ GAIN_I * i \in Int /\ GAIN_I * low \in Int /\ mostI * high \in Int
      /\ mostI * (-low) \in Int
  BY <1>1, <1>2, MulMono
<1>7. mostI * high + Swing < LongHalf /\ mostI * (-low) + Swing < LongHalf
  <2>1. -low = ErrorMax - IntegralFloor(leastI)
    BY <1>1, BoundsInt DEF low
  <2> QED BY <2>1 DEF Capacity, high
<1>8. GAIN_I * i + pro \in LongRange
  BY <1>1, <1>2, <1>5, <1>6, <1>7, SwingNat, ScaleAssumption DEF LongRange
<1>9. ExactSum(e) = GAIN_I * i + pro
  BY <1>4 DEF ExactSum, pro
<1> QED BY <1>3, <1>4, <1>8, <1>9 DEF i

\* The regulator below full power: the PI sum bounds the integral.
LEMMA LinearBound ==
  ASSUME NEW least \in Nat \ {0}, NEW g \in Nat, least <= g,
         NEW i \in Int, NEW pro \in Int, -Swing <= pro, pro <= Swing
  PROVE  /\ g * i + pro < (MaxCommand + 1) * CommandDiv => i <= IntegralCeil(least)
         /\ 0 < g * i + pro => IntegralFloor(least) <= i
<1> DEFINE full == (MaxCommand + 1) * CommandDiv
<1>1. /\ full \in Nat /\ Swing \in Nat /\ least \in Nat \ {0}
      /\ g \in Nat /\ least <= g
  BY ScaleAssumption, RangeAssumption, SwingNat, BoundsInt
<1> HIDE DEF full
<1>2. ASSUME g * i + pro < full PROVE i <= IntegralCeil(least)
  <2>1. CASE i <= 0
    BY <2>1, BoundsInt
  <2>2. CASE i > 0
    <3>1. least * i <= g * i
      BY <1>1, <2>2, MulMono
    <3>2. least * i < full + Swing
      BY <1>1, <1>2, <3>1
    <3>3. i <= (full + Swing) \div least
      BY <1>1, <2>2, <3>2, DivMod
    <3> QED BY <3>3 DEF IntegralCeil, full
  <2> QED BY <2>1, <2>2
<1>3. ASSUME 0 < g * i + pro PROVE IntegralFloor(least) <= i
  <2>1. CASE i >= 0
    BY <2>1, BoundsInt, RangeAssumption
  <2>2. CASE i < 0
    <3>1. least * (-i) <= g * (-i) /\ g * (-i) = -(g * i)
      BY <1>1, <2>2, MulMono
    <3>2. least * (-i) < Swing
      BY <1>1, <1>3, <3>1
    <3>3. -i <= Swing \div least
      BY <1>1, <2>2, <3>2, DivMod
    <3> QED BY <3>3, <1>1, BoundsInt, DivMod
  <2> QED BY <2>1, <2>2
<1> QED BY <1>2, <1>3 DEF full

LEMMA BoundedHalfCycle ==
  ASSUME TypeOK, IntegralBounded, HalfCycle
  PROVE  IntegralBounded'
<1> SUFFICES ASSUME Capacity(leastI, mostI)
             PROVE  controlIntegral' \in IntegralFloor(leastI) .. IntegralCeil(leastI)
  BY DEF HalfCycle, gains, IntegralBounded
<1> USE DEF IntegralBounded
<1>1. PICK e \in Errors : Idle(e) \/ Linear(e) \/ Saturated(e)
  BY ErrorOK DEF HalfCycle
<1> DEFINE i == controlIntegral + e
           pro == GAIN_P * (e + lastControlError)
           sum == GAIN_I * i + pro
<1>2. /\ controlIntegral \in Int /\ i \in Int /\ e \in Int
      /\ GAIN_I \in Nat /\ leastI \in Nat \ {0} /\ leastI <= GAIN_I
      /\ controlIntegral \in LongRange
  <2>1. leastI \in Nat \ {0}
    BY RangeAssumption DEF Capacity, TypeOK
  <2>2. controlIntegral \in LongRange
    BY <2>1, BoundsInt, ErrorMaxNat, ScaleAssumption DEF Capacity, LongRange, TypeOK
  <2> QED BY <2>1, <2>2, ErrorMaxNat, RangeAssumption DEF TypeOK, Errors
<1>3. pro \in Int /\ -Swing <= pro /\ pro <= Swing
  BY SwingBound DEF TypeOK
<1> HIDE DEF pro
<1>4. Integrated(e) = i /\ Command(e) = sum \div CommandDiv /\ sum \in Int
  <2>1. Integrated(e) = i /\ ExactSum(e) = sum /\ ExactSum(e) \in LongRange
    BY SumFits DEF ExactSum, pro
  <2> QED BY <2>1, <1>2, <1>3, LongExact DEF Command
<1>5. /\ CommandDiv * (sum \div CommandDiv) <= sum
      /\ sum < CommandDiv * (sum \div CommandDiv) + CommandDiv
      /\ sum \div CommandDiv \in Int
  BY <1>4, DivMod, ScaleAssumption
<1> HIDE DEF i
<1>6. /\ sum < (MaxCommand + 1) * CommandDiv => i <= IntegralCeil(leastI)
      /\ 0 < sum => IntegralFloor(leastI) <= i
  BY <1>2, <1>3, LinearBound
<1> HIDE DEF sum
<1>7. Command(e) <= MaxCommand => sum < (MaxCommand + 1) * CommandDiv
  BY <1>4, <1>5, ScaleAssumption
<1>8. Command(e) > 0 => 0 < sum
  BY <1>4, <1>5, ScaleAssumption
<1>9. CASE Idle(e)
  BY <1>2, <1>4, <1>5, <1>6, <1>7, <1>9, BoundsInt, ScaleAssumption, RangeAssumption
  DEF Idle, TypeOK
<1>10. CASE Linear(e)
  BY <1>2, <1>4, <1>6, <1>7, <1>8, <1>10, <1>5, BoundsInt, ScaleAssumption
  DEF Linear
<1>11. CASE Saturated(e)
  <2>1. controlIntegral' = controlIntegral
    BY <1>2, <1>4, <1>11, LongExact DEF Saturated, i
  <2> QED BY <2>1
<1> QED BY <1>1, <1>9, <1>10, <1>11

LEMMA BoundedInit == Init => IntegralBounded
  BY BoundsInt, RangeAssumption DEF Init, IntegralBounded, Capacity

\* What is still bounded when the gains have moved apart was so before.
LEMMA BoundedSetGain ==
  ASSUME TypeOK, IntegralBounded, SetGain
  PROVE  IntegralBounded'
<1> SUFFICES ASSUME Capacity(leastI', mostI')
             PROVE  controlIntegral \in IntegralFloor(leastI') .. IntegralCeil(leastI')
  BY DEF SetGain, statics, IntegralBounded
<1>1. /\ leastI' \in Nat /\ leastI \in Nat /\ leastI' <= leastI
      /\ mostI' \in Nat /\ mostI \in Nat /\ mostI <= mostI'
  BY RangeAssumption DEF SetGain, TypeOK
<1>2. Capacity(leastI, mostI)
  BY <1>1, CapacityNarrows
<1>3. leastI' \in Nat \ {0} /\ leastI \in Nat \ {0}
  BY <1>1, <1>2 DEF Capacity
<1>4. /\ IntegralFloor(leastI') <= IntegralFloor(leastI)
      /\ IntegralCeil(leastI) <= IntegralCeil(leastI')
  BY <1>1, <1>3, BoundsWiden
<1> QED BY <1>2, <1>3, <1>4, BoundsInt DEF IntegralBounded, TypeOK

LEMMA BoundedColdStart ==
  ASSUME TypeOK, ColdStart
  PROVE  IntegralBounded'
<1> SUFFICES ASSUME Capacity(leastI', mostI')
             PROVE  controlIntegral' \in IntegralFloor(leastI') .. IntegralCeil(leastI')
  BY DEF IntegralBounded
<1>1. leastI' \in Nat \ {0}
  BY RangeAssumption DEF ColdStart, TypeOK, Capacity
<1> QED BY <1>1, BoundsInt, RangeAssumption DEF ColdStart

LEMMA BoundedStep ==
  TypeOK /\ IntegralBounded /\ [Next]_vars => IntegralBounded'
<1> SUFFICES ASSUME TypeOK, IntegralBounded, [Next]_vars
             PROVE  IntegralBounded'
  OBVIOUS
<1>1. CASE HalfCycle
  BY <1>1, BoundedHalfCycle
<1>2. CASE ColdStart
  BY <1>2, BoundedColdStart
<1>3. CASE SetGain
  BY <1>3, BoundedSetGain
<1>4. CASE UNCHANGED <<controlIntegral, leastI, mostI>>
  BY <1>4 DEF IntegralBounded
<1>5. Restart \/ SetTriacMode \/ UNCHANGED vars
        => UNCHANGED <<controlIntegral, leastI, mostI>>
  BY DEF Restart, SetTriacMode, vars, statics, gains
<1> QED BY <1>1, <1>2, <1>3, <1>4, <1>5 DEF Next

\* While the values of GAIN_I since the warm-up respect Capacity, the integral
\* never leaves its bounds, whatever errors and whatever changes of gain and of
\* mode follow each other.
THEOREM IntegralStaysBounded == Spec => []IntegralBounded
<1>1. Init => TypeOK /\ IntegralBounded
  BY TypeInit, BoundedInit
<1>2. TypeOK /\ IntegralBounded /\ [Next]_vars => (TypeOK /\ IntegralBounded)'
  BY TypeStep, BoundedStep
<1> QED BY <1>1, <1>2, PTL DEF Spec

\* With such gains no half-cycle overflows: neither the integral nor the PI sum.
THEOREM NeverOverflows == Spec => []NoOverflow
<1>1. TypeOK /\ IntegralBounded => NoOverflow
  BY SumFits DEF NoOverflow, SumFitsLong
<1> QED BY <1>1, TypeCorrect, IntegralStaysBounded, PTL
--------------------------------------------------------------------------------
\* A parameter never has a value outside its limits, whatever number a user
\* gives to SETPARAM, although the number is cut to 16 bits before the limits
\* are applied and to 8 bits after.
THEOREM ParameterInRange ==
  ASSUME NEW paramNum \in 1 .. NB_PARAM, NEW value \in Int
  PROVE  SETPARAM(paramNum, value) \in
           pvrParamConfig[paramNum].minValue .. pvrParamConfig[paramNum].maxValue
<1> DEFINE p == pvrParamConfig[paramNum]
<1>1. /\ p.minValue \in Int /\ p.maxValue \in Int /\ p.minValue <= p.maxValue
      /\ p.dataType = "byte" => p.minValue >= 0 /\ p.maxValue < 256
  BY DEF pvrParamConfig, Param, NB_PARAM
<1> HIDE DEF p
<1>2. \A x \in Int : constrain(x, p.minValue, p.maxValue) \in p.minValue .. p.maxValue
  BY <1>1 DEF constrain
<1>3. int(value) \in Int
  BY DEF int
<1>4. p.dataType = "byte" => \A x \in p.minValue .. p.maxValue : byte(x) = x
  BY <1>1 DEF byte
<1> QED BY <1>2, <1>3, <1>4 DEF SETPARAM, p

\* In the code GAIN_I may be raised to 5000 / (16 + 2 * GainPMax) times the smallest
\* value it had since the start before Capacity fails: 156 times with a GAIN_P of 8,
\* the default, twice with any.  The samples are sinusoids as large as the ADC can
\* measure (83 of them, each at most 512 * 512, half of that on average: below 2^24
\* with the setpoint), the reserve is the largest.  The unit U is 2^18: CommandDiv is
\* 2^14, MaxCommand is 255 and LongHalf is 2^31.
THEOREM CodeCapacity ==
  ASSUME NEW U \in Nat \ {0},
         ErrorDiv = 64, (MaxCommand + 1) * CommandDiv = 16 * U, LongHalf = 8192 * U,
         PeriodMax + SetpointMax <= 64 * U - 64, ReserveMax <= 4 * U,
         GainPMax <= pvrParamConfig[GAIN_P_NUM].maxValue,
         NEW least \in 1 .. pvrParamConfig[GAIN_I_NUM].maxValue,
         NEW most \in least .. pvrParamConfig[GAIN_I_NUM].maxValue,
         most * (16 + 2 * GainPMax) <= 5000 * least
  PROVE  Capacity(least, most)
<1>1. pvrParamConfig[GAIN_P_NUM].maxValue = 1000 /\ pvrParamConfig[GAIN_I_NUM].maxValue = 1000
  BY DEF pvrParamConfig, Param, GAIN_P_NUM, GAIN_I_NUM
<1>2. /\ least \in Nat \ {0} /\ most \in Nat \ {0} /\ most <= 1000
      /\ ErrorMax \in Nat /\ ErrorMax <= U
      /\ GainPMax \in Nat /\ GainPMax <= 1000
      /\ ReserveMax \in Nat
  BY <1>1, RangeAssumption, ErrorMaxNat DEF ErrorMax
<1> DEFINE w == 16 + 2 * GainPMax
           top == (MaxCommand + 1) * CommandDiv + Swing
<1>3. w \in Nat \ {0} /\ most * w <= 5000 * least
  BY <1>2
<1>4. /\ Swing \in Nat /\ Swing <= 2000 * U
      /\ top \in Nat /\ Swing <= top /\ top <= w * U
  <2>1. /\ GainPMax * ErrorMax <= 1000 * ErrorMax /\ GainPMax * ErrorMax \in Nat
        /\ GainPMax * ErrorMax <= GainPMax * U /\ GainPMax * U \in Nat
    BY <1>2, MulMono
  <2>2. Swing = 2 * (GainPMax * ErrorMax)
    BY <1>2 DEF Swing
  <2>3. w * U = 16 * U + 2 * (GainPMax * U)
    BY <1>2
  <2> QED BY <1>2, <2>1, <2>2, <2>3
<1> HIDE DEF w, top
<1> DEFINE Fits(x) == /\ x \div least \in Nat /\ most * (x \div least) \in Nat
                      /\ most * (x \div least) <= 5000 * U
<1>5. ASSUME NEW x \in Nat, x <= top PROVE Fits(x)
  <2> DEFINE t == x \div least
  <2>1. t \in Nat /\ least * t \in Nat /\ least * t <= x
    BY <1>2, <1>5, DivNat
  <2> HIDE DEF t
  <2>2. least * t <= w * U /\ w * U \in Nat
    BY <1>3, <1>4, <1>5, <2>1
  <2>3. (most * w) * t <= (5000 * least) * t
    BY <1>2, <1>3, <2>1, MulMono
  <2>4. (5000 * least) * t = 5000 * (least * t) /\ (most * w) * t = w * (most * t)
        /\ most * t \in Nat
    BY <1>2, <1>3, <2>1
  <2>5. w * (most * t) <= w * (5000 * U)
    <3>1. w * (5000 * U) = 5000 * (w * U)
      BY <1>3
    <3> QED BY <1>2, <1>3, <2>1, <2>2, <2>3, <2>4, <3>1
  <2>6. CASE most * t >= 5000 * U + 1
    <3>1. w * (5000 * U + 1) <= w * (most * t)
      BY <1>3, <2>4, <2>6, MulMono
    <3>2. w * (5000 * U + 1) = w * (5000 * U) + w
      BY <1>3
    <3> QED BY <1>3, <2>4, <2>5, <3>1, <3>2
  <2> QED BY <2>1, <2>4, <2>6 DEF t
<1> HIDE DEF Fits
<1> DEFINE up == IntegralCeil(least) + ErrorMax
           down == ErrorMax - IntegralFloor(least)
<1>6. most * ErrorMax \in Nat /\ most * ErrorMax <= 1000 * U
  <2>1. most * ErrorMax <= 1000 * ErrorMax /\ most * ErrorMax \in Nat
    BY <1>2, MulMono
  <2> QED BY <1>2, <2>1
<1>7. up \in Nat /\ most * up <= 6000 * U /\ most * up \in Nat
  <2> DEFINE t == top \div least
  <2>1. t \in Nat /\ most * t \in Nat /\ most * t <= 5000 * U
    <3>1. top \in Nat /\ top <= top
      BY <1>4
    <3>2. Fits(top)
      BY <3>1, <1>5
    <3> QED BY <3>2 DEF Fits
  <2>2. up = t + ErrorMax
    BY DEF IntegralCeil, top
  <2> HIDE DEF t, up
  <2>3. most * (t + ErrorMax) = most * t + most * ErrorMax
    BY <1>2, <2>1
  <2> QED BY <1>2, <1>6, <2>1, <2>2, <2>3
<1>8. down \in Nat /\ most * down <= 6000 * U /\ most * down \in Nat
  <2> DEFINE s == Swing \div least
  <2>1. s \in Nat /\ most * s \in Nat /\ most * s <= 5000 * U
    <3>1. Swing \in Nat /\ Swing <= top
      BY <1>4
    <3>2. Fits(Swing)
      BY <3>1, <1>5
    <3> QED BY <3>2 DEF Fits
  <2>2. most * ReserveMax <= 4000 * U /\ most * ReserveMax \in Nat
    <3>1. most * ReserveMax <= 1000 * ReserveMax /\ most * ReserveMax \in Nat
      BY <1>2, MulMono
    <3> QED BY <1>2, <3>1
  <2>3. down = ErrorMax + s \/ down = ErrorMax + ReserveMax
    BY <1>2, <2>1 DEF IntegralFloor
  <2> HIDE DEF s, down
  <2>4. /\ most * (ErrorMax + s) = most * ErrorMax + most * s
        /\ most * (ErrorMax + ReserveMax) = most * ErrorMax + most * ReserveMax
    BY <1>2, <2>1
  <2> QED BY <1>2, <1>6, <2>1, <2>2, <2>3, <2>4
<1> HIDE DEF up, down
<1>9. up <= most * up /\ down <= most * down
  <2>1. 1 * up <= most * up /\ 1 * down <= most * down
    BY <1>2, <1>7, <1>8, MulMono
  <2> QED BY <2>1, <1>7, <1>8
<1>10. /\ most * up + Swing < LongHalf /\ up < LongHalf
       /\ most * down + Swing < LongHalf /\ down < LongHalf
  BY <1>4, <1>7, <1>8, <1>9
<1> QED BY <1>2, <1>10 DEF Capacity, up, down
--------------------------------------------------------------------------------
(* RelayPlus of a day *)

USE DayAssumption

\* configRead leaves a minimum, and a maximum that is larger.
LEMMA LimitsOrdered ==
  ASSUME NEW l \in AllLimits
  PROVE  l.min \in Nat /\ l.max \in Nat /\ 1 <= l.min /\ l.min < l.max
<1>1. PICK min \in Minima, max \in Maxima : l = Limits(min, max)
  BY DEF AllLimits
<1>2. min \in Nat /\ max \in Nat
  OBVIOUS
<1> QED BY <1>1, <1>2 DEF Limits

LEMMA InvInit == DayInit => DayTypeOK /\ References /\ Watched /\ Limited
<1> SUFFICES ASSUME DayInit PROVE DayTypeOK /\ References /\ Watched /\ Limited
  OBVIOUS
<1> USE DEF DayInit
<1>1. relayPlusActive \in BOOLEAN /\ chosen \in BOOLEAN
  BY Zenon
<1>2. /\ day \in 1 .. MaxDays + 1 /\ minute \in 0 .. length - 1
      /\ relayplusTime \in -1 .. DAY /\ relaisPlusCountDown \in -1 .. COUNTDOWN
  OBVIOUS
<1>3. DayTypeOK
  BY <1>1, <1>2 DEF DayTypeOK, Modes
<1> QED BY <1>3 DEF References, Watched, Limited
--------------------------------------------------------------------------------
(* The types, and what the ESP knows *)

LEMMA MinuteTypeOK ==
  ASSUME DayTypeOK, Minute
  PROVE  DayTypeOK'
<1> USE DEF DayTypeOK, Minute, config, plus
<1>1. day' \in 1 .. MaxDays + 1 /\ length' \in Lengths /\ minute' \in 0 .. length' - 1
  <2>1. CASE minute + 1 < length
    BY <2>1
  <2>2. CASE ~(minute + 1 < length)
    <3>1. day' = day + 1 /\ minute' = 0 /\ length' \in Lengths
      BY <2>2
    <3>2. length' \in Nat \ {0, 1}
      BY <3>1
    <3>3. day' \in 1 .. MaxDays + 1
      BY <3>1
    <3>4. \A n \in Nat \ {0, 1} : 0 \in 0 .. n - 1
      OBVIOUS
    <3>5. minute' \in 0 .. length' - 1
      BY <3>1, <3>2, <3>4, Zenon
    <3> QED BY <3>1, <3>3, <3>5
  <2> QED BY <2>1, <2>2
<1>2. /\ due' \subseteq {"init", "check"}
      /\ limits' \in AllLimits /\ relaisPlusIndex' \in Nat \cup {-1}
      /\ relaisPlusCountDown' \in -1 .. COUNTDOWN
      /\ nano' \in {"up", "down"} /\ upset' \in {"quiet", "restarted", "disturbed"}
  OBVIOUS
<1>3. stats' \in Nat /\ on' \in Nat /\ late' \in 0 .. MaxLate
  BY DEF Running, Stopped
<1>4. relayMode' \in Modes /\ relayplusTime' \in -1 .. DAY
  <2>1. CASE Running
    BY <2>1 DEF Running, Timer, Modes
  <2>2. CASE Stopped
    BY <2>2 DEF Stopped, relay
  <2> QED BY <2>1, <2>2
<1>5. relayPlusActive' \in BOOLEAN /\ chosen' \in BOOLEAN
  BY Zenon
<1> QED BY <1>1, <1>2, <1>3, <1>4, <1>5

\* The requests leave the relay's variables in their types.
LEMMA ModeRequestOK ==
  ASSUME DayTypeOK, NEW mode \in Modes, relayModeEcoPV(mode)
  PROVE  relayMode' \in Modes /\ relayplusTime' \in -1 .. DAY
BY DEF DayTypeOK, relayModeEcoPV, Lost, relay

LEMMA PlusRequestOK ==
  ASSUME DayTypeOK, NEW minutes \in Int, relayPlusEcoPV(minutes)
  PROVE  relayMode' \in Modes /\ relayplusTime' \in -1 .. DAY
BY DEF DayTypeOK, relayPlusEcoPV, SETRELPLUS, Lost, relay

LEMMA NanoTypeOK ==
  ASSUME DayTypeOK, NanoStops \/ NanoStarts \/ ResetIndex
  PROVE  DayTypeOK'
<1> USE DEF DayTypeOK, NanoStops, NanoStarts, ResetIndex, calendar, config, plus, relay, history,
            Disturb
<1>1. relayPlusActive' \in BOOLEAN /\ chosen' \in BOOLEAN
  BY Zenon
<1>2. upset' \in {"quiet", "restarted", "disturbed"}
  OBVIOUS
<1>3. relayMode' \in Modes /\ relayplusTime' \in -1 .. DAY
  BY DEF Modes
<1>4. /\ UNCHANGED <<calendar, due>>
      /\ day' \in 1 .. MaxDays + 1 /\ length' \in Lengths /\ minute' \in 0 .. length' - 1
      /\ due' \subseteq {"init", "check"}
  OBVIOUS
<1>5. /\ limits' \in AllLimits /\ relaisPlusIndex' \in Nat \cup {-1}
      /\ relaisPlusCountDown' \in -1 .. COUNTDOWN
      /\ stats' \in Nat /\ on' \in Nat /\ late' \in 0 .. MaxLate
  OBVIOUS
<1>6. nano' \in {"up", "down"}
  OBVIOUS
<1> QED BY <1>1, <1>2, <1>3, <1>4, <1>5, <1>6

LEMMA InitDayTypeOK ==
  ASSUME DayTypeOK, InitDay
  PROVE  DayTypeOK'
<1> USE DEF DayTypeOK, InitDay, calendar, config, plus, relay, Disturb
<1>1. relayPlusActive' \in BOOLEAN /\ chosen' \in BOOLEAN
  BY Zenon
<1>2. upset' \in {"quiet", "restarted", "disturbed"}
  OBVIOUS
<1>3. relayMode' \in Modes /\ relayplusTime' \in -1 .. DAY
  BY ModeRequestOK DEF Modes
<1>4. relaisPlusIndex' \in Nat \cup {-1} /\ relaisPlusCountDown' \in -1 .. COUNTDOWN
  OBVIOUS
<1> QED BY <1>1, <1>2, <1>3, <1>4

LEMMA CheckTypeOK ==
  ASSUME DayTypeOK, EachMinute \/ LoseMinute
  PROVE  DayTypeOK'
<1> USE DEF DayTypeOK, Check, calendar, config, plus, relay, history
<1>1. CASE NotWatching
  BY <1>1 DEF NotWatching
<1>2. CASE AtMaximum
  <2>1. relayMode' \in Modes /\ relayplusTime' \in -1 .. DAY
    BY <1>2, ModeRequestOK DEF AtMaximum, Modes
  <2>2. upset' \in {"quiet", "restarted", "disturbed"}
    BY <1>2 DEF AtMaximum, Disturb, Unheard
  <2> QED BY <1>2, <2>1, <2>2 DEF AtMaximum
<1>3. CASE TopUp
  <2>1. limits.min - Elapsed \in Int
    BY LimitsOrdered DEF Elapsed
  <2>2. relayMode' \in Modes /\ relayplusTime' \in -1 .. DAY
    BY <1>3, <2>1, PlusRequestOK DEF TopUp
  <2>3. upset' \in {"quiet", "restarted", "disturbed"}
    BY <1>3 DEF TopUp, Disturb, Unheard
  <2> QED BY <1>3, <2>2, <2>3 DEF TopUp
<1>4. CASE CountDown
  BY <1>4 DEF CountDown, Watching
<1>5. CASE LoseMinute
  BY <1>5 DEF LoseMinute
<1> QED BY <1>1, <1>2, <1>3, <1>4, <1>5 DEF EachMinute

LEMMA UserTypeOK ==
  ASSUME DayTypeOK, Manual \/ Configure \/ Reboot
  PROVE  DayTypeOK'
<1> USE DEF DayTypeOK, Manual, Configure, Reboot, calendar, config, plus, relay, Disturb
<1>1. relayPlusActive' \in BOOLEAN /\ chosen' \in BOOLEAN
  BY Zenon
<1>2. upset' \in {"quiet", "restarted", "disturbed"}
  OBVIOUS
<1>3. relayMode' \in Modes /\ relayplusTime' \in -1 .. DAY
  BY ModeRequestOK
<1>4. /\ UNCHANGED <<calendar, due>>
      /\ day' \in 1 .. MaxDays + 1 /\ length' \in Lengths /\ minute' \in 0 .. length' - 1
      /\ due' \subseteq {"init", "check"}
  OBVIOUS
<1>5. /\ limits' \in AllLimits /\ relaisPlusIndex' \in Nat \cup {-1}
      /\ relaisPlusCountDown' \in -1 .. COUNTDOWN
      /\ stats' \in Nat /\ on' \in Nat /\ late' \in 0 .. MaxLate
  OBVIOUS
<1>6. nano' \in {"up", "down"}
  OBVIOUS
<1> QED BY <1>1, <1>2, <1>3, <1>4, <1>5, <1>6

LEMMA TypeNext ==
  ASSUME DayTypeOK, [DayNext]_dayVars
  PROVE  DayTypeOK'
<1>1. CASE UNCHANGED dayVars
  BY <1>1 DEF dayVars, calendar, config, plus, relay, history, DayTypeOK
<1>2. CASE DayNext
  BY <1>2, MinuteTypeOK, NanoTypeOK, InitDayTypeOK, CheckTypeOK, UserTypeOK DEF DayNext
<1> QED BY <1>1, <1>2

\* Between two references, only the checks and the losses act on the request.
LEMMA ReferencesNext ==
  ASSUME DayTypeOK, References, [DayNext]_dayVars
  PROVE  References'
<1> USE DEF DayTypeOK, References
<1>1. CASE Minute
  BY <1>1 DEF Minute, plus
<1>2. CASE InitDay
  <2>1. chosen' => chosen /\ ~relayPlusActive
    BY <1>2, Zenon DEF InitDay
  <2>2. chosen' => relaisPlusIndex' = -1
    BY <1>2, <2>1 DEF InitDay, plus
  <2> QED BY <1>2, <2>2 DEF InitDay, calendar
<1>3. CASE EachMinute \/ LoseMinute
  BY <1>3 DEF EachMinute, NotWatching, AtMaximum, TopUp, CountDown, LoseMinute, Check, calendar,
              plus, history
<1>4. CASE Manual \/ Configure \/ Reboot
  BY <1>4 DEF Manual, Configure, Reboot, calendar, plus
<1>5. CASE NanoStops \/ NanoStarts \/ ResetIndex \/ UNCHANGED dayVars
  BY <1>5 DEF NanoStops, NanoStarts, ResetIndex, dayVars, calendar, plus, history
<1> QED BY <1>1, <1>2, <1>3, <1>4, <1>5 DEF DayNext

\* The day is quiet after InitDay only if RelayPlus is initialised.
LEMMA Initialised ==
  ASSUME DayTypeOK, InitDay, upset' # "disturbed"
  PROVE  /\ relayPlusActive /\ nano = "up" /\ nano' = "up"
         /\ relaisPlusIndex' = stats /\ relaisPlusCountDown' = COUNTDOWN
         /\ stats' = stats /\ on' = 0 /\ "init" \notin due'
         /\ relayMode' = "AUTOM" /\ relayplusTime' = -1
<1>1. relayPlusActive
  BY SMT DEF InitDay, Disturb
<1>2. nano = "up"
  BY SMT DEF InitDay, Disturb
<1> QED BY <1>1, <1>2 DEF InitDay, relayModeEcoPV, Lost

\* What the user does, INDX0 and a request lost are not forgotten in the day.
LEMMA Disturbed ==
  ASSUME ResetIndex \/ Manual \/ Configure \/ Reboot
  PROVE  upset' = "disturbed"
BY DEF ResetIndex, Manual, Configure, Reboot, Disturb

LEMMA WatchedNext ==
  ASSUME DayTypeOK, Watched, [DayNext]_dayVars
  PROVE  Watched'
<1> SUFFICES ASSUME upset' # "disturbed"
             PROVE  relayPlusActive' /\ relaisPlusIndex' >= 0 /\ on' = stats' - relaisPlusIndex'
  BY DEF Watched
<1> USE DEF Watched
<1>1. CASE Minute
  BY <1>1 DEF Minute, Running, Stopped, config, plus, DayTypeOK
<1>2. CASE InitDay
  <2>1. relayPlusActive'
    BY <1>2, Initialised, Zenon DEF InitDay, config
  <2> QED BY <1>2, <2>1, Initialised DEF DayTypeOK
<1>3. CASE EachMinute \/ LoseMinute
  BY <1>3 DEF EachMinute, NotWatching, AtMaximum, TopUp, CountDown, LoseMinute, Disturb, Unheard,
              config, plus, history
<1>4. CASE ResetIndex \/ Manual \/ Configure \/ Reboot
  BY <1>4, Disturbed
<1>5. CASE NanoStops \/ NanoStarts \/ UNCHANGED dayVars
  BY <1>5 DEF NanoStops, NanoStarts, Disturb, dayVars, config, plus, history
<1> QED BY <1>1, <1>2, <1>3, <1>4, <1>5 DEF DayNext
--------------------------------------------------------------------------------
(* The maximum *)

LEMMA LimitedMinute ==
  ASSUME DayInv, Minute
  PROVE  Limited'
<1> SUFFICES ASSUME upset' = "quiet", ~DayOver' PROVE Limited'
  BY DEF Limited
<1> USE DEF DayInv, DayTypeOK
<1>1. /\ due = {} /\ due' = {"check"} \cup (due' \cap {"init"}) /\ minute' = minute + 1
      /\ upset = "quiet" /\ ~DayOver
  BY DEF Minute, DayOver
<1>2. /\ nano = "up" /\ nano' = "up" /\ Timer /\ late' = late
      /\ relaisPlusCountDown' = relaisPlusCountDown /\ limits' = limits
  BY <1>1 DEF Limited, Minute, Running, Stopped, plus, config
<1>3. /\ on' \in {on, on + 1}
      /\ relayMode' = "STOP" => on' = on
  BY <1>1, <1>2 DEF Minute, Running, Stopped
<1>4. limits.max \in Nat
  BY LimitsOrdered
<1>5. Late("check") = 0 /\ Late("check")' = 1
  BY <1>1 DEF Late
<1>6. CASE relaisPlusCountDown >= 0
  BY <1>1, <1>2, <1>3, <1>4, <1>5, <1>6 DEF Limited
<1>7. CASE relayMode = "STOP" /\ relayplusTime = -1 /\ relaisPlusCountDown = -1
           /\ on <= limits.max + late
  <2>1. relayMode' = "STOP" /\ relayplusTime' = -1
    BY <1>2, <1>7 DEF Timer
  <2> QED BY <1>2, <1>3, <1>4, <1>7, <2>1 DEF Limited
<1>8. CASE relayplusTime >= 0 /\ relaisPlusCountDown = -1 /\ on + relayplusTime <= limits.max
  <2>1. CASE relayplusTime = 0
    <3>1. relayMode' = "STOP" /\ relayplusTime' = -1
      BY <1>2, <2>1 DEF Timer
    <3> QED BY <1>2, <1>3, <1>4, <1>8, <2>1, <3>1 DEF Limited
  <2>2. CASE relayplusTime > 0
    <3>1. relayplusTime' = relayplusTime - 1
      BY <1>2, <2>2 DEF Timer
    <3> QED BY <1>2, <1>3, <1>4, <1>8, <2>2, <3>1 DEF Limited
  <2> QED BY <1>8, <2>1, <2>2
<1>9. CASE relaisPlusCountDown = -1 /\ minute >= COUNTDOWN
  BY <1>1, <1>2, <1>9 DEF Limited
<1> QED BY <1>1, <1>6, <1>7, <1>8, <1>9 DEF Limited

LEMMA LimitedInitDay ==
  ASSUME DayInv, InitDay
  PROVE  Limited'
<1> SUFFICES ASSUME upset' = "quiet" PROVE Limited'
  BY DEF Limited
<1>1. /\ nano' = "up" /\ relaisPlusCountDown' = COUNTDOWN /\ on' = 0
  BY Initialised DEF DayInv
<1>2. late' \in Nat /\ minute' \in Nat
  BY DEF InitDay, DayInv, DayTypeOK, calendar
<1>3. limits'.max \in Nat /\ limits'.max >= 1
  <2>1. limits' = limits
    BY DEF InitDay, config
  <2>2. limits.max \in Nat /\ limits.max >= 1
    BY LimitsOrdered DEF DayInv, DayTypeOK
  <2> QED BY <2>1, <2>2
<1>4. Late("check")' \in {0, 1}
  BY DEF Late
<1> QED BY <1>1, <1>2, <1>3, <1>4 DEF Limited

LEMMA LimitedCheck ==
  ASSUME DayInv, EachMinute \/ LoseMinute
  PROVE  Limited'
<1> SUFFICES ASSUME upset' = "quiet", ~DayOver' PROVE Limited'
  BY DEF Limited
<1> USE DEF DayInv
<1>1. /\ "check" \in due /\ due' = due \ {"check"}
      /\ UNCHANGED <<minute, limits, nano, on>>
  BY DEF EachMinute, NotWatching, AtMaximum, TopUp, CountDown, LoseMinute, Check, calendar,
         config, history
<1>2. /\ upset = "quiet" /\ ~DayOver
  BY <1>1 DEF EachMinute, NotWatching, AtMaximum, TopUp, CountDown, LoseMinute, Disturb, Unheard,
         history, DayOver, DayTypeOK
<1>3. nano = "up" /\ relayPlusActive /\ relaisPlusIndex >= 0 /\ Elapsed = on
  BY <1>2 DEF Limited, Watched, Elapsed
<1>4. limits.min \in Nat /\ limits.max \in Nat /\ limits.min < limits.max
  BY LimitsOrdered DEF DayTypeOK
<1>5. Late("check") = 1 /\ Late("check")' = 0
  BY <1>1 DEF Late
<1> USE DEF DayTypeOK
<1>6. CASE NotWatching
  <2>1. relaisPlusCountDown = -1
    BY <1>3, <1>6 DEF NotWatching, Watching
  <2>2. UNCHANGED <<relaisPlusCountDown, relayMode, relayplusTime, late>>
    BY <1>6 DEF NotWatching, plus, relay, history
  <2> QED BY <1>1, <1>2, <1>4, <1>5, <2>1, <2>2 DEF Limited
<1>7. CASE AtMaximum
  <2>1. /\ relaisPlusCountDown' = -1 /\ relayMode' = "STOP" /\ relayplusTime' = -1
        /\ late' = late /\ relaisPlusCountDown >= 0
    BY <1>3, <1>7 DEF AtMaximum, relayModeEcoPV, Lost, Watching
  <2>2. on <= limits.max + late
    BY <1>2, <1>4, <1>5, <2>1 DEF Limited
  <2> QED BY <1>1, <1>3, <2>1, <2>2 DEF Limited
<1>8. CASE TopUp
  <2>1. /\ relaisPlusCountDown' = -1 /\ on < limits.max
        /\ SETRELPLUS(limits.min - on)
    BY <1>3, <1>8 DEF TopUp, relayPlusEcoPV, Lost
  <2>2. relayplusTime' >= 0 /\ on + relayplusTime' <= limits.max
    BY <1>4, <2>1 DEF SETRELPLUS
  <2> QED BY <1>1, <1>3, <2>1, <2>2 DEF Limited
<1>9. CASE CountDown
  <2>1. /\ relaisPlusCountDown >= 0 /\ relaisPlusCountDown' = relaisPlusCountDown - 1
        /\ on < limits.max /\ late' = late
    BY <1>3, <1>9 DEF CountDown, Watching, history
  <2> QED BY <1>1, <1>2, <1>3, <1>4, <1>5, <2>1 DEF Limited
<1>10. CASE LoseMinute
  <2>1. late' = late + 1 /\ UNCHANGED <<relaisPlusCountDown, relayMode, relayplusTime>>
    BY <1>10 DEF LoseMinute, plus, relay
  <2> QED BY <1>1, <1>2, <1>4, <1>5, <2>1 DEF Limited
<1> QED BY <1>6, <1>7, <1>8, <1>9, <1>10 DEF EachMinute

LEMMA LimitedNext ==
  ASSUME DayInv, [DayNext]_dayVars
  PROVE  Limited'
<1>1. CASE Minute \/ InitDay \/ EachMinute \/ LoseMinute
  BY <1>1, LimitedMinute, LimitedInitDay, LimitedCheck
<1>2. CASE NanoStops
  BY <1>2 DEF NanoStops, Disturb, Limited
<1>3. CASE NanoStarts
  BY <1>3 DEF NanoStarts, Limited, DayInv, DayOver, calendar, history
<1>4. CASE ResetIndex \/ Manual \/ Configure \/ Reboot
  BY <1>4, Disturbed DEF Limited
<1>5. CASE UNCHANGED dayVars
  BY <1>5 DEF dayVars, calendar, config, plus, relay, history, Limited, DayInv, DayOver, Late
<1> QED BY <1>1, <1>2, <1>3, <1>4, <1>5 DEF DayNext
--------------------------------------------------------------------------------
(* The minimum, on days that suffice *)

\* What is still missing becomes less, or the timer runs for it.
LEMMA ReachingMinute ==
  ASSUME MinimumInv, Minute
  PROVE  Reaching'
<1> SUFFICES ASSUME upset' # "disturbed", ~DayOver' PROVE Reaching'
  BY DEF Reaching
<1> USE DEF MinimumInv, DayInv, DayTypeOK
<1>1. /\ due = {} /\ minute' = minute + 1 /\ length' = length
      /\ upset # "disturbed" /\ ~DayOver
  BY DEF Minute, DayOver
<1>2. Late("check") = 0 /\ Late("check")' = 1
  BY <1>1 DEF Late, Minute
<1>3. /\ UNCHANGED <<relaisPlusCountDown, limits>>
      /\ on' \in {on, on + 1} /\ late' \in {late, late + 1}
  BY DEF Minute, Running, Stopped, plus, config
<1>4. limits.min \in Nat /\ length \in Nat
  BY LimitsOrdered
<1>5. CASE on >= limits.min
  BY <1>3, <1>4, <1>5 DEF Reaching
<1>6. CASE /\ relaisPlusCountDown > limits.min - on
           /\ minute <= COUNTDOWN - relaisPlusCountDown + late + Late("check") + 1
  BY <1>1, <1>2, <1>3, <1>4, <1>6 DEF Reaching
<1>7. CASE /\ relaisPlusCountDown = -1 /\ on < limits.min
           /\ relayplusTime >= limits.min - on
           /\ length - minute >= limits.min - on + MaxLate - late
  <2>1. CASE Running
    <3>1. relayMode' = "FORCE" /\ relayplusTime' = relayplusTime - 1
      BY <1>4, <1>7, <2>1 DEF Running, Timer
    <3>2. on' = on + 1 /\ late' = late
      BY <2>1, <3>1 DEF Running
    <3> QED BY <1>1, <1>3, <1>4, <1>7, <3>1, <3>2 DEF Reaching
  <2>2. CASE Stopped
    <3>1. relayplusTime' = relayplusTime /\ on' = on /\ late' = late + 1
      BY <2>2 DEF Stopped, relay
    <3> QED BY <1>1, <1>3, <1>4, <1>7, <3>1 DEF Reaching
  <2> QED BY <2>1, <2>2 DEF Minute
<1> QED BY <1>1, <1>4, <1>5, <1>6, <1>7 DEF Reaching

LEMMA ReachingInitDay ==
  ASSUME DaysSuffice, MinimumInv, InitDay
  PROVE  Reaching'
<1> SUFFICES ASSUME upset' # "disturbed" PROVE Reaching'
  BY DEF Reaching
<1>1. relaisPlusCountDown' = COUNTDOWN /\ on' = 0
  BY Initialised DEF MinimumInv, DayInv
<1>2. minute' \in {0, 1} /\ late' \in Nat
  BY DEF InitDay, MinimumInv, DayInv, DayTypeOK, References, calendar
<1>3. limits'.min < COUNTDOWN /\ limits'.min \in Nat
  <2>1. limits' = limits
    BY DEF InitDay, config
  <2>2. limits.min < COUNTDOWN /\ limits.min \in Nat
    BY LimitsOrdered DEF DaysSuffice, MinimumInv, DayInv, DayTypeOK
  <2> QED BY <2>1, <2>2
<1>4. Late("check")' \in {0, 1}
  BY DEF Late
<1> QED BY <1>1, <1>2, <1>3, <1>4 DEF Reaching

\* The FORCE comes when what is left of the day is just enough.
LEMMA ReachingCheck ==
  ASSUME DaysSuffice, MinimumInv, EachMinute \/ LoseMinute
  PROVE  Reaching'
<1> SUFFICES ASSUME upset' # "disturbed", ~DayOver' PROVE Reaching'
  BY DEF Reaching
<1> USE DEF MinimumInv, DayInv
<1>1. /\ "check" \in due /\ due' = due \ {"check"}
      /\ UNCHANGED <<minute, length, limits, nano, on>>
  BY DEF EachMinute, NotWatching, AtMaximum, TopUp, CountDown, LoseMinute, Check, calendar,
         config, history
<1>2. /\ upset # "disturbed" /\ ~DayOver
  BY <1>1 DEF EachMinute, NotWatching, AtMaximum, TopUp, CountDown, LoseMinute, Disturb, Unheard,
         history, DayOver, DayTypeOK
<1>3. relayPlusActive /\ relaisPlusIndex >= 0 /\ Elapsed = on
  BY <1>2 DEF Watched, Elapsed
<1>4. /\ limits.min \in Nat /\ limits.max \in Nat /\ limits.min < limits.max
      /\ limits.min < COUNTDOWN /\ length \in Nat /\ length > COUNTDOWN + MaxLate
  BY LimitsOrdered DEF DayTypeOK, DaysSuffice
<1>5. Late("check") = 1 /\ Late("check")' = 0
  BY <1>1 DEF Late
<1> USE DEF DayTypeOK
<1>6. CASE on >= limits.min
  BY <1>1, <1>6 DEF Reaching
<1>7. CASE on < limits.min
  <2>1. CASE NotWatching
    <3>1. relaisPlusCountDown = -1
      BY <1>3, <2>1 DEF NotWatching, Watching
    <3>2. UNCHANGED <<relaisPlusCountDown, relayplusTime, late>>
      BY <2>1 DEF NotWatching, plus, relay, history
    <3> QED BY <1>1, <1>2, <1>4, <1>7, <3>1, <3>2 DEF Reaching
  <2>2. CASE AtMaximum
    BY <1>3, <1>4, <1>7, <2>2 DEF AtMaximum
  <2>3. CASE TopUp
    <3>1. /\ relaisPlusCountDown' = -1 /\ late' = late /\ relaisPlusCountDown >= 0
          /\ relaisPlusCountDown - 1 <= limits.min - on
          /\ relayPlusEcoPV(limits.min - on)
      BY <1>3, <2>3 DEF TopUp, Watching
    <3>2. nano = "up"
      BY <2>3 DEF TopUp, Disturb, Unheard
    <3>3. relayplusTime' = limits.min - on
      BY <1>4, <1>7, <3>1, <3>2 DEF relayPlusEcoPV, SETRELPLUS, Lost
    <3>4. /\ relaisPlusCountDown > limits.min - on
          /\ minute <= COUNTDOWN - relaisPlusCountDown + late + 2
      BY <1>2, <1>4, <1>5, <1>7, <3>1 DEF Reaching
    <3>5. length - minute >= limits.min - on + MaxLate - late
      BY <1>4, <3>1, <3>4
    <3> QED BY <1>1, <3>1, <3>3, <3>5 DEF Reaching
  <2>4. CASE CountDown
    <3>1. /\ relaisPlusCountDown >= 0 /\ relaisPlusCountDown' = relaisPlusCountDown - 1
          /\ relaisPlusCountDown - 1 > limits.min - on /\ late' = late
      BY <1>3, <2>4 DEF CountDown, Watching, history
    <3> QED BY <1>1, <1>2, <1>4, <1>5, <1>7, <3>1 DEF Reaching
  <2>5. CASE LoseMinute
    <3>1. late' = late + 1 /\ UNCHANGED <<relaisPlusCountDown, relayplusTime>>
      BY <2>5 DEF LoseMinute, plus, relay
    <3> QED BY <1>1, <1>2, <1>4, <1>5, <1>7, <3>1 DEF Reaching
  <2> QED BY <2>1, <2>2, <2>3, <2>4, <2>5 DEF EachMinute
<1> QED BY <1>4, <1>6, <1>7

LEMMA ReachingNext ==
  ASSUME DaysSuffice, MinimumInv, [DayNext]_dayVars
  PROVE  Reaching'
<1>1. CASE Minute \/ InitDay \/ EachMinute \/ LoseMinute
  BY <1>1, ReachingMinute, ReachingInitDay, ReachingCheck
<1>2. CASE NanoStops
  BY <1>2 DEF NanoStops, Disturb, Reaching, MinimumInv, DayOver, calendar, config, plus, relay,
              Late
<1>3. CASE NanoStarts
  BY <1>3 DEF NanoStarts, Reaching, MinimumInv, DayOver, calendar, config, plus, history, Late
<1>4. CASE ResetIndex \/ Manual \/ Configure \/ Reboot
  BY <1>4, Disturbed DEF Reaching
<1>5. CASE UNCHANGED dayVars
  BY <1>5 DEF dayVars, calendar, config, plus, relay, history, Reaching, MinimumInv, DayOver, Late
<1> QED BY <1>1, <1>2, <1>3, <1>4, <1>5 DEF DayNext

\* In the last minute of the day nothing is missing.
LEMMA EndOfDay ==
  ASSUME DaysSuffice, MinimumInv, Minute, DayOver', upset' # "disturbed"
  PROVE  on' >= limits'.min
<1> USE DEF MinimumInv, DayInv, DayTypeOK
<1>1. due = {} /\ minute = length - 1 /\ upset # "disturbed" /\ ~DayOver
  BY DEF Minute, DayOver
<1>2. limits' = limits /\ on' \in {on, on + 1}
  BY DEF Minute, Running, Stopped, config
<1>3. /\ limits.min \in Nat /\ length \in Nat /\ length > COUNTDOWN + MaxLate
  BY LimitsOrdered DEF DaysSuffice
<1>4. Late("check") = 0
  BY <1>1 DEF Late
<1>5. CASE on >= limits.min
  BY <1>2, <1>3, <1>5
<1>6. CASE /\ relaisPlusCountDown > limits.min - on
           /\ minute <= COUNTDOWN - relaisPlusCountDown + late + Late("check") + 1
  BY <1>1, <1>2, <1>3, <1>4, <1>6
<1>7. CASE /\ on < limits.min /\ relayplusTime >= limits.min - on
           /\ length - minute >= limits.min - on + MaxLate - late
  <2>1. on = limits.min - 1 /\ late = MaxLate
    BY <1>1, <1>3, <1>7
  <2>2. Running /\ relayplusTime > 0
    BY <1>3, <1>7, <2>1 DEF Minute, Stopped
  <2>3. on' = on + 1
    BY <2>2 DEF Running, Timer
  <2> QED BY <1>2, <1>3, <2>1, <2>3
<1> QED BY <1>1, <1>3, <1>5, <1>6, <1>7 DEF Reaching

LEMMA MinimumNext ==
  ASSUME DaysSuffice, MinimumInv, [DayNext]_dayVars
  PROVE  DayOver' /\ upset' # "disturbed" => on' >= limits'.min
<1> SUFFICES ASSUME DayOver', upset' # "disturbed" PROVE on' >= limits'.min
  OBVIOUS
<1>1. CASE Minute
  BY <1>1, EndOfDay
<1>2. CASE InitDay
  BY <1>2, Initialised DEF DayOver, MinimumInv, DayInv
<1>3. CASE EachMinute \/ LoseMinute
  <2>1. UNCHANGED <<minute, limits, on>> /\ due' \subseteq due
    BY <1>3 DEF EachMinute, NotWatching, AtMaximum, TopUp, CountDown, LoseMinute, Check, calendar,
                config, history
  <2>2. upset # "disturbed"
    BY <1>3 DEF EachMinute, NotWatching, AtMaximum, TopUp, CountDown, LoseMinute, Disturb,
                Unheard, history, MinimumInv, DayInv, DayTypeOK
  <2> QED BY <2>1, <2>2 DEF DayOver, MinimumInv, DayMinimum
<1>4. CASE ResetIndex \/ Manual \/ Configure \/ Reboot
  BY <1>4, Disturbed
<1>5. CASE NanoStops \/ NanoStarts \/ UNCHANGED dayVars
  BY <1>5 DEF NanoStops, NanoStarts, Disturb, dayVars, calendar, config, history, DayOver,
              MinimumInv, DayMinimum
<1> QED BY <1>1, <1>2, <1>3, <1>4, <1>5 DEF DayNext
--------------------------------------------------------------------------------
(* What RelayPlus promises *)

\* What the ESP knows of the day, of the relay and of its limits is right, in
\* every interleaving of the two boards, of their losses and of the user.
THEOREM RelayPlusInvariant == DaySpec => []DayInv
<1>1. DayInit => DayInv
  BY InvInit DEF DayInv
<1>2. DayInv /\ [DayNext]_dayVars => DayInv'
  BY TypeNext, ReferencesNext, WatchedNext, LimitedNext DEF DayInv
<1> QED BY <1>1, <1>2, PTL DEF DaySpec

\* On a quiet day the relay does not run for longer than the maximum, but for the
\* minutes that the ESP missed, whatever the lengths and the limits.
THEOREM MaximumKept == DaySpec => []DayMaximum
<1>1. DayInv => DayMaximum
  <2> SUFFICES ASSUME DayInv, upset = "quiet", minute \in 1 .. COUNTDOWN
               PROVE  on <= limits.max + late
    BY DEF DayMaximum
  <2>1. ~DayOver
    BY DEF DayOver
  <2>2. limits.max \in Nat
    BY LimitsOrdered DEF DayInv, DayTypeOK
  <2>3. Late("check") \in {0, 1}
    BY DEF Late
  <2> QED BY <2>1, <2>2, <2>3 DEF DayInv, Limited, DayTypeOK
<1> QED BY <1>1, RelayPlusInvariant, PTL

\* On days that suffice the relay runs for the minimum, unless a request was lost
\* or somebody intervened; restarts of the Nano and missed minutes do no harm.
THEOREM MinimumReached == ASSUME DaysSuffice PROVE DaySpec => []DayMinimum
<1>1. DayInit => MinimumInv
  <2> SUFFICES ASSUME DayInit PROVE MinimumInv
    OBVIOUS
  <2>1. upset = "disturbed"
    BY DEF DayInit
  <2> QED BY <2>1, InvInit DEF MinimumInv, DayInv, Reaching, DayMinimum
<1>2. MinimumInv /\ [DayNext]_dayVars => MinimumInv'
  <2> SUFFICES ASSUME MinimumInv, [DayNext]_dayVars PROVE MinimumInv'
    OBVIOUS
  <2>1. DayInv'
    BY TypeNext, ReferencesNext, WatchedNext, LimitedNext DEF MinimumInv, DayInv
  <2>2. Reaching'
    BY ReachingNext
  <2>3. DayMinimum'
    BY <2>1, MinimumNext DEF DayMinimum, DayInv
  <2> QED BY <2>1, <2>2, <2>3 DEF MinimumInv
<1>3. MinimumInv => DayMinimum
  BY DEF MinimumInv
<1> QED BY <1>1, <1>2, <1>3, PTL DEF DaySpec

\* A mode the user chose is not replaced by RelayPlus, until it is initialised.
THEOREM ChoiceKept == DaySpec => ManualStopsRelayPlus
<1>1. DayInv => (EachMinute /\ chosen => UNCHANGED relay)
  <2> SUFFICES ASSUME DayInv, EachMinute, chosen PROVE UNCHANGED relay
    OBVIOUS
  <2>1. ~Watching
    BY DEF DayInv, References, Watching
  <2> QED BY <2>1 DEF EachMinute, NotWatching, AtMaximum, TopUp, CountDown
<1> QED BY <1>1, RelayPlusInvariant, PTL DEF ManualStopsRelayPlus
================================================================================
