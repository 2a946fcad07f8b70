---------------------------- MODULE SsrPulseProofs ----------------------------
(***************************************************************************)
(* For every delay table, pulse end and counter width: with mains that     *)
(* cross zero after the end of the pulse, the SSR does in each half-cycle  *)
(* what the zero crossing decided, and nothing else.                       *)
(***************************************************************************)
EXTENDS SsrPulseProps, TLAPS

USE PulseAssumption, MainsAssumption

LEMMA CounterRange ==
  ASSUME NEW x \in -Top .. 2 * Top
  PROVE  /\ x % (Top + 1) \in 0 .. Top
         /\ x \in 0 .. Top => x % (Top + 1) = x
  OBVIOUS

\* TIMER1_COMPA makes the counter overflow one tick after PULSE_END.
LEMMA JumpOK ==
  ASSUME NEW d \in Delays
  PROVE  (Top - (PULSE_END - d)) % (Top + 1) = Top - PULSE_END + d
<1>1. Top - (PULSE_END - d) \in 0 .. Top
  OBVIOUS
<1> QED BY <1>1, CounterRange

LEMMA InvInit == Init => PulseInv
  BY DEF Init, PulseInv, TypeOK, Counting, Silent, Crossings, Phases, TriacModes

LEMMA InvTick ==
  ASSUME PulseInv, Tick
  PROVE  PulseInv'
<1> USE DEF PulseInv, TypeOK, Tick, timer, history, Requests, Flags
<1>1. CASE TCCR1B = 0
  <2>1. UNCHANGED <<ssr, timer, masked, coldStart, pending, main, history>>
    BY <1>1
  <2>2. since' \in 0 .. SinceMax /\ since <= since'
    OBVIOUS
  <2>3. TypeOK'
    BY <2>1, <2>2
  <2>4. Counting' /\ Silent' /\ Phases'
    BY <1>1, <2>1 DEF Counting, Silent, Phases, Commanded
  <2>5. Crossings'
    BY <2>1, <2>2 DEF Crossings
  <2> QED BY <2>3, <2>4, <2>5
<1>2. CASE TCCR1B = 5
  <2>1. /\ TCNT1' = (TCNT1 + 1) % (Top + 1) /\ TCNT1' \in 0 .. Top
        /\ pending' = pending \cup {f \in {"OCF1A"} : TCNT1' = OCR1A}
                              \cup {f \in {"TOV1"} : TCNT1' = 0}
    BY <1>2, CounterRange
  <2>2. /\ UNCHANGED <<ssr, TCCR1B, OCR1A, masked, coldStart, triacMode, main,
                       command, shots>>
        /\ "OCF1A" \notin pending /\ "TOV1" \notin pending
        /\ "INT1" \in pending' <=> "INT1" \in pending
    BY <1>2, <2>1
  <2>3. since' \in 0 .. SinceMax
    OBVIOUS
  <2>4. TypeOK'
    BY <2>1, <2>2, <2>3
  <2>5. command = "pulse" /\ OCR1A \in Delays /\ OCR1A \in 1 .. PULSE_END - 1
    BY <1>2 DEF Counting
  <2>6. Crossings' /\ Silent' /\ Phases'
    BY <1>2, <2>2 DEF Crossings, Silent, Phases
  <2>7. CASE BeforePulse
    <3>1. since < OCR1A /\ since' = since + 1
      BY <2>2, <2>5, <2>7 DEF BeforePulse
    <3>2. TCNT1' = since + 1
      BY <2>1, <2>5, <2>7, <3>1, CounterRange DEF BeforePulse
    <3>3. BeforePulse'
      BY <2>1, <2>2, <2>5, <2>7, <3>1, <3>2 DEF BeforePulse
    <3> QED BY <2>2, <2>4, <2>5, <2>6, <3>3 DEF Counting
  <2>8. CASE InPulse
    <3>1. since <= PULSE_END /\ since' = since + 1 /\ TCNT1 = Top - PULSE_END + since
      BY <2>2, <2>8 DEF InPulse
    <3>2. ASSUME since < PULSE_END PROVE InPulse'
      <4>1. TCNT1' = Top - PULSE_END + since + 1
        BY <2>1, <2>5, <3>1, <3>2, CounterRange
      <4>2. TCNT1' # 0 /\ TCNT1' # OCR1A
        BY <2>5, <3>1, <4>1
      <4> QED BY <2>1, <2>2, <2>5, <2>8, <3>1, <3>2, <4>1, <4>2 DEF InPulse
    <3>3. ASSUME since = PULSE_END PROVE InPulse'
      <4>1. TCNT1' = 0
        BY <2>1, <3>1, <3>3
      <4> QED BY <2>1, <2>2, <2>5, <2>8, <3>1, <3>3, <4>1 DEF InPulse
    <3>4. InPulse'
      BY <3>1, <3>2, <3>3
    <3> QED BY <2>2, <2>4, <2>5, <2>6, <3>4 DEF Counting
  <2> QED BY <1>2, <2>7, <2>8 DEF Counting
<1> QED BY <1>1, <1>2

\* When a crossing ends a half-cycle of nominal mains, Timer1 has done its work.
LEMMA CrossingFindsTimerDone ==
  ASSUME PulseInv, Nominal, "INT1" \in Requests, coldStart = 0, since > MinGap
  PROVE  TCCR1B = 0 /\ pending \subseteq {"INT1"}
<1>1. since > PULSE_END + 1
  BY DEF PulseInv, Crossings, Nominal, TypeOK, Requests
<1>2. TCCR1B # 5
  BY <1>1 DEF PulseInv, TypeOK, Counting, BeforePulse, InPulse
<1> QED BY <1>2 DEF PulseInv, TypeOK, Silent

LEMMA InvInterrupt ==
  ASSUME PulseInv, Nominal, Interrupt
  PROVE  PulseInv'
<1> USE DEF PulseInv, TypeOK, timer, history, Requests, Flags
<1>1. CASE WarmUp
  BY <1>1 DEF WarmUp, Warming, Counting, Silent, Crossings, Phases, Commanded
<1>2. CASE HalfCycle
  <2> USE <1>2 DEF HalfCycle, EndsHalfCycle, Warming, TimerRuns
  <2>1. TCCR1B = 0 /\ pending \subseteq {"INT1"} /\ pending' = {}
    BY CrossingFindsTimerDone
  <2>2. masked = {} /\ masked' = {} /\ main \in {"warmup", "loop"} /\ coldStart' = 0
    BY DEF Phases
  <2>3. TypeOK'
    BY <2>1 DEF TriacModes
  <2>4. Counting'
    BY <2>1 DEF Counting, BeforePulse, TriacModes
  <2>5. Silent'
    BY <2>1, <2>2 DEF Silent, Commanded, TriacModes
  <2>6. Crossings' /\ Phases'
    BY <2>1, <2>2 DEF Crossings, Phases
  <2> QED BY <2>3, <2>4, <2>5, <2>6
<1>3. CASE Ignored
  BY <1>3 DEF Ignored, Warming, Counting, BeforePulse, InPulse, Silent, Crossings, Phases,
              Commanded
<1>4. CASE Compare
  <2> USE <1>4 DEF Compare, PulseStart
  <2>1. /\ TCCR1B = 5 /\ OCR1A \in Delays /\ command = "pulse"
        /\ BeforePulse /\ since = OCR1A
    BY DEF Silent, Counting, BeforePulse, InPulse
  <2>2. TCNT1' = Top - PULSE_END + since
    BY <2>1, JumpOK
  <2>3. InPulse'
    BY <2>1, <2>2 DEF InPulse, BeforePulse
  <2>4. TCNT1' \in 0 .. Top /\ coldStart = 0
    BY <2>1, <2>2 DEF Phases
  <2> QED
    BY <2>1, <2>3, <2>4 DEF Counting, Silent, Crossings, Phases
<1>5. CASE Overflow
  <2> USE <1>5 DEF Overflow
  <2>1. /\ TCCR1B = 5 /\ command = "pulse" /\ InPulse
    BY DEF Silent, Counting, BeforePulse, InPulse
  <2> QED
    BY <2>1 DEF InPulse, Counting, Silent, Crossings, Phases, Commanded
<1> QED BY <1>1, <1>2, <1>3, <1>4, <1>5 DEF Interrupt

LEMMA InvMainProgram ==
  ASSUME PulseInv, MainProgram
  PROVE  PulseInv'
<1> USE DEF PulseInv, TypeOK, timer, history, Requests, Flags, Main,
            Counting, BeforePulse, InPulse, Silent, Commanded, Crossings, Phases
<1>1. CASE SetTriacMode
  BY <1>1 DEF SetTriacMode
<1>2. CASE StopCrossings
  BY <1>2 DEF StopCrossings
<1>3. CASE StopTimer
  BY <1>3 DEF StopTimer
<1>4. CASE StopSsr
  BY <1>4 DEF StopSsr
<1>5. CASE Start
  BY <1>5 DEF Start, TriacModes
<1>6. CASE EnterLoop
  BY <1>6 DEF EnterLoop
<1> QED BY <1>1, <1>2, <1>3, <1>4, <1>5, <1>6 DEF MainProgram

LEMMA InvStep == PulseInv /\ Nominal /\ [Next]_vars => PulseInv'
<1> SUFFICES ASSUME PulseInv, Nominal, [Next]_vars PROVE PulseInv'
  OBVIOUS
<1>1. CASE Cross
  BY <1>1 DEF Cross, PulseInv, TypeOK, timer, history, Flags,
              Counting, BeforePulse, InPulse, Silent, Commanded, Crossings, Phases
<1>2. CASE UNCHANGED vars
  BY <1>2 DEF vars, PulseInv, TypeOK, timer, history,
              Counting, BeforePulse, InPulse, Silent, Commanded, Crossings, Phases
<1> QED BY <1>1, <1>2, InvTick, InvInterrupt, InvMainProgram DEF Next

\* With nominal mains the invariant of the pulse holds, types included.
THEOREM PulseInvariant == ASSUME Nominal PROVE Spec => []PulseInv
  BY InvInit, InvStep, PTL DEF Spec

\* With nominal mains, no command means no SSR, in every half-cycle, and a
\* stopped router keeps it off.
THEOREM NeverOnUncommanded == ASSUME Nominal PROVE Spec => []OffUnlessCommanded
<1>1. PulseInv => OffUnlessCommanded
  BY DEF OffUnlessCommanded, PulseInv, TypeOK, Counting, Silent, Phases
<1> QED BY <1>1, PulseInvariant, PTL

\* With nominal mains, a pulse is over before the next half-cycle begins.
THEOREM PulseEndsInTime == ASSUME Nominal PROVE Spec => []PulseInHalfCycle
<1>1. PulseInv => PulseInHalfCycle
  BY DEF PulseInHalfCycle, PulseInv, TypeOK, Counting, BeforePulse, InPulse, Silent
<1> QED BY <1>1, PulseInvariant, PTL

\* With nominal mains, each command is delivered by exactly one activation.
THEOREM EachCommandDelivered == ASSUME Nominal PROVE Spec => []DeliversCommand
<1>1. PulseInv => DeliversCommand
  BY DEF DeliversCommand, PulseInv, TypeOK, Counting, BeforePulse, InPulse, Silent,
         Phases
<1> QED BY <1>1, PulseInvariant, PTL
================================================================================
