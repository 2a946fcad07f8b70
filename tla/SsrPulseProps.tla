---------------------------- MODULE SsrPulseProps ----------------------------
(***************************************************************************)
(* What the SSR must do in each half-cycle, given what the zero crossing   *)
(* decided, and when the router stops.                                     *)
(***************************************************************************)
EXTENDS SsrPulse

\* The mains cross zero after the pulse of the half-cycle is over, as at 50 Hz:
\* 148 ticks of 64 us make 9.5 ms.
Nominal == PULSE_END + 1 < EarliestCross /\ MinGap < EarliestCross

TypeOK ==
  /\ ssr \in {"ON", "OFF"} /\ TCCR1B \in {0, 5}
  /\ TCNT1 \in 0 .. Top /\ OCR1A \in {Far} \cup Delays
  /\ pending \subseteq Flags
  /\ masked \in {{}, {"INT1"}}
  /\ coldStart \in 0 .. NCSTART
  /\ triacMode \in TriacModes
  /\ since \in 0 .. SinceMax
  /\ main \in {"loop", "detached", "timerOff", "stopped", "warmup"}
  /\ command \in {"none", "pulse", "full"}
  /\ shots \in Nat
--------------------------------------------------------------------------------
\* In a half-cycle for which no power is to be delivered the SSR stays off: a
\* request of Timer1 never outlives the half-cycle that raised it.  And once
\* stopPVR is over and until the warm-up of the next start is, nothing turns the
\* SSR on: not even a compare match that came during stopPVR.
OffUnlessCommanded ==
  ssr = "ON" => command # "none" /\ main # "stopped" /\ coldStart = 0

\* A pulse begins at the delay of its half-cycle and ends before the mains
\* cross zero again, so that it never fires the SSR for the next half-cycle.
PulseInHalfCycle ==
  ssr = "ON" /\ command = "pulse" /\ main # "timerOff" => since \in OCR1A .. PULSE_END + 1

\* When the mains cross again, the SSR was fired exactly once if the crossing
\* before had decided so and never otherwise, whatever noise and mode changes
\* came in between.
Commanded == IF command = "none" THEN 0 ELSE 1
DeliversCommand ==
  main \in {"warmup", "loop"} /\ coldStart = 0 /\ since > PULSE_END + 1
    => shots = Commanded

\* When the mains are lost for good the SSR ends up off, in FORCE mode too.
LostMeansOff == (since = SinceMax) ~> (ssr = "OFF" \/ since # SinceMax)
--------------------------------------------------------------------------------
(* Why it does: the invariant that the steps preserve. *)

\* Where Timer1 is while it counts: towards the delay, then towards the overflow.
BeforePulse ==
  /\ ssr = "OFF" /\ shots = 0
  /\ since <= OCR1A /\ TCNT1 = since
  /\ "TOV1" \notin pending
  /\ "OCF1A" \in pending <=> since = OCR1A
InPulse ==
  /\ ssr = "ON" /\ shots = 1
  /\ OCR1A <= since
  /\ "OCF1A" \notin pending
  /\ \/ /\ since <= PULSE_END
        /\ TCNT1 = Top - PULSE_END + since
        /\ "TOV1" \notin pending
     \/ /\ since = PULSE_END + 1
        /\ TCNT1 = 0
        /\ "TOV1" \in pending

Counting == TCCR1B = 5 =>
  command = "pulse" /\ OCR1A \in Delays /\ (BeforePulse \/ InPulse)

\* With Timer1 stopped none of its requests is left, and only FORCE, or a
\* stopPVR about to turn it off, keeps the SSR on.
Silent == TCCR1B = 0 =>
  /\ pending \subseteq {"INT1"}
  /\ ssr = "ON" => \/ command = "full"
                   \/ command = "pulse" /\ main = "timerOff"
  /\ masked = {} /\ coldStart = 0 => shots = Commanded

\* A crossing waits to be served only where the mains or noise can put one.
Crossings ==
  "INT1" \in pending /\ masked = {} /\ coldStart = 0
    => since <= MinGap \/ since >= EarliestCross

Phases ==
  /\ main \in {"warmup", "loop"} <=> masked = {}
  /\ coldStart > 0 => main = "warmup" /\ TCCR1B = 0 /\ ssr = "OFF"
  /\ main \in {"timerOff", "stopped"} => TCCR1B = 0
  /\ main = "stopped" => ssr = "OFF"

PulseInv == TypeOK /\ Counting /\ Silent /\ Crossings /\ Phases
================================================================================
