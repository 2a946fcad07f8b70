-------------------------- MODULE PulseCounterProps --------------------------
(***************************************************************************)
(* What the energy meter on the pulse input expects of the counter.        *)
(***************************************************************************)
EXTENDS PulseCounter

TypeOK ==
  /\ contact \in {"open", "closing", "closed", "opening"} /\ age \in 0 .. Hold
  /\ pin \in {"ON", "OFF"} /\ low \in 0 .. Spike
  /\ running \in BOOLEAN /\ TCNT2 \in 0 .. TOP - 1
  /\ requests \subseteq {"INT0", "COMPA", "OVF"}
  /\ attached \in BOOLEAN /\ due \in -1 .. 1
  /\ {deltaTimeImpulsion, lastDeltaTimeImpulsion, lastMinuteDeltaTimeImpulsion, Pimpulsion}
       \subseteq Intervals \cup {"none", "silence"}
  /\ impulsionFlag \in BOOLEAN /\ silent \in 0 .. 2 /\ disturbed \in BOOLEAN
--------------------------------------------------------------------------------
\* Each pulse of the meter is counted once, whatever its bounces and the noise:
\* never twice, never for noise, and before the contact is open again.
\* (And the variables keep their types: due is never below -1 nor above 1.)
CountedOnce ==
  /\ TypeOK
  /\ ~disturbed => /\ due \in {0, 1}
                   /\ contact \in {"open", "opening"} => due = 0

\* The power shown is the one of pulses that keep coming: two minutes after
\* the last pulse it is 0, and the interval that ends a silence never counts
\* as a power.
PowerIsCurrent ==
  /\ silent = 2 => Pimpulsion = "none"
  /\ Pimpulsion # "silence"
--------------------------------------------------------------------------------
(* Why they hold: Timer2 runs from the last falling edge.  While the contact is *)
(* open or opens, no edge is old enough for the overflow; while it closes or is *)
(* closed, one is under way until the pulse is counted, which takes TOP at most. *)

\* With the contact open, what is low after the compare match has just fallen.
OpenContact == contact = "open" =>
  /\ due = 0 /\ "OVF" \notin requests
  /\ running => TCNT2 <= OCR2A
  /\ running /\ TCNT2 = OCR2A => "COMPA" \in requests /\ (pin = "ON" \/ "INT0" \in requests)
  /\ "INT0" \in requests => low = 0
  /\ pin = "OFF" /\ "INT0" \notin requests => running /\ TCNT2 = low

\* An opening contact bounces for less than the time to the compare match.
OpeningContact == contact = "opening" =>
  /\ due = 0 /\ requests \subseteq {"INT0"}
  /\ running => TCNT2 <= age

ClosingContact == contact = "closing" =>
  /\ due = 1 /\ "OVF" \notin requests
  /\ "INT0" \notin requests /\ running => TCNT2 <= age
  /\ "INT0" \notin requests /\ pin = "OFF" => running

\* A closed contact is waiting for INT0 or for the overflow, or it is counted.
ClosedContact == contact = "closed" =>
  /\ pin = "OFF" /\ due \in {0, 1}
  /\ due = 0 => ~running /\ requests = {}
  /\ due = 1 =>
       \/ "INT0" \in requests /\ "OVF" \notin requests /\ age = 0
       \/ "INT0" \notin requests /\ "OVF" \notin requests /\ running /\ age <= TCNT2
       \/ "INT0" \notin requests /\ "OVF" \in requests /\ age <= TOP

Moving == contact \in {"closing", "opening"} => age <= Bounce

\* After a pulse and a minute the power is up to date, and after two it is 0.
Silences ==
  /\ silent >= 1 => /\ lastDeltaTimeImpulsion = deltaTimeImpulsion
                    /\ lastMinuteDeltaTimeImpulsion = deltaTimeImpulsion
  /\ silent = 2 => ~impulsionFlag
  /\ deltaTimeImpulsion = "silence" =>
       lastDeltaTimeImpulsion = "silence" \/ ~impulsionFlag

CounterInv ==
  /\ TypeOK /\ Moving /\ Silences /\ PowerIsCurrent
  /\ disturbed => due = 0
  /\ ~disturbed => /\ attached
                   /\ contact # "open" => low = 0
                   /\ OpenContact /\ OpeningContact /\ ClosingContact /\ ClosedContact
================================================================================
