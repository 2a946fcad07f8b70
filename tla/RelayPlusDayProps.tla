--------------------------- MODULE RelayPlusDayProps ---------------------------
(***************************************************************************)
(* What RelayPlus promises its user for each day.                          *)
(***************************************************************************)
EXTENDS RelayPlusDay

DayTypeOK ==
  /\ day \in 1 .. MaxDays + 1 /\ length \in Lengths /\ minute \in 0 .. length - 1
  /\ due \subseteq {"init", "check"}
  /\ limits \in AllLimits /\ relayPlusActive \in BOOLEAN
  /\ relaisPlusIndex \in Nat \cup {-1} /\ relaisPlusCountDown \in -1 .. COUNTDOWN
  /\ stats \in Nat
  /\ nano \in {"up", "down"}
  /\ relayMode \in Modes /\ relayplusTime \in -1 .. DAY
  /\ on \in Nat /\ late \in 0 .. MaxLate
  /\ upset \in {"quiet", "restarted", "disturbed"} /\ chosen \in BOOLEAN

\* The day is over: the next reference is reached, and not yet handled.
DayOver == minute = 0 /\ "init" \in due
--------------------------------------------------------------------------------
\* At the end of a day nobody intervened in, the relay has run for the minimum,
\* however the surplus was spread over the day, even if the boards missed some
\* minutes and the Nano was restarted, provided no request was lost.
\* (And the variables keep their types: no request of RelayPlus asks for more
\* than a day.)
DayMinimum ==
  /\ DayTypeOK
  /\ DayOver /\ upset # "disturbed" => on >= limits.min

\* While RelayPlus watches it, the relay runs for the maximum and no longer, but
\* for the minutes the ESP missed.
DayMaximum ==
  upset = "quiet" /\ minute \in 1 .. COUNTDOWN => on <= limits.max + late

\* Once the user has chosen a mode, RelayPlus sends no request until it is
\* initialised again.
ManualStopsRelayPlus ==
  [][EachMinute /\ chosen => UNCHANGED relay]_dayVars
--------------------------------------------------------------------------------
(* Why they hold *)

\* The minimum can be reached: the day outlasts the countdown by the minutes that
\* may be missed, and the minimum is less than the countdown.  With 1440 and
\* 1430 minutes: 9 may be missed, on a day of the usual length.
DaysSuffice ==
  /\ \A len \in Lengths : len > COUNTDOWN + MaxLate
  /\ \A l \in AllLimits : l.min < COUNTDOWN

Late(what) == IF what \in due THEN 1 ELSE 0

\* The reference is taken in the first two minutes, and ends the user's choice.
References ==
  /\ "init" \in due => minute \in {0, 1}
  /\ chosen => relaisPlusIndex = -1

\* Unless disturbed, the ESP knows how long the relay has run.
Watched ==
  upset # "disturbed" =>
    relayPlusActive /\ relaisPlusIndex >= 0 /\ on = stats - relaisPlusIndex

\* What is missing to the minimum is less than the countdown, which is late by
\* no more than the minutes that were missed; once the relay is forced, the
\* timer lasts for what is missing and the day for longer.
Reaching ==
  upset # "disturbed" /\ ~DayOver =>
    \/ on >= limits.min
    \/ /\ relaisPlusCountDown > limits.min - on
       /\ minute <= COUNTDOWN - relaisPlusCountDown + late + Late("check") + 1
    \/ /\ relaisPlusCountDown = -1
       /\ relayplusTime >= limits.min - on
       /\ length - minute >= limits.min - on + MaxLate - late

\* The relay has not run for the maximum at the last check; or it is stopped; or
\* its timer ends before the maximum; or the countdown is over.
Limited ==
  upset = "quiet" /\ ~DayOver =>
    /\ nano = "up"
    /\ \/ /\ relaisPlusCountDown >= 0
          /\ relaisPlusCountDown >= COUNTDOWN - minute - 1 + Late("check")
          /\ on <= limits.max - 1 + late + Late("check")
       \/ /\ relaisPlusCountDown = -1 /\ relayMode = "STOP" /\ relayplusTime = -1
          /\ on <= limits.max + late
       \/ /\ relaisPlusCountDown = -1 /\ relayplusTime >= 0
          /\ on + relayplusTime <= limits.max
       \/ /\ relaisPlusCountDown = -1 /\ minute >= COUNTDOWN
          /\ minute = COUNTDOWN => "check" \notin due /\ on <= limits.max + late

DayInv == DayTypeOK /\ References /\ Watched /\ Limited
MinimumInv == DayInv /\ Reaching /\ DayMinimum
================================================================================
