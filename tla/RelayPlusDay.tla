----------------------------- MODULE RelayPlusDay -----------------------------
(***************************************************************************)
(* RelayPlus: a minimum and a maximum running time of the relay per day.   *)
(* The ESP compares the running time the Nano reports with a reference     *)
(* taken at relayPlusHour, and sends requests: AUTO at the reference, STOP *)
(* at the maximum, and, when the rest of the day is just long enough to    *)
(* reach the minimum, a FORCE of the length that is missing.               *)
(*                                                                         *)
(* Time is counted in minutes: timeScheduler and the RelayPlus part of     *)
(* eachSecondTasks run once in a minute, and the Nano counts the time of   *)
(* the relay in minutes.  A request is served within the minute, or lost   *)
(* if the Nano is in fatalError.                                           *)
(***************************************************************************)
EXTENDS Integers

CONSTANTS
  DAY,           \* minutes from one reference to the next, 1440
  Lengths,       \* what the days really last: DAY, 60 less or 60 more
  COUNTDOWN,     \* relaisPlusCountDown at the reference, 1430
  LEAST,         \* smallest minimum, and least distance to the maximum, 5
  Minima, Maxima,  \* RelayPlus_min and RelayPlus_max as they are received
  MaxLate,       \* bound on the minutes one of the two boards misses in a day
  MaxDays        \* bound on the number of complete days

ASSUME DayAssumption ==
  /\ DAY \in Nat \ {0} /\ Lengths \subseteq Nat \ {0, 1}
  /\ COUNTDOWN \in Nat /\ COUNTDOWN <= DAY
  /\ LEAST \in Nat \ {0} /\ Minima \subseteq Nat /\ Maxima \subseteq Nat
  /\ MaxLate \in Nat /\ MaxDays \in Nat \ {0}

VARIABLES
  day, minute, length,   \* the day, the minutes since its reference, how long it lasts
  due,                   \* what the ESP has to do in this minute: "init", "check"
  limits,                \* relayPlusMin and relayPlusMax
  relayPlusActive,
  relaisPlusIndex, relaisPlusCountDown,
  stats,                 \* ecoPVStats[INDEX_RELAY]: the Nano's index, sent every second
  nano,                  \* "up", or "down" in fatalError
  relayMode, relayplusTime,
  on,                    \* history: minutes the relay was on since InitDay
  late,                  \* history: minutes one board missed since the reference
  upset,                 \* history: what else happened since the reference
  chosen                 \* history: the user asked for a mode since InitDay

calendar == <<day, minute, length>>
config == <<limits, relayPlusActive>>
plus == <<relaisPlusIndex, relaisPlusCountDown>>
relay == <<relayMode, relayplusTime>>
history == <<on, late, upset, chosen>>
dayVars == <<calendar, due, config, plus, stats, nano, relay, history>>

Modes == {"STOP", "FORCE", "AUTOM"}

\* A day is "quiet", or the Nano was restarted, or more happened to it.
Disturb(kind) == upset' = IF upset = "disturbed" THEN upset ELSE kind

\* The limits configRead keeps of the ones it receives.
Limits(min, max) ==
  LET least == IF min <= LEAST THEN LEAST ELSE min
  IN [min |-> least, max |-> IF max <= least THEN least + LEAST ELSE max]

AllLimits == {Limits(min, max) : min \in Minima, max \in Maxima}
--------------------------------------------------------------------------------
(* The Nano *)

\* PVRScheduler: the timer of RelayPlus, whose end stops the relay.
Timer ==
  /\ relayplusTime' = IF relayplusTime >= 0 THEN relayplusTime - 1 ELSE relayplusTime
  /\ relayMode' = CASE relayplusTime = 0 -> "STOP"
                    [] relayplusTime > 0 -> "FORCE"
                    [] OTHER -> relayMode

\* A minute of the loop: in AUTOM the surplus decides (module Diversion).  The
\* index is in STATS, every second.
Running ==
  /\ nano = "up"
  /\ Timer
  /\ \E running \in {0, 1} :
       /\ relayMode' = "FORCE" => running = 1
       /\ relayMode' = "STOP" => running = 0
       /\ stats' = stats + running
       /\ on' = on + running
  /\ UNCHANGED late

\* A minute of fatalError: the relay is off and nothing is sent.
Stopped ==
  /\ nano = "down" /\ late < MaxLate
  /\ late' = late + 1
  /\ UNCHANGED <<relay, on, stats>>

\* Time passes.  The scheduler runs every 59.654 s: it may find the minute of
\* the reference twice.
Minute ==
  /\ due = {} /\ day <= MaxDays
  /\ Running \/ Stopped
  /\ IF minute + 1 < length
       THEN /\ minute' = minute + 1
            /\ due' \in {{"check"}} \cup (IF minute = 0 THEN {{"check", "init"}} ELSE {})
            /\ UNCHANGED <<day, length>>
       ELSE /\ day' = day + 1
            /\ minute' = 0 /\ length' \in Lengths
            /\ due' = {"check", "init"}
  /\ UNCHANGED <<config, plus, nano, upset, chosen>>

\* fatalError, or RESET: modes are reset when it ends, the timer is not.
NanoStops ==
  /\ nano = "up"
  /\ nano' = "down"
  /\ Disturb("restarted")
  /\ UNCHANGED <<calendar, due, config, plus, stats, relay, on, late, chosen>>

NanoStarts ==
  /\ nano = "down"
  /\ nano' = "up"
  /\ relayMode' = "AUTOM"
  /\ UNCHANGED <<calendar, due, config, plus, stats, relayplusTime, history>>

\* INDX0.
ResetIndex ==
  /\ nano = "up"
  /\ stats' = 0
  /\ Disturb("disturbed")
  /\ UNCHANGED <<calendar, due, config, plus, nano, relay, on, late, chosen>>
--------------------------------------------------------------------------------
(* The requests of the ESP, which are lost while the Nano is in fatalError *)

Lost == nano = "down" /\ UNCHANGED relay

relayModeEcoPV(mode) ==
  \/ nano = "up" /\ relayMode' = mode /\ relayplusTime' = -1
  \/ Lost

\* The Nano keeps the duration between 0 and 86400 s.
SETRELPLUS(minutes) ==
  /\ nano = "up" /\ UNCHANGED relayMode
  /\ relayplusTime' = IF minutes < 0 THEN 0 ELSE IF minutes > DAY THEN DAY ELSE minutes

relayPlusEcoPV(minutes) == SETRELPLUS(minutes) \/ Lost

Unheard == IF nano = "down" THEN "disturbed" ELSE upset
--------------------------------------------------------------------------------
(* The ESP *)

\* timeScheduler, in the minute after relayPlusHour; minute 1 is its second call
\* in that same minute.
InitDay ==
  /\ "init" \in due
  /\ due' = due \ {"init"}
  /\ IF relayPlusActive
       THEN /\ relaisPlusIndex' = stats
            /\ relaisPlusCountDown' = COUNTDOWN
            /\ relayModeEcoPV("AUTOM")
       ELSE UNCHANGED <<plus, relay>>
  /\ chosen' = (chosen /\ ~relayPlusActive /\ minute = 1)
  /\ on' = 0
  /\ LET kind == IF relayPlusActive /\ nano = "up" THEN "quiet" ELSE "disturbed"
     IN IF minute = 0 THEN late' = 0 /\ upset' = kind
                      ELSE UNCHANGED late /\ Disturb(IF kind = "quiet" THEN upset ELSE kind)
  /\ UNCHANGED <<calendar, config, stats, nano>>

Check == "check" \in due /\ due' = due \ {"check"}
Watching == relayPlusActive /\ relaisPlusIndex >= 0 /\ relaisPlusCountDown >= 0
Elapsed == stats - relaisPlusIndex

NotWatching ==
  /\ Check /\ ~Watching
  /\ UNCHANGED <<calendar, config, plus, stats, nano, relay, history>>

\* Mutant: the relay is left in automatic mode.
AtMaximum_Auto ==
  /\ Check /\ Watching
  /\ Elapsed >= limits.max
  /\ relaisPlusCountDown' = -1
  /\ relayModeEcoPV("AUTOM")
  /\ Disturb(Unheard)
  /\ UNCHANGED <<calendar, config, relaisPlusIndex, stats, nano, on, late, chosen>>

\* The relay has run for the maximum.
AtMaximum ==
  /\ Check /\ Watching
  /\ Elapsed >= limits.max
  /\ relaisPlusCountDown' = -1
  /\ relayModeEcoPV("STOP")
  /\ Disturb(Unheard)
  /\ UNCHANGED <<calendar, config, relaisPlusIndex, stats, nano, on, late, chosen>>

\* Mutant: a minute less than what is missing is asked for.
TopUp_Short ==
  /\ Check /\ Watching
  /\ Elapsed < limits.max /\ relaisPlusCountDown - 1 <= limits.min - Elapsed
  /\ relaisPlusCountDown' = -1
  /\ relayPlusEcoPV(limits.min - Elapsed - 1)
  /\ Disturb(Unheard)
  /\ UNCHANGED <<calendar, config, relaisPlusIndex, stats, nano, on, late, chosen>>

\* What is left of the day is what is missing to the minimum.
TopUp ==
  /\ Check /\ Watching
  /\ Elapsed < limits.max /\ relaisPlusCountDown - 1 <= limits.min - Elapsed
  /\ relaisPlusCountDown' = -1
  /\ relayPlusEcoPV(limits.min - Elapsed)
  /\ Disturb(Unheard)
  /\ UNCHANGED <<calendar, config, relaisPlusIndex, stats, nano, on, late, chosen>>

CountDown ==
  /\ Check /\ Watching
  /\ Elapsed < limits.max /\ relaisPlusCountDown - 1 > limits.min - Elapsed
  /\ relaisPlusCountDown' = relaisPlusCountDown - 1
  /\ UNCHANGED <<calendar, config, relaisPlusIndex, stats, nano, relay, history>>

EachMinute == NotWatching \/ AtMaximum \/ TopUp \/ CountDown

\* The loop of the ESP misses seconds, as many as a minute in all.
LoseMinute ==
  /\ Check
  /\ late < MaxLate
  /\ late' = late + 1
  /\ UNCHANGED <<calendar, config, plus, stats, nano, relay, on, upset, chosen>>

\* Mutant: RelayPlus goes on.
Manual_KeepsRelayPlus ==
  /\ \E mode \in Modes : relayModeEcoPV(mode)
  /\ chosen' = TRUE
  /\ Disturb("disturbed")
  /\ UNCHANGED <<calendar, due, config, plus, stats, nano, on, late>>

\* The user asks for a mode of the relay, on the web page or by MQTT.
Manual ==
  /\ \E mode \in Modes : relayModeEcoPV(mode)
  /\ chosen' = TRUE
  /\ relaisPlusIndex' = -1
  /\ Disturb("disturbed")
  /\ UNCHANGED <<calendar, due, config, relaisPlusCountDown, stats, nano, on, late>>

\* The user changes the configuration of the ESP.
Configure ==
  /\ limits' \in AllLimits
  /\ relayPlusActive' \in BOOLEAN
  /\ Disturb("disturbed")
  /\ UNCHANGED <<calendar, due, plus, stats, nano, relay, on, late, chosen>>

\* The ESP restarts; its variables are initialised, its configuration is read.
Reboot ==
  /\ relaisPlusIndex' = -1 /\ relaisPlusCountDown' = -1
  /\ Disturb("disturbed")
  /\ UNCHANGED <<calendar, due, config, stats, nano, relay, on, late, chosen>>
--------------------------------------------------------------------------------
DayInit ==
  /\ day = 1 /\ minute = 0 /\ length \in Lengths /\ due = {"init"}
  /\ limits \in AllLimits /\ relayPlusActive = TRUE
  /\ relaisPlusIndex = -1 /\ relaisPlusCountDown = -1
  /\ stats = 0
  /\ nano = "up" /\ relayMode = "AUTOM" /\ relayplusTime = -1 
  /\ on = 0 /\ late = 0 /\ upset = "disturbed" /\ chosen = FALSE

DayNext == \/ Minute \/ NanoStops \/ NanoStarts \/ ResetIndex
           \/ InitDay \/ EachMinute \/ LoseMinute \/ Manual \/ Configure \/ Reboot

DaySpec == DayInit /\ [][DayNext]_dayVars
================================================================================
