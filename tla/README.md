# A TLA+ model of MaxPV

MaxPV diverts the surplus of a photovoltaic installation into a resistive load (a water
heater). It is two programs on two boards:

* **EcoPV3** (`src/EcoPV3/EcoPV3.ino`, an ATmega328P, "the Nano") measures the mains with
  interrupts, regulates the power sent through an SSR half-cycle by half-cycle, drives a
  second relay, counts energy and pulses and talks over a serial line.
* **MaxPV3** (`src/MaxPV3/MaxPV3.ino`, an ESP8266, "the ESP") serves the web pages, MQTT
  and the timers of the day, and sends requests to the Nano over that line. Its web server
  is ESPAsyncWebServer on ESPAsyncTCP, of which the repository keeps a copy
  (`src/Librairies IDE/`).

The specifications follow the code; the French comments and the READMEs are quoted only
where the code does something else (section *Divergences*).

## Inventory

| Component | State it keeps | Operations | Modules |
|---|---|---|---|
| PI regulator (Nano) | `controlIntegral`, `lastControlError`, `controlCommand`, `P_SETPOINT`, gains, `triacMode` | the end of each half-cycle in `zeroCrossingInterrupt`; SETPARAM, SETSSR, restarts | `Regulator`, `Parameters` |
| SSR pulse (Nano) | SSR pin, Timer1 (`TCCR1B`, `TCNT1`, `OCR1A`), interrupt flags, `coldStart` | INT1, TIMER1_COMPA, TIMER1_OVF, `stopPVR`, `startPVR` | `SsrPulse`, `EnergyToDelay` |
| Statistics transfer (Nano) | `I_*` accumulators, `stats_*` copies, `stats_ready_flag`, `error_status`, `stats_error_status` | hand-over in two interrupts, processing in `loop`, the two-second check | `StatsTransfer`, `Mailbox` |
| Diversion and timers (Nano) | relay pin, `relayMode`, `triacMode`, `Div2_On_cnt`, `Div2_Off_cnt`, `boostTime`, `burstCnt`, `relayplusTime` | the decision of each second, SETRELAY, SETSSR, SETBOOST, SETRELPLUS, restarts | `Diversion` |
| Router lifecycle (Nano) | whether the mains are there, `coldStart`, `hasRestarted`, `refTime` | `setup`, `loop`, `fatalError`, RESET, FORMAT | `Lifecycle` |
| Pulse counter (Nano) | `indexImpulsion`, `deltaTimeImpulsion`, Timer2, pin | INT0, TIMER2_COMPA, TIMER2_OVF, the power of the pulses | `PulseCounter` |
| EEPROM (Nano) | configuration with magic number and version, five indexes | `eeConfigRead/Write`, `indexRead/Write`, INDX0, FORMAT, SAVECFG, LOADCFG | `Storage` |
| UpTime and scheduler (Nano) | `secondsOnline`, `minutesOnline`, `hoursOnline`, `PVRClock` | `upTime`, `PVRScheduler` | `Storage`, `Link`, `Diversion`, `PulseCounter` (partly) |
| Serial requests (Nano) | receive buffer | `serialRequest`, `clearSerialInputCache` | each request in the module of what it changes |
| Energies and units (Nano) | floating point accumulators | `loop` | not modelled |
| LEDs, display, temperature (Nano) | outputs, `temperatureECS` | `PVRLed`, `oLedPrint`, `temperatureRead` | `Link` (temperature) |
| ESP boot | contact, parameters and version received | `setup` | `Link`, `EspConfig` |
| ESP loop, flags, tickers | `shouldCheck*`, `shouldSave*`, `shouldRead*`, reboot flags | `loop`, `setTsTasks`, `eachSecondTasks` | `EspTasks`, `EspConfig`, `Link` (partly) |
| ESP serial protocol | `ecoPVStats`, `ecoPVConfig` | `serialProcess`, `getAllParamEcoPV`, ... | `Link` |
| BOOST (ESP and Nano) | `boostTime` of both, temperature limit | `boostON`, `boostOFF`, SETBOOST, BOOSTTIME | `Link` |
| RelayPlus of a day (ESP, Nano) | `relaisPlusIndex`, `relaisPlusCountDown`, limits; `relayplusTime`, `indexRelayOn` | `timeScheduler`, `eachSecondTasks`, `relayModeEcoPV`, `relayPlusEcoPV` | `RelayPlusDay` |
| ESP configuration | `config.json` and its variables | `configRead/Write`, `rebootESP`, `/api/set`, `/api/action` | `EspConfig` |
| Remote relay | `relaisDistantPreviousState` | `eachSecondTasks`, `remoteRelay` | `EspTasks` |
| Wifi watchdog | `refTimePingWifi`, `shouldCheckWifi` | `watchDogWifi`, ping callbacks | `EspTasks` |
| MQTT | the client, its timer, what the broker retains | `mqttConnect`, `onMqttConnect`, `onMqttDisconnect`, `mqttTransmit` | `EspMqtt` |
| History ring | `energyIndexHistoric`, `historyCounter` | `initHistoric`, `recordHistoricData`, `/api/history` | `EspTasks` |
| TCP client | pcb, buffers, timeouts, error tracker | the callbacks of lwIP, `write`, `close`, `abort` | `AsyncClient` |
| Web server | request, response, handlers | parsing, dispatch, responses on acknowledgements and polls | `WebRequest`, `Multipart`, `WebServer` |
| Web pages, `amorceESP` | | | not modelled |

How they interact: interrupts of the Nano preempt its `loop` and share the `stats_*`
copies and the status bytes with it; the zero crossing writes the timer that two other
interrupts serve; `loop`, `serialRequest` and `PVRScheduler` run one after the other in
one thread and all write the modes; `fatalError` and RESET stop and restart everything
below `loop`. The ESP sees the Nano only through messages that may be late, read together
or lost. Its web and MQTT callbacks run between (and inside the `yield`s and `delay`s of)
the steps of its loop. lwIP calls the clients of the web server one callback at a time,
and keeps a pointer to each.

What is hard: interrupts pending across a zero crossing; a window handed over in two parts
while the loop is late; windows lost; three timers and the user writing two modes;
restarts that reset part of the state; messages and acknowledgements that cross each
other; resets of either board in the middle of a write; callbacks that delete the object
they were called on; responses that go on piece by piece as the window opens; peers that
vanish. Each is listed at its line under `hazards` in `PROJECT.json`, with the properties
that are about it.

## Modules

| Module | Part | Properties | Run | Proofs |
|---|---|---|---|---|
| `Regulator`, `Parameters` | PI regulator, limits of SETPARAM | `RegulatorProps`, `MC_Regulator` | `regulator`, `regulator_windup` | `ControlProofs` |
| `SsrPulse`, `EnergyToDelay` | SSR pulse, table of delays | `SsrPulseProps`, `MC_SsrPulse` | `ssr` | `SsrPulseProofs` |
| `StatsTransfer` | statistics transfer | `StatsTransferProps`, abstract `Mailbox` | `stats` | `StatsTransferProofs` |
| `Diversion` | relay, BOOST and RelayPlus timers | `DiversionProps` | `diversion` | `NanoTimersProofs` |
| `Lifecycle` | loop, alarm, restarts, requests | `LifecycleProps` | `lifecycle` | `LifecycleProofs` |
| `PulseCounter` | pulses of the meter | `PulseCounterProps` | `pulses` | `NanoTimersProofs` |
| `Storage` | EEPROM, hourly save | `StorageProps` | `storage` | `StorageProofs` |
| `RelayPlusDay` | RelayPlus of a day, both boards | `RelayPlusDayProps` | `relayplus` | `ControlProofs` |
| `Link` | serial line, setup of the ESP, BOOST, parameters | `LinkProps` | `link` | `LinkProofs` |
| `EspConfig`, `EspMqtt`, `EspTasks` | configuration file, MQTT, tasks of the ESP; each extends the one before | `EspTasksProps` | `esp` | `EspTasksProofs` |
| `AsyncClient`, `Multipart`, `WebRequest`, `WebServer` | the web server; `WebServer` composes them | `WebServerProps`, `MC_WebServer` | `web` | |

Operators named `X_Something` just before `X` are the deliberate mistakes that show that a
property can fail (`mutants` in `PROJECT.json`); no specification uses them. The type
invariant of a module (`TypeOK`) is a part of the first property of its run, or of the
invariant that is proved.

`ControlProofs` and `NanoTimersProofs` each hold the proofs of two parts that share no
state: hence the names `DayInit`, `DayNext`, `dayVars` in `RelayPlusDay` and `LoadsInit`,
`LoadsNext`, `loadsVars` in `Diversion`.

### Regulator

One action per event: `HalfCycle` (a crossing in normal operation, with any measured
`periodP`), `ColdStart` (a crossing of the warm-up), `Restart`, `SetGain`, `SetTriacMode`.
The three branches of the code are `Idle`, `Linear` and `Saturated`. Shifts of negative
numbers are arithmetic on avr-gcc, so they are floor divisions; every store in a `long`
wraps around (`long`).

`Parameters` is the table of the parameters with their limits and what SETPARAM makes of a
value: the number is cut to the 16 bits of an `int` before the limits are applied, and the
result is within them all the same. TLC checks the same on the numbers around the limits
of each type (`SetParamAssumption`).

*Run `regulator`.* `SumFitsLong` says that the PI sum of any next half-cycle fits in a
long. SETPARAM changes the gains over their whole range at any time, and leaves the
integral as it is, so that this is false (see *Divergences*). `leastI` and `mostI`
remember the least and the largest `GAIN_I` since the warm-up, which sets the integral to
0; `Capacity ( leastI, mostI )` says that an integral which the first can have wound up
still fits with the second. `NoOverflow` is `SumFitsLong` under `Capacity`: an overflow
takes a `GAIN_I` that was raised by more than `Capacity` allows. `LargeImportStopsRouting`
(liveness): an import that lasts and that outweighs the largest swing of the proportional
term (`ImportOutweighs`) stops the routing, while `GAIN_I` is the one that wound the
integral up: without that condition TLC finds a larger `GAIN_I` that keeps the command at
full power for ever, during any import. Bounds: division by 2 and 4 for 64 and 16384, full
power 3 for 255, `GAIN_I` 0..3 and `GAIN_P` 0..1, powers of -5..5; all three branches, the
floor, the ceiling and both signs of the rounding occur. A long has 116 values: `GAIN_I`
may go from 1 to 2 and from 2 to 3 within `Capacity`, not from 1 to 3, nor from 0, and
with `SumFitsLong` in the place of `NoOverflow` TLC finds the overflow in 12 states.

*Run `regulator_windup` (violation)*: `ImportLeavesFullPower`, see *Divergences*.

*Proofs.* `TypeCorrect`, `IntegralStaysBounded` and `NeverOverflows`, for all constants
and for gains that change over their whole range. The argument: the ceiling holds because
the integral only grows in the linear branch, where the sum is at most full power, hence
the integral at most `((MaxCommand + 1) * CommandDiv + Swing) \div leastI`, `Swing` being
the largest weight of the proportional term; the floor holds because below it the sum is
negative whatever the proportional term, so that `Idle` applies the reserve. Both need
that nothing wraps, which follows from the bounds themselves under `Capacity`; the two are
proved together, as one invariant, and a smaller `GAIN_I` only widens the bounds.
`CodeCapacity` says what `Capacity` is for the code, for any reserve within its limits and
any power the ADC can measure: it holds for `1 <= least <= most <= 1000` and `most * (16 +
2 * GainPMax) <= 5000 * least`. With the default `GAIN_P` of 8 at most, `GAIN_I` may be
raised by a factor of 156; with any `GAIN_P` that SETPARAM accepts, by a factor of 2. The
proof is in units of 2^18, since the literals of the code, up to 2^31, are beyond the
prover. `ParameterInRange`: what SETPARAM stores is within the limits of the parameter,
whatever number it is given. Fairness: the mains keep crossing zero, without which no
regulator does anything; nothing is assumed of requests.

### SsrPulse

Interrupt requests are flags in `pending`; `Requests` are those that are not masked. A
routine runs when its flag is the one of highest priority (INT1, then TIMER1_COMPA, then
TIMER1_OVF) and clears it; the main program runs only when there is none. `Tick` is 64 us,
one count of Timer1. `Cross` is the mains or noise. `stopPVR` is three actions,
`StopCrossings`, `StopTimer`, `StopSsr`, since interrupts stay enabled between them.
`startPVR` runs with interrupts disabled up to `interrupts ( )` (`Start`) and then waits
for the warm-up (`EnterLoop`).

*Run `ssr`.* `OffUnlessCommanded`: the SSR is on only when the last crossing asked for
power. `PulseInHalfCycle`: a pulse begins at its delay and its end belongs to the same
half-cycle. (`OffUnlessCommanded` also covers the stop and the warm-up, whatever was
pending.) `DeliversCommand`: each command is delivered by one activation, neither zero nor
two. `LostMeansOff` (liveness): without mains the SSR ends up off, FORCE included, because
the two second check ends in `stopPVR`. Bounds: three delays, a counter of 21 values,
noise up to `MinGap`; a crossing may come at any tick from `EarliestCross` on, or never.
That includes crossings later than nominal, pending matches at every point, and all modes.

`EnergyToDelay` is the real table of 256 delays. `MC_SsrPulse` checks what the model takes
for granted of the delays it uses: the pulse of each command above 0 begins after the
crossing and before its end (`DelaysAssumption`), and more power never means a later pulse
(`OrderAssumption`).

*Proofs.* `PulseInv` is inductive: it relates timer, counter, pending flags, SSR, command
and `shots`, case by case of where the half-cycle is. It needs that the mains cross after
the end of the pulse (`EarliestCross > PULSE_END + 1`, hypothesis of the theorems), which
a stable 50 Hz gives: 10 ms against 9.5 ms. `NeverOnUncommanded`, `PulseEndsInTime` and
`EachCommandDelivered` follow for every delay table and counter width. Fairness: time
passes, interrupts that are pending are served, the loop goes on.

### StatsTransfer

Windows of `HALVES` half-cycles carry a number, and each accumulator remembers the numbers
of the windows that contributed to it, so that mixing two windows is visible. `HandOver`
(zero crossing: power, count and status) and `Adc` (the ADC interrupt: energies) are the
two parts of one hand-over; the loop is a sequence of actions between which interrupts
run: the check of the two seconds, `ReadStatus` and `WriteStatus` (the read-modify-write
of the status byte), `ReadSums`, `Report`, `Free`, `NextPass` or `Restart`.

*Run `stats`.* `ReportsOneWindow`: a STATS message is about one whole window.
`AnomalyReported`: the anomalies it reports are those of that window. `ImplementsMailbox`:
the whole is a mailbox of one place (`Mailbox`), windows being processed in order, at most
once, and none staying in it for ever. Bounds: windows of two half-cycles instead of 100,
so that first, middle and last half-cycle are distinct; four windows; a pass of the loop
may last as long as it likes up to two windows (`PassWindows`), hence a window is dropped
entirely.

`LossStopsRouter`: a pass that noticed the loss of the mains ends in `fatalError`. It is
stated for passes during which at most one window ends: a second one can overwrite the
major bit with a hand-over, but then the mains are back, so that nothing harmful is lost.

*Proofs.* `StatsInv` says what each accumulator holds at each value of the flag: the
running sums are those of the window being measured (`Measuring`), the copies are whole as
soon as the flag is set, but for the energies, which the ADC interrupt still has to move
while it is 9 (`Transfer`), and what the loop has read is what the copies still hold
(`Processing`): neither interrupt touches them while the flag is set. `WholeWindows`,
`AnomaliesShown` and `LossNotForgotten` follow for every length of the windows and of the
pass. `MailboxImplemented` shows step by step that the transfer implements the safety part
of `Mailbox`: `HandOver` puts, `Free` takes, `Restart` clears, everything else stutters.
That no window stays in the mailbox for ever (`FairSpec`) is checked only.

Fairness: the loop and the ADC interrupt go on.

### Diversion

One `Second` is the code that runs when a window has been processed: the relay
(`RelaySecond`), then BOOST and RelayPlus of `PVRScheduler`. The comparisons of the powers
with their thresholds are inputs. The requests run between two seconds. `Restart` resets
the modes and the relay, and, like the code, no counter and no timer.

*Run `diversion`.* `LastRequestWins`: the mode of a load is what the last request, or the
timer it started, asked for; no timer overrides a later request. `MinimumTimes`
(`MinimumOn` and `MinimumOff`): a relay switched on by the surplus stays on for
`T_DIV2_ON` before an import switches it off, and a relay that an import switched off
stays off for `T_DIV2_OFF` before the surplus switches it on, across manual periods and
restarts. (The switch-off of a restart or of a manual mode does not arm `T_DIV2_OFF`.)
`SurplusServed` (liveness): a surplus that lasts switches the relay on, whatever the
counters were left at. `DiversionInv` is what the proofs use. Bounds: 2 and 3 s for the
minimum times and 3 s for the modulation instead of minutes, so that each counter expires
before, with and after each other.

*Proofs.* For all durations and thresholds: `DiversionInvariant`, then
`TimesNeverTogether` (the two minimum times never run together, and the relay is off while
the second one runs), `LastRequestDecides` and `MinimumTimesKept`. The invariant ties each
counter to the age of the last switching that set it. Fairness: seconds go by.

### Lifecycle

A `Tick` is a second. The pass of the loop is `Check` (the timeout), `Stats`,
`ServeQuick`, `ServeFormat` or `ServeReset` for at most `SALVE` requests, `Served`, then
`FatalError` or `NextPass`; `startPVR` is `StartPVR` and the wait `WarmedUp`. `Lose` and
`Return` come anywhere between; a second in which the mains were missing for a part ends a
window or not. A pass sees at most one tick, unless FORMAT, `fatalError` or the warm-up
blocks it.

*Run `lifecycle`.* `StopsInTime`: after a loss of the mains the loads are not left alone
for longer than `TIMEOUT` and four passes, the time of FORMAT not counted. `NoFalseAlarm`:
the major error means that the mains were missing since the last statistics, or in the
second of those, or that a FORMAT came. `AlarmDropsRequests`: what arrives during
`fatalError` is never carried out (what arrives during a RESET may be: the rest of the
salve is still read after it). `RunsAgain` (liveness): once the mains are there for good,
and without FORMAT, there are no more alarms and the router runs. Bounds: the timeout is
the real one in seconds, the 20 s of the alarm are 2 and the salve is 2, with three places
in the serial buffer so that a request may be left over. Fairness: time passes and the
loop goes on; nothing is assumed of the mains or of the requests.

*Proofs.* The properties are about durations, and none is inductive: a check that passes
says nothing of the seconds that follow it. `LifecycleInv` counts what the steps up to the
next check can add. `Dark`: the window that was under way when the mains went is processed
in the pass after, or in the next one, so that `refTime` lags the loss by two seconds at
most, and the check that finds the timeout over may be two passes away. `Fed`: while the
mains are there, each second since `refTime` has left a window, hence `since` is at most
the second of this pass and the one of the pass before. `Alarms`: requests of an alarm are
in the buffer until the first pass after it throws them away. `LoadsStopInTime` and
`AlarmRequestsDropped` hold for every timeout, alarm and buffer. `NoFalseMajor` needs
`TIMEOUT > 1`: with one second a single slow pass is a false alarm, as TLC shows; the code
has 2010 ms (601). TLC checked `LifecycleInv` with timeouts of 1, 2 and 3.

### RelayPlusDay

Both boards on the scale of the minute. `Minute` is a minute of the Nano (its timer, the
relay, the index that STATS reports), or of `fatalError`; `due` is what the ESP then has
to do: `InitDay` in the minute of the reference, and again if the scheduler, whose period
is 59.654 s, finds that minute twice; `NotWatching`, `AtMaximum`, `TopUp` or `CountDown`
in each minute, or `LoseMinute` if its loop missed the run of its tasks that this counts
on (1352). Requests take effect within the minute or are lost while the Nano is in
`fatalError`. In AUTO the relay may run or not in any minute. `Manual`, `Configure`,
`Reboot`, `ResetIndex`, `NanoStops` and `NanoStarts` come at any point. STATS arrive each
second, so that `stats` is the index itself.

*Run `relayplus`.* `DayMinimum`: at the end of a day that nobody disturbed the relay has
run for the minimum, however the surplus was spread, even with a minute missed, a restart
of the Nano and a reference taken late; disturbances are named by `Disturb` (the user, the
configuration, a reboot of the ESP, INDX0, a request lost). `DayMaximum`: while RelayPlus
watches, the relay does not run beyond the maximum but for the minutes that the ESP
missed. `ManualStopsRelayPlus`: after a choice of the user no check sends anything.
Bounds: days of 8 minutes with a countdown of 5, in the place of 1440 and 1430: the margin
is what the two boards may miss, one second call and one minute (`MaxLate`), plus one; two
pairs of limits, so that the top-up begins at different minutes; two days, so that the
second begins from whatever the first left. `DAY - COUNTDOWN` must exceed what is missed,
as 10 exceeds it in the code.

*Proofs.* `DayInv`: unless the day is disturbed, the difference the ESP computes is what
the relay has run (`Watched`), and the relay is below the maximum, stopped, or on a timer
that ends below it, until the countdown is over (`Limited`). From it `MaximumKept` and
`ChoiceKept`, for all lengths of days, countdowns and limits, and that no request is for
more than a day (the type of `relayplusTime`). `MinimumReached` needs `Reaching`: what is
missing to the minimum stays below the countdown, which lags the clock by no more than the
minutes missed and one for a reference taken twice; once the top-up is asked for, the
timer lasts for what is missing, and the day for that and for all that may still be
missed. Its hypothesis, `DaysSuffice`: each day is longer than `COUNTDOWN + MaxLate`, and
each minimum is less than `COUNTDOWN`. In the code 1440 minutes and 1430: nine minutes may
be missed, and the 1380 minutes of the day of the change to summer time do not suffice.
The code bounds the minimum from below only (701); one of 1430 minutes or more is outside
the theorem.

### PulseCounter

A `Tick` is a fraction of the 16 ms of Timer2. The contact of the meter closes, bounces,
stays closed and opens (`Close`, `Bounces`, `Settle`, `Release`), `Noise` pulls the pin
low for less than the compare time; `pulseExternalInterrupt`, `Compare` and `Overflow` are
INT0 and the two interrupts of Timer2, served in the order of their priority but with
edges that come before, between and after them. `PulsePower` is what the scheduler makes
of the intervals every two seconds; an interval is a name, so that equal and different
ones occur. `Stop` and `Start` are `stopPVR` (which leaves Timer2 alone) and `startPVR`.

*Run `pulses`.* `CountedOnce`: a pulse is counted once, and noise never. `PowerIsCurrent`:
two minutes after the last pulse the power is 0, and the interval that ends a silence
never becomes a power. What is assumed of the meter: its contact bounces for less than 8
ms, stays closed for more than 16 ms and interrupts are served within a tick; noise is
shorter than 8 ms. Bounds: 4 and 8 ticks for the two times of Timer2, the longest bounce
and spike one tick shorter than the first; two intervals. After a stop the history starts
anew, since a pulse may be lost and noise be counted then.

*Proofs.* `CounterInv`, one case for each place of the contact: with the contact open what
is low past the compare match has just fallen, since a spike is shorter than the match
(`OpenContact`); while it opens, Timer2 is no older than the bouncing (`OpeningContact`);
while it closes, Timer2 runs or INT0 is pending (`ClosingContact`); closed, either the
pulse is counted or Timer2 is at least as old as the contact, so that the overflow comes
before it opens (`ClosedContact`). `PulsesCountedOnce` and `PowerStaysCurrent` follow for
every setting of Timer2 and every meter and noise that respect `PulseAssumption`.

### Storage

`EEPROM.put` is a `job` of cells that `WriteCell` writes one by one; `PowerFails` comes
between any two, and all of them are those of the code's order: the configuration from its
magic number on, each index from its low byte on. A cell is written whole or not at all.
`Setup` and `indexRead` are the start; `Window` and `LoseWindow` are windows that the loop
processes in time, late, or not at all; the requests are those that read or write the
EEPROM; `Restart` is RESET or `fatalError`, after which the windows begin anew while
`PVRClock` goes on. `Pulse` counts at any time, also while the indexes are written.

The configuration is seven cells: two of magic number, one of version, and two for each of
two parameters, one of version 1 and one of version 2; they stand for the sixteen of the
code. `torn` counts the failures that cut a parameter between its two cells since the last
configuration that was written whole with parameters within their limits.

*Run `storage`.* `NeverAhead`: no start finds an index above what was counted, except
after a reset of the indexes that was cut short. (A carry from byte to byte that is cut
short loses up to 255 counts; writing the high byte first would add as many.)
`HourlySave`: while no window is lost, the indexes in the EEPROM are an hour old at most.
`ConfigValid`: no more parameters in use are outside their limits than were cut between
their cells: a failure damages the parameter that was half written and no other, whatever
saves, readings, erasures and failures came before. A first configuration is excepted, for
the magic number comes first and what follows it is anything. That the parameters in use
are always within their limits (`ParamsInLimits`) is false of the code; in the place of
`ConfigValid` TLC finds the torn parameter in 11 states. Bounds: bytes of three values,
parameters of 2 and 3, which differ in both cells, and indexes of two bytes up to 3, so
that a carry occurs in the index that goes on while it is written; the one of the loop
counts to 1; hours of two seconds of two cycles. The EEPROM of a new Nano, all ones, is
not modelled: the magic number is then absent.

*Proofs.* A write in progress is described by the table of indexes it started from and by
how many of its cells are written (`IndexesUpTo`, and `ConfigUpTo`, `FormatUpTo` for the
other two jobs): the low byte of a new value with the high byte of an older one is never
above the new value, nor is the old value. `Seconds` bounds what was counted since the
save by the position of `PVRClock` in its hour. From `StorageInv`, `IndexesNeverAhead` and
`IndexesHourly` for every width of a cell, every limit below two of them, every number of
cycles and every hour, wherever the power fails. `ConfigInUseValid` has an invariant of
its own (`ConfigInv`): what the EEPROM would make of the configuration is damaged in
`torn` parameters at most (`Kept`), and a configuration that is half written is the new
one up to the parameter that is being written and the old one from the next on
(`HalfWritten`). Its hypothesis is that no configuration of version 1 is found: with one
the property is false, see *Divergences*.

### Link

Both boards and the line between them, second by second. A message of the Nano has its `#`
or lacks it; `ReadLen` is what one `readStringUntil ( '#' )` returns, and `serialProcess`
of the ESP takes the first message of it, as the code does. `Phases` is the setup of the
ESP: contact, parameters, version, statistics; each phase ends with whatever message
comes. Then the setup is `"ending"`: the history, the tickers, the web server, the remote
relay and mDNS (464-530) take `ENDING` seconds at most, in which messages come but are
thrown away by the last `clearSerialInputCache`, while the web server already answers
(`SetupDone`, `Served`). `boostON`, `boostOFF`, the limit of the temperature, the reports,
SETBOOST and SETSSR are BOOST; `shouldReadParams` (`read`) and the periodic reading are
the parameters. The Nano answers nothing while it is busy (`task`: RESET, FORMAT), and
drops its input after a restart. The disturbances, at most `EVENTS` of them: requests of
users, new configurations, damaged requests, starts of either board, changes of
temperature, ends of RelayPlus.

*Run `link`.* Once nothing disturbs any more (`calm`): `SetupEnds`, the ESP is in its loop
when more than `SETUP` seconds, `2 + ENDING`, went by; `BoostAgrees`, the boards agree on
whether BOOST runs after one period of the reports, the seconds of a setup and two more;
`OverheatStops`, no BOOST goes on above the limit of temperature by then, even if the
request to stop it was lost; `ParamsFresh`, the ESP has the parameters of the Nano two
readings later at most, in `2 * REFRESH + SETUP` seconds. One reading may not be enough:
its answer can come behind the end of BOOST, which lacks its `#`, and is then read as a
part of that message and thrown away; this happens once. The seconds of the setup are part
of each bound, since a report or an answer that comes during its end is lost, and the next
one comes a period later. Stated as bounds on the time, the properties need no fairness.
Bounds: three disturbances, reports each 2 s and a BOOST of 8, refresh each 3 s (the code:
30 s, minutes to hours, 119 s), two places in the buffer of the Nano, an end of setup of
one second at most (the delays of the code add up to 3.2 s with a remote relay, that is up
to four ticks of the second and `ENDING` = 4; a message falls into it or not, which is
what one second tells apart). Three disturbances let a restart cross a request that
crosses a report.

*Proofs.* `LinkInvariant` (`LinkInv`), and from it `SetupAlwaysEnds`, `BoostAgreement`,
`OverheatStopped` and `ParametersFresh`, for every duration of BOOST, every period of the
reports and of the refresh, every length of the end of setup, every queue and any number
of disturbances. What makes them true is said of the seconds without a disturbance only;
any disturbance sets `calm` back to 0. In such a second the line holds nothing but
answers, at most one set of statistics, then a report, then the end of BOOST, and requests
to read the parameters or to stop BOOST (`Quiet`); a report on its way is true, unless the
end of BOOST follows it (`Truthful`); the setup is past its first waits after one second,
in its end after two, and each second of its end is counted (`Advancing`); there is room
for what the tasks may still ask for (`Room`). `Cold` says that no report was due yet, or
one is on its way, or the boards agree; `Heated` follows the request to stop BOOST from
the report that makes the ESP send it to the end of BOOST. `Refreshing` counts the seconds
to the next two times that the parameters are asked for, and says which of the two answers
cannot be lost. The hypotheses are those of `LinkAssumption`: the period of the refresh is
odd and longer than 1 (119 in the code), so that the readings, which happen at the even
values of the counter, come in the order that `Later` and `After` give; and the buffer of
the Nano holds two requests (64 bytes in the code).

### EspConfig, EspMqtt, EspTasks

`EspConfig` is the start of the ESP, the file system (`Format`), `config.json` (absent,
cut, or a configuration), the portal, and saves and reboots asked for by handlers that run
where the loop yields and in the delays of `rebootESP`. `EspMqtt` is the client, its
reconnection timer, and the broker: what it retains, the session, the will. `EspTasks` is
the tasks of each second: the remote relay, the pings and the watchdog of the Wifi, the
history. A behaviour is about one of these four functions (`function`), because they share
only the network, the second and the configuration.

*Run `esp`.* `ConfigKept`: a start finds the last configuration that was accepted, unless
the power failed before it was saved, and an invalid file costs one restart.
`RemoteFollows`: the remote relay is as the router's relay is, once that has not switched
for more than a period of the task (`steady`), however switches, activations and restarts
came before, unless the last request was dropped or failed, or there was none (`missed`).
Without `missed` it is what README.md promises (`RemoteUpdated`) and false: in its place
TLC finds, in 10 states, a request of the end of setup that is not made again.
`WifiWatched`: with the watchdog active, the Wifi is never silent for longer than its
timeout and a period of the pings. `MqttFollows`: some seconds after the network is back
the broker says that the router is there, knows its entities, and has the mode that the
Nano reports. `HistoryShown`: the history shows consecutive records, all but the oldest,
before and after the ring is full. Bounds: a failure of the power or of the file system,
pings and reports each 2 s, a timeout of 1 s, a ring of three places and four records, so
that it wraps around.

*Proofs.* `EspInvariant` (`EspInv`), and from it `ConfigSurvives`, `RemoteInLine`,
`WifiNeverSilent`, `BrokerFollows` and `HistoryConsecutive`, for all constants. `Kept`:
the file is what is owed, or a save is pending that makes it so, and a restart waits for
that save. `Mirrored`: what was last sent to the relay is what the request under way asks
for, or the state of the relay. `Looked`: the look at the router's relay in each period
came after its last switch, so that what was sent is what it is now. `Watching`: since the
watchdog is active, a ping comes in each period, and its answer or the check within the
second; so the silence that it allows is the timeout and one period, exactly. `Client` and
`Broker`: with the network back the client comes to a connection within its delay, and
what the broker does not retain yet is on its way. `Reported`: the mode on its way is the
current one. `Recorded`: the records of this round of the ring are before
`historyCounter`, those of the round before from it on. `PERIOD` stands for three periods
of the code, that of the pings (30 s), `mqttPeriod` and that of the looks at the relay: a
behaviour is about one function, and the theorems hold for every value. The queue has room
for the three messages of a connection (`EspMqttAssumption`).

### AsyncClient, Multipart, WebRequest, WebServer

`AsyncClient` is a connection of ESPAsyncTCP: its methods as functions of a record with
the pcb of lwIP, the client and what hangs on it, and the error tracker that decides what
a callback returns. `WebRequest` is ESPAsyncWebServer's parsing of a request (lines,
headers, query, forms), the choice of the handler, and the responses (basic, file, stream)
that go on as the send buffer has room; `Multipart` is the parser of uploads, byte by
byte. `WebServer` has the steps: packets cut anywhere (`Deliver`), acknowledgements of any
length, polls, peers that close, reset or vanish, an allocation that fails in any
callback.

*Run `web`.* `Owned`: lwIP holds a pointer to a client if and only if that client exists.
`AbortReported`: a callback returns ERR_ABRT if and only if the connection was aborted in
it. `HandledOnce`: however it is cut, a request is handled once, by its handler, with its
parameters and files byte for byte. `InOrder`: what is sent is the response from its first
byte on. `Answered` (liveness): a peer that reads gets all of it. `Released` (liveness): a
peer that vanishes while something is expected of it does not keep its connection. Where
memory ran out the last four promise less, as their comments say. Bounds: responses of 2 +
2 and 2 + 4 bytes against send buffers of 2, 3 and 5 bytes, so that each way of splitting
head and content occurs; one failed allocation per connection; packets of up to 3 bytes or
all the rest; a file that is made of beginnings of the delimiter; polls each 500 ms, the
timeouts of 5000 ms and 3 s on a scale of 3 and 2 polls. Fairness: lwIP goes on polling,
and a peer that stays reads what it is sent.

## Divergences

Where the code does something else than its comments or documents say, or than one would
expect. The first one is a run (`regulator_windup`); the others are consequences of the
models that the properties are stated around. Three of them are properties that no run
checks, because the code does not keep them: `SumFitsLong`, `ParamsInLimits` and
`RemoteUpdated`, each of which TLC refutes with the `.cfg` of its module.

On the Nano:

* In saturation the code takes the error back out of the integral whatever its sign
  (1783). After a large swing of the proportional term a small import that never ends can
  leave the command at 255, although 1759 and 1783 speak of an anti-windup.
* SETPARAM (1062-1111) changes `GAIN_I` at any time, from 0 to 1000, and leaves the
  integral as it is. With `GAIN_I` = 1 a surplus takes it to (255 + 1) * 16384 = 4.19
  million; `GAIN_I` = 1000 then gives 4.2e9, which is no `long` any more (1766), although
  1752 says that the error is reduced for the products to fit. A smaller step leaves the
  command at 255 for ever, during any import (1783 again), until a restart.
* A power failure between the two bytes of a parameter (1271) leaves one that nobody set,
  with a valid magic number (1221): `GAIN_I` = 800 (0x0320) replaced by 255 (0x00FF) is
  then 0x03FF = 1023, above the maximum of its table (268-269, 1000).
* Stopping Timer1 does not clear a pending compare match (1772, "inhibition du
  déclenchement du triac pour cette période"): a crossing that comes early, just after the
  8 ms of the debounce, while a match is pending, fires the SSR in a half-cycle without
  routing. `SsrPulse` with `EarliestCross` below `PULSE_END` shows it.
* The modulation of BOOST forces the SSR one second more per period than asked for (1403:
  `<=`).
* FORMAT (1001) blocks the loop for about 3.4 s; the next pass takes it for a loss of the
  mains and stops the router for 20 s, and writes the indexes into the erased EEPROM.
* A configuration of version 1 is read as one of version 2 (1221 tests the magic number
  only): `ConfigValid` fails with `Images = {"version 1"}`.
* SETPARAM cuts a number to 16 bits before it applies the limits (1081): 40000 for
  P_INSTALLPV gives its minimum, 100. It accepts P_CALIB = 0 (a division by zero, 1685)
  and GAIN_I = 0 (the integral is then not bounded).
* The verification of a pulse takes 127/8 ms, a comment (1651) says 63/4 ms. An interval
  below 110 ms overflows the conversion of `Pimpulsion`; equal intervals at
  two checks of the minute are taken for a silence (1382).
* After a RESET the windows have another phase against `PVRClock`, and a window that is
  late can see another second than its own: the hourly save is then skipped.

On the ESP:

* The countdown of RelayPlus is 1430 minutes on every day (1401): on the day of the change
  to summer time the next reference comes sooner and the minimum is topped up too late.
  Once it is over the maximum is not watched any more (1353), although `README.md:121`
  promises STOP until the next day.
* Any message on the topic of the relay ends RelayPlus, an unknown one too (1773).
* A message that lacks its `#` (EcoPV3 1400, 1415) swallows the next one: an answer to
  PARAM is then lost until the next refresh. The setup throws away reports and answers
  that come in the wrong phase; nothing but a message ends its last waits, so that it
  would hang if the Nano died there (444).
* Without a temperature (-99) the limit allows BOOST. A BOOST asked for by MQTT before the
  line is open is lost.
* A configuration saved during the delays of `rebootESP` is lost; a save that is pending
  when the configuration is erased writes it again. The restore page asks for a
  configuration and a reboot at the same time (admin.html:481), which the test of both
  flags makes safe.
* Activating the remote relay or MQTT neither brings it in line nor starts it before a
  restart. A request to the remote relay that is dropped, cannot be opened or fails is not
  made again before the relay switches (1299), although `README.md:141` says that the
  remote relay is updated each 20 seconds, and 1296 that its state is copied each period.
* `refTimePingWifi` is old when the watchdog is activated: its first failed ping starts
  the Wifi again. mqttPeriod = 0 divides by zero (1339). A configuration without
  `mqtt_pass` sets the password to the text "null" (683).
* `recordHistoricData` in setup (484) never records: the time is not known then.
* `rebootESP` disconnects from the broker without its will, so that the state stays
  "connected" while the router is away. A mode is published when it is asked for, before
  the Nano has it, and corrected within a period.

In the libraries:

* A peer that vanishes after everything was acknowledged keeps its request and client for
  ever; `AsyncServer::begin` fails without a word.
* When memory runs out on the first pass of a file response, the head goes with the next
  pass, with as many bytes of the file as there is room for without it: what does not fit
  is lost and counted as sent, as are the bytes of a `tcp_write` that fails.
* A form without its last line end is never complete, and ends by the timeout.
* `/api/history` without a known parameter leaks its `AsyncResponseStream`. The handlers
  of `/api` are for GET: a POST is redirected to "/".

## Proved, and only model-checked

Proved for all values of the constants that satisfy the assumptions of the modules (and
the hypotheses of the theorem, where there are any), by inductive invariants that TLC
checked first:

| Module | Properties | Hypotheses | Invariant |
|---|---|---|---|
| `ControlProofs` | `NoOverflow` | none; `CodeCapacity` says when its `Capacity` holds in the code | `TypeOK`, `IntegralBounded` |
| `SsrPulseProofs` | `OffUnlessCommanded`, `PulseInHalfCycle`, `DeliversCommand` | `Nominal`: crossings after the pulse | `PulseInv` |
| `StatsTransferProofs` | `ReportsOneWindow`, `AnomalyReported`, `LossStopsRouter`, refinement of `Mailbox` (safety) | | `StatsInv` |
| `NanoTimersProofs` | `LastRequestWins`, `MinimumTimes` | | `DiversionInv` |
| `LifecycleProofs` | `StopsInTime`, `AlarmDropsRequests`, `NoFalseAlarm` | the last: `TIMEOUT > 1` | `LifecycleInv` |
| `ControlProofs` | `DayMaximum`, `ManualStopsRelayPlus`, `DayMinimum` | the last: `DaysSuffice` | `DayInv`, `MinimumInv` |
| `NanoTimersProofs` | `CountedOnce`, `PowerIsCurrent` | | `CounterInv` |
| `StorageProofs` | `NeverAhead`, `HourlySave`, `ConfigValid` | the last: no image of version 1 | `StorageInv`, `ConfigInv` |
| `LinkProofs` | `SetupEnds`, `BoostAgrees`, `OverheatStops`, `ParamsFresh` | | `LinkInv` |
| `EspTasksProofs` | `ConfigKept`, `RemoteFollows`, `WifiWatched`, `HistoryShown`, `MqttFollows` | | `EspInv` |

`ParameterInRange` (what SETPARAM stores) is about an operator and needs no invariant. The
inductive invariants are in the modules of the properties, under *Why they hold*; the
`.cfg` files check the properties only, which are what the code promises.

Only model-checked: liveness, which TLAPS does not prove here (`LargeImportStopsRouting`,
`LostMeansOff`, `SurplusServed`, `RunsAgain`, `Answered`, `Released`, and that `Mailbox`
is emptied in the end), and the web server (`Owned`, `AbortReported`, `HandledOnce`,
`InOrder`). `WebRequest` parses with a RECURSIVE operator, which the provers cannot reason
about, and that the parsed request is the one that was sent is an induction over the
bytes, which they cannot do either. The theorems are about every constant, the runs about
the actions too: each property fails for a plausible mistake in the code (`mutants`).

## Not modelled

* Floating point (energies, units, P_SETPOINT from its parameters), formatting, LEDs, the
  display, the pages, `amorceESP`. What these give to the control (comparisons with
  thresholds, received values) is nondeterministic.
* Of the Nano: the days of `upTime`; bytes of a request glued together; power failures in
  the middle of the writing of one cell.
* Of the line: the periodic VERSION request, the watchdog of the contact
  (`watchDogContactEcoPV`), overruns of the receive buffer of the ESP.
* Of the ESP: the JSON of the configuration beyond "valid, with all keys, or not", the
  text of answers and topics; AsyncMqttClient and AsyncElegantOTA, which are not in the
  repository, are external: an attempt to connect always ends in one of the two callbacks,
  and a lost connection is noticed.
* Of the libraries, what MaxPV does not use: TLS (disabled by `async_config.h`),
  WebSockets, event sources, `SyncClient`, `AsyncPrinter`, `ESPAsyncTCPbuffer`, the file
  editor, authentication, chunked and callback responses, templates, the static handler. A
  `malloc` that fails in `hasParam`, `tcp_output` that fails, a second `send`, and
  contents that hold the whole delimiter are left out.

## Plan

The parts that carry logic are modelled. What is left, in this order:

1. Proofs, within the components that have them: the mailbox is never full for longer
   than a pass (the safety that is left of `FairSpec`); the age of an index after a start
   in the middle of an hour.
2. `watchDogContactEcoPV` in `Link`, with the Nano dying in each phase of the setup.
3. The dates of `upTime`, and the change of the hour in `RelayPlusDay` as a part of its
   properties rather than as a constant.
4. An abstract specification of a connection, in which what the server does with a packet
   is any write and a wish to close, implemented by `WebServer`: `Owned` and
   `AbortReported` do not depend on the text of a request and can be proved of it.
