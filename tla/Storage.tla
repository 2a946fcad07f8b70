-------------------------------- MODULE Storage --------------------------------
(***************************************************************************)
(* What the Nano keeps in its EEPROM: the configuration, with a magic      *)
(* number and a version, and the indexes, saved each hour of its clock, by *)
(* requests and by fatalError.  The EEPROM is written cell by cell, an     *)
(* index or a parameter being several cells, and the power may fail between*)
(* any two; a cell is written or it is not.  The interrupt of the pulse    *)
(* counter goes on meanwhile.                                              *)
(***************************************************************************)
EXTENDS Integers, Sequences

CONSTANTS
  BASE,         \* values of a cell; a number takes two cells, the low one first
  minValue, maxValue,     \* the limits of the parameters
  NB_CYCLES,    \* mains cycles in a second
  HOUR,         \* seconds in an hour
  Limit,        \* bound on the indexes, above a carry from cell to cell
  RoutedLimit,  \* bound on the one that the loop counts
  Images        \* what the EEPROM may hold at first

ASSUME StorageAssumption ==
  /\ BASE \in Nat /\ BASE > 2 /\ NB_CYCLES \in Nat \ {0} /\ HOUR \in Nat \ {0}
  /\ Limit \in 0 .. BASE * BASE - 1 /\ RoutedLimit \in 0 .. Limit
  /\ minValue \in Nat /\ maxValue \in minValue .. BASE * BASE - 1
  /\ Images \subseteq {"version 1", "version 2"}

VARIABLES
  index,        \* the indexes: "routed" for those the loop counts, "impulsion"
  config,       \* the parameters in use: one of version 1, one of version 2
  eeIndex,      \* cells of the indexes: index -> <<low, high>>
  eeConfig,     \* cells of the configuration, in their order
  job,          \* the cells still to be written, and why
  pc,           \* "config", "indexes": setup; "run": loop
  PVRClock,     \* modulo an hour
  phase,        \* PVRClock % NB_CYCLES at the end of the windows
  unsaved,      \* history: windows since the indexes were saved
  skipped,      \* history: ... and one was lost or a second late, or a FORMAT came
  cut,          \* history: a first configuration was cut short by the power ...
  torn          \* history: ... or, so many times, a parameter was, until a
                \* configuration within its limits was written whole

memory == <<index, config>>
eeprom == <<eeIndex, eeConfig>>
clock == <<PVRClock, phase>>
history == <<unsaved, skipped, cut, torn>>
vars == <<memory, eeprom, job, pc, clock, history>>

Counters == {"routed", "impulsion"}
InLimits == minValue .. maxValue

\* A number in two cells, the low one first.
Long(cells) == cells[1] + BASE * cells[2]
Cells(n) == <<n % BASE, n \div BASE>>

\* dataEeprom: two cells of magic number, one of version, the two parameters.
MAGIC == <<1, 1>>
VERSION == 2
BLANK == BASE - 1
dataEeprom(version, v1, v2) ==
  <<MAGIC[1], MAGIC[2], version, v1[1], v1[2], v2[1], v2[2]>>
Stored == [v1 |-> Long(<<eeConfig[4], eeConfig[5]>>), v2 |-> Long(<<eeConfig[6], eeConfig[7]>>)]
--------------------------------------------------------------------------------
(* EEPROM.put *)

\* Mutant: the high cell first.
IndexJob_HighFirst(table) ==
  [what |-> "indexes",
   left |-> << <<"routed", 2, Cells(table.routed)[2]>>,
               <<"routed", 1, Cells(table.routed)[1]>>,
               <<"impulsion", 2, Cells(table.impulsion)[2]>>,
               <<"impulsion", 1, Cells(table.impulsion)[1]>> >>]

IndexJob(table) ==
  [what |-> "indexes",
   left |-> << <<"routed", 1, Cells(table.routed)[1]>>,
               <<"routed", 2, Cells(table.routed)[2]>>,
               <<"impulsion", 1, Cells(table.impulsion)[1]>>,
               <<"impulsion", 2, Cells(table.impulsion)[2]>> >>]

\* As a first configuration, where there was none, or over another one.
InConfig(cells) == [k \in 1 .. 7 |-> <<"config", k, cells[k]>>]
ConfigJob(what, cells) == [what |-> what, left |-> InConfig(cells)]

\* FORMAT: zeros from the first address, the configuration before the indexes.
FormatJob ==
  [what |-> "format",
   left |-> InConfig([k \in 1 .. 7 |-> 0])
              \o IndexJob([c \in Counters |-> 0]).left]

NoJob == [what |-> "none", left |-> <<>>]
Idle == job = NoJob

\* The next cell.
WriteCell ==
  /\ ~Idle
  /\ LET cell == Head(job.left) IN
       /\ eeConfig' = IF cell[1] = "config" THEN [eeConfig EXCEPT ![cell[2]] = cell[3]]
                                            ELSE eeConfig
       /\ eeIndex' = IF cell[1] = "config" THEN eeIndex
                     ELSE [eeIndex EXCEPT ![cell[1]][cell[2]] = cell[3]]
       /\ job' = IF Len(job.left) = 1 THEN NoJob ELSE [job EXCEPT !.left = Tail(@)]
  /\ LET whole == /\ job' = NoJob /\ job.what \in {"config", "first"}
                   /\ config.v1 \in InLimits /\ config.v2 \in InLimits IN
       /\ cut' = (cut /\ ~whole)
       /\ torn' = IF whole THEN 0 ELSE torn
  /\ UNCHANGED <<memory, pc, clock, unsaved, skipped>>
--------------------------------------------------------------------------------
(* The configuration and the indexes *)

\* Mutant: any configuration is taken.
ValidConfig_Any == TRUE

\* The magic number, and it alone.
ValidConfig == <<eeConfig[1], eeConfig[2]>> = MAGIC

eeConfigWrite ==
  job' = ConfigJob(IF ValidConfig THEN "config" ELSE "first",
                   dataEeprom(VERSION, Cells(config.v1), Cells(config.v2)))

\* eeConfigRead, and the default values, in use already, if it fails.
LoadConfig ==
  IF ValidConfig
    THEN config' = Stored /\ UNCHANGED job
    ELSE eeConfigWrite /\ UNCHANGED config

\* The table is filled first: indexImpulsion goes on while it is written.
indexWrite == job' = IndexJob(index')
Saving == unsaved' = 0 /\ skipped' = FALSE
--------------------------------------------------------------------------------
(* setup *)

Setup ==
  /\ pc = "config"
  /\ pc' = "indexes"
  /\ LoadConfig
  /\ UNCHANGED <<index, eeprom, clock, history>>

indexRead ==
  /\ pc = "indexes" /\ Idle
  /\ pc' = "run"
  /\ index' = [c \in Counters |-> Long(eeIndex[c])]
  /\ UNCHANGED <<config, eeprom, job, clock, history>>

\* Between the two cells of a parameter.
WithinParameter == job.what = "config" /\ Head(job.left)[2] \in {5, 7}

\* At any time.  The cells under way are lost, and the parameters have their
\* default values again.
PowerFails ==
  /\ pc' = "config"
  /\ index' = [c \in Counters |-> 0] /\ config' = [v1 |-> minValue, v2 |-> minValue]
  /\ job' = NoJob
  /\ PVRClock' = 0 /\ phase' = 0
  /\ unsaved' = 0 /\ skipped' = FALSE
  /\ cut' = (cut \/ (job.what = "first" /\ ValidConfig))
  /\ torn' = IF WithinParameter /\ torn < 2 THEN torn + 1 ELSE torn
  /\ UNCHANGED eeprom
--------------------------------------------------------------------------------
(* The loop, with the mains *)

InLoop == pc = "run" /\ Idle

\* The end of the next window.
WindowEnd == (PVRClock \div NB_CYCLES) * NB_CYCLES + phase
               + (IF phase > PVRClock % NB_CYCLES THEN 0 ELSE NB_CYCLES)

\* Mutant: the time online is not taken modulo an hour.
Hour_Once(now) == now \div NB_CYCLES = HOUR

\* upTime: minutesOnline and secondsOnline are 0.
Hour(now) == (now \div NB_CYCLES) % HOUR = 0

\* The loop processes a window, late cycles after its end.
Window ==
  /\ InLoop
  /\ \E late \in 0 .. NB_CYCLES - 1, n \in 0 .. 1 :
       /\ index.routed + n <= RoutedLimit
       /\ index' = [index EXCEPT !.routed = @ + n]
       /\ PVRClock' = (WindowEnd + late) % (HOUR * NB_CYCLES)
       /\ IF Hour(WindowEnd + late)
            THEN indexWrite /\ Saving
            ELSE /\ unsaved' = IF unsaved > HOUR THEN unsaved ELSE unsaved + 1
                 /\ skipped' = (skipped \/ phase + late >= NB_CYCLES)
                 /\ UNCHANGED job
  /\ UNCHANGED <<config, eeprom, pc, phase, cut, torn>>

\* A window the loop was too late for, or that saw another second than its own.
LoseWindow ==
  /\ InLoop
  /\ PVRClock' = WindowEnd % (HOUR * NB_CYCLES)
  /\ skipped' = TRUE
  /\ unsaved' = IF unsaved > HOUR THEN unsaved ELSE unsaved + 1
  /\ UNCHANGED <<memory, eeprom, job, pc, phase, cut, torn>>

\* TIMER2_OVF.
Pulse ==
  /\ pc = "run" /\ index.impulsion < Limit
  /\ index' = [index EXCEPT !.impulsion = @ + 1]
  /\ UNCHANGED <<config, eeprom, job, pc, clock, history>>
--------------------------------------------------------------------------------
(* Requests and restarts *)

SETPARAM ==
  /\ InLoop
  /\ \E p \in DOMAIN config, value \in InLimits : config' = [config EXCEPT ![p] = value]
  /\ UNCHANGED <<index, eeprom, job, pc, clock, history>>

SAVECFG == InLoop /\ eeConfigWrite /\ UNCHANGED <<memory, eeprom, pc, clock, history>>

LOADCFG == InLoop /\ LoadConfig /\ UNCHANGED <<index, eeprom, pc, clock, history>>

FORMAT ==
  /\ InLoop
  /\ job' = FormatJob
  /\ skipped' = TRUE
  /\ UNCHANGED <<memory, eeprom, pc, clock, unsaved, cut, torn>>

SAVEINDX ==
  /\ InLoop
  /\ UNCHANGED <<memory, eeprom, pc, clock, cut, torn>>
  /\ indexWrite /\ Saving

INDX0 ==
  /\ InLoop
  /\ index' = [c \in Counters |-> 0]
  /\ job' = [IndexJob(index') EXCEPT !.what = "clear"]
  /\ Saving
  /\ UNCHANGED <<config, eeprom, pc, clock, cut, torn>>

\* RESET and fatalError save the indexes, stop and start: the windows begin
\* anew, PVRClock goes on from the cycle it was stopped in.
Restart ==
  /\ InLoop
  /\ UNCHANGED <<memory, eeprom, pc, cut, torn>>
  /\ indexWrite /\ Saving
  /\ \E cycles \in 0 .. NB_CYCLES - 1 :
       /\ PVRClock' = (PVRClock + cycles) % (HOUR * NB_CYCLES)
       /\ phase' = PVRClock' % NB_CYCLES

Request == SETPARAM \/ SAVECFG \/ LOADCFG \/ FORMAT \/ SAVEINDX \/ INDX0
--------------------------------------------------------------------------------
Init ==
  /\ index = [c \in Counters |-> 0] /\ config = [v1 |-> minValue, v2 |-> minValue]
  /\ eeIndex = [c \in Counters |-> <<0, 0>>]
  /\ \E image \in Images :
       eeConfig = CASE image = "version 1" -> dataEeprom(1, Cells(minValue), <<BLANK, BLANK>>)
                    [] image = "version 2" -> dataEeprom(2, Cells(minValue), Cells(minValue))
  /\ job = NoJob /\ pc = "config"
  /\ PVRClock = 0 /\ phase = 0
  /\ unsaved = 0 /\ skipped = FALSE /\ cut = FALSE /\ torn = 0

Loop == Window \/ LoseWindow \/ Request \/ Restart
Next == Setup \/ indexRead \/ WriteCell \/ Loop \/ Pulse \/ PowerFails

Spec == Init /\ [][Next]_vars
================================================================================
