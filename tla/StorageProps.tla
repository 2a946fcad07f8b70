----------------------------- MODULE StorageProps -----------------------------
(***************************************************************************)
(* What is left after the power has failed.                                *)
(***************************************************************************)
EXTENDS Storage

Values == 0 .. BASE * BASE - 1

TypeOK ==
  /\ index \in [Counters -> 0 .. Limit]
  /\ config \in [{"v1", "v2"} -> Values]
  /\ \A c \in Counters : eeIndex[c] \in (0 .. BASE - 1) \X (0 .. BASE - 1)
  /\ \A k \in DOMAIN eeConfig : eeConfig[k] \in 0 .. BASE - 1
  /\ job.what \in {"none", "config", "first", "indexes", "clear", "format"}
  /\ pc \in {"config", "indexes", "run"} /\ (pc = "config" => Idle)
  /\ PVRClock \in 0 .. HOUR * NB_CYCLES - 1 /\ phase \in 0 .. NB_CYCLES - 1
  /\ unsaved \in 0 .. HOUR + 1 /\ skipped \in BOOLEAN /\ cut \in BOOLEAN
  /\ torn \in 0 .. 2
--------------------------------------------------------------------------------
\* Wherever the power fails in the writing of the indexes, the next start never
\* finds an index above the one that was counted; only a reset of the indexes
\* that is cut short leaves some of the old value.
\* (And the variables keep their types.)
NeverAhead ==
  /\ TypeOK
  /\ pc = "run" /\ job.what # "clear" =>
       \A c \in Counters : Long(eeIndex[c]) <= index[c]

\* While the loop keeps up, the indexes in the EEPROM are at most an hour old,
\* and lack what that hour counted at most.
HourlySave ==
  pc = "run" /\ ~skipped =>
    /\ unsaved < HOUR
    /\ Idle => index.routed - Long(eeIndex.routed) <= unsaved

\* What the table of the parameters says: those in use are within their limits, but
\* for a first configuration that the power cut short.  The code does not keep it: a
\* save that is cut between the cells of a parameter leaves any value in it.
ParamsInLimits ==
  ~cut /\ pc # "config" => config.v1 \in InLimits /\ config.v2 \in InLimits

\* That many parameters of a configuration are outside their limits.
Outside(c) == (IF c.v1 \in InLimits THEN 0 ELSE 1) + (IF c.v2 \in InLimits THEN 0 ELSE 1)

\* A failure of the power during a save damages no parameter but the one that was
\* half written, however many saves, failures and erasures follow each other.
ConfigValid == ~cut /\ pc # "config" => Outside(config) <= torn
--------------------------------------------------------------------------------
(* Why they hold: what a job has written already, and what its cells still to be *)
(* written say, make no index larger than the one that was counted; and a second *)
(* is never counted twice between two hours.                                     *)

\* The types of the two parts of the EEPROM.
CellTypes ==
  /\ eeIndex \in [Counters -> [1 .. 2 -> 0 .. BASE - 1]]
  /\ \A c \in Counters : Long(eeIndex[c]) <= Limit
  /\ eeConfig \in [1 .. 7 -> 0 .. BASE - 1]

\* What is left of a job after k - 1 of its cells.
LeftFrom(cells, k) == [j \in 1 .. Len(cells) - k + 1 |-> cells[j + k - 1]]

\* The first k - 1 cells of the indexes in table are written.
IndexesUpTo(table, k) ==
  /\ job.left = LeftFrom(IndexJob(table).left, k)
  /\ \A c \in Counters : table[c] <= index[c]
  /\ table.routed = index.routed
  /\ job.what = "indexes" => \A c \in Counters : Long(eeIndex[c]) <= table[c]
  /\ job.what = "clear" => \A c \in Counters : table[c] = 0
  /\ k = 2 => eeIndex.routed[1] = Cells(table.routed)[1]
  /\ k > 2 => Long(eeIndex.routed) = table.routed
  /\ k = 4 => eeIndex.impulsion[1] = Cells(table.impulsion)[1]

\* The first k - 1 cells of the configuration in use are written.
ConfigUpTo(k) ==
  /\ job.left =
       LeftFrom(InConfig(dataEeprom(VERSION, Cells(config.v1), Cells(config.v2))), k)
  /\ k = 5 => eeConfig[4] = Cells(config.v1)[1]
  /\ k > 5 => Stored.v1 = config.v1
  /\ k = 7 => eeConfig[6] = Cells(config.v2)[1]

FormatUpTo(k) ==
  /\ job.left = LeftFrom(FormatJob.left, k)
  /\ k > 1 => eeConfig[1] = 0
  /\ skipped

Jobs ==
  /\ job.what = "none" <=> Idle
  /\ job.what \in {"indexes", "clear"} =>
       \E table \in [Counters -> 0 .. Limit], k \in 1 .. 4 : IndexesUpTo(table, k)
  /\ job.what \in {"config", "first"} => \E k \in 1 .. 7 : ConfigUpTo(k)
  /\ job.what = "format" => \E k \in 1 .. 11 : FormatUpTo(k)
  /\ job = [what |-> job.what, left |-> job.left]
  /\ job.what \in {"indexes", "clear", "format"} => pc = "run"

\* Each window since the save was a second of its own, and none was an hour.
Seconds == ~skipped =>
  /\ unsaved <= PVRClock \div NB_CYCLES
  /\ phase > PVRClock % NB_CYCLES => unsaved = 0
  /\ pc = "run" /\ job.what \in {"none", "config", "first"} =>
       index.routed - Long(eeIndex.routed) <= unsaved

StorageInv ==
  /\ TypeOK /\ CellTypes /\ Jobs /\ Seconds
  /\ pc = "run" /\ job.what # "clear" =>
       \A c \in Counters : Long(eeIndex[c]) <= index[c]

\* What the EEPROM would make of the configuration after a failure of the power,
\* and that a parameter in use is outside its limits only if its cells are.
Kept(c) ==
  /\ Outside(c) <= torn
  /\ \A p \in {"v1", "v2"} : c[p] \in InLimits => config[p] \in InLimits

\* A configuration that is half written is the new one up to the parameter that is
\* being written, and the old one from the next on.
HalfWritten(k) ==
  /\ ConfigUpTo(k)
  /\ k < 5 => Kept(Stored)
  /\ k \in {5, 6} => Kept([v1 |-> config.v1, v2 |-> Stored.v2])

ConfigInv ==
  /\ pc = "config" => Outside(config) = 0
  /\ ~cut => Outside(config) <= torn
  /\ ~cut /\ job.what \notin {"config", "first"} /\ ValidConfig => Kept(Stored)
  /\ ~cut /\ job.what = "config" => \E k \in 1 .. 7 : HalfWritten(k)
================================================================================
