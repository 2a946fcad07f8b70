------------------------------- MODULE Lifecycle -------------------------------
(***************************************************************************)
(* The life of the router on the Nano: the passes of its loop, the loss    *)
(* and the return of the mains, fatalError, the restarts, and the requests *)
(* that wait in the serial buffer meanwhile.                               *)
(*                                                                         *)
(* A tick is a second.  A window of statistics takes one; a pass of the    *)
(* loop is a sequence of steps and takes less than one, but for FORMAT.    *)
(***************************************************************************)
EXTENDS Integers, Sequences

CONSTANTS
  TIMEOUT,      \* seconds without statistics that mean a loss of the mains, 2
  ALARM,        \* seconds in fatalError, 20
  FORMAT,       \* seconds the loop is blocked while the EEPROM is written, 4
  Requests,     \* requests the ESP may send: "SET" stands for all the quick ones
  SALVE,        \* requests read in one pass, 5
  MaxLine       \* bound on the requests in the serial buffer

ASSUME LifeAssumption ==
  /\ TIMEOUT \in Nat \ {0} /\ ALARM \in Nat \ {0} /\ FORMAT \in Nat \ {0}
  /\ Requests \subseteq {"SET", "RESET", "FORMAT"}
  /\ SALVE \in Nat \ {0} /\ MaxLine \in Nat \ {0}

VARIABLES
  pc,            \* step of the loop, or what blocks it
  back,          \* step startPVR returns to
  busy,          \* seconds left of what blocks the loop
  since,         \* seconds since refTime, up to TIMEOUT + 1
  stats_ready_flag,
  major,         \* bit 7 of stats_error_status
  hasRestarted,
  live,          \* interrupts are served: the loads may be on
  line,          \* requests received and not read
  i,             \* requests read in this pass
  mains,         \* the mains are there
  present,       \* ... since the last tick: "all" the time, "some", "none"
  slow,          \* the pass of the loop has seen a tick
  dark,          \* history: seconds without mains while live, FORMAT apart
  gap,           \* history: the mains were missing at some time since refTime
  formatted      \* history: the pass before had a FORMAT

loopVars == <<pc, back, busy, hasRestarted, live>>
alarmVars == <<since, stats_ready_flag, major>>
supply == <<mains, present>>
history == <<dark, gap, formatted>>
input == <<line, i>>
vars == <<loopVars, alarmVars, input, supply, slow, history>>

Steps == {"check", "stats", "serve", "bottom"}
Blocked == {"alarm", "warm", "format"}
DarkMax == TIMEOUT + 6      \* bound on the history dark
--------------------------------------------------------------------------------
(* The mains and time *)

Lose ==
  /\ mains
  /\ mains' = FALSE
  /\ present' = "some"
  /\ gap' = TRUE
  /\ UNCHANGED <<loopVars, alarmVars, input, slow, dark, formatted>>

Return ==
  /\ ~mains
  /\ mains' = TRUE
  /\ present' = "some"
  /\ dark' = 0
  /\ UNCHANGED <<loopVars, alarmVars, input, slow, gap, formatted>>

\* The crossings of the second that is over end a window, which is handed over
\* or, if the loop is late, lost.
Window ==
  IF live THEN CASE present = "all" -> {1}
                 [] present = "some" -> {stats_ready_flag, 1}
                 [] present = "none" -> {stats_ready_flag}
  ELSE {stats_ready_flag}

\* A second goes by.  A pass of the loop sees at most one, unless it is blocked.
Tick ==
  /\ ~slow \/ pc \in Blocked
  /\ pc \in {"alarm", "format"} => busy > 0
  /\ slow' = (slow \/ pc \notin Blocked)
  /\ busy' = IF busy > 0 THEN busy - 1 ELSE 0
  /\ since' = IF since > TIMEOUT THEN since ELSE since + 1
  /\ stats_ready_flag' \in Window
  /\ present' = IF mains THEN "all" ELSE "none"
  /\ dark' = IF live /\ present = "none" /\ pc # "format" /\ dark < DarkMax THEN dark + 1 ELSE dark
  /\ UNCHANGED <<pc, back, hasRestarted, live, major, input, mains, gap, formatted>>

\* fatalError has not returned.
InAlarm == pc = "alarm" \/ (pc = "warm" /\ back = "bottom")

\* The ESP sends a request; the Nano does not look at it before its loop does.
Send ==
  /\ Len(line) < MaxLine
  /\ \E request \in Requests :
       line' = Append(line, [what |-> request, alarm |-> InAlarm])
  /\ UNCHANGED <<loopVars, alarmVars, i, supply, slow, history>>
--------------------------------------------------------------------------------
(* The loop *)

\* More than TIMEOUT since refTime: the major error.
Check ==
  /\ pc = "check"
  /\ pc' = "stats"
  /\ IF since > TIMEOUT
       THEN since' = 0 /\ major' = TRUE /\ gap' = (present # "all")
       ELSE UNCHANGED <<since, major, gap>>
  /\ formatted' = FALSE
  /\ UNCHANGED <<back, busy, hasRestarted, live, stats_ready_flag, input, supply, slow, dark>>

\* Mutant: refTime is only refreshed after the restart.
Stats_KeepsTime ==
  /\ pc = "stats"
  /\ pc' = "serve" /\ hasRestarted' = FALSE
  /\ stats_ready_flag' = 0
  /\ UNCHANGED <<back, busy, live, since, major, input, supply, slow, history>>

\* Mutant: refTime is refreshed by each pass.
Stats_EachPass ==
  /\ pc = "stats"
  /\ pc' = "serve" /\ hasRestarted' = FALSE
  /\ stats_ready_flag' = 0 /\ since' = 0 /\ gap' = (present # "all")
  /\ UNCHANGED <<back, busy, live, major, input, supply, slow, dark, formatted>>

\* The statistics, if there are any, are processed and sent.
Stats ==
  /\ pc = "stats"
  /\ pc' = "serve" /\ hasRestarted' = FALSE
  /\ IF stats_ready_flag = 1
       THEN stats_ready_flag' = 0 /\ since' = 0 /\ gap' = (present # "all")
       ELSE UNCHANGED <<stats_ready_flag, since, gap>>
  /\ UNCHANGED <<back, busy, live, major, input, supply, slow, dark, formatted>>

\* serialRequest reads a request; the quick ones are answered at once.
Serve(request) ==
  /\ pc = "serve" /\ line # <<>> /\ i < SALVE
  /\ Head(line).what = request
  /\ line' = Tail(line) /\ i' = i + 1

ServeQuick ==
  /\ Serve("SET")
  /\ UNCHANGED <<loopVars, alarmVars, supply, slow, history>>

\* EEPROM.write, 1024 times.
ServeFormat ==
  /\ Serve("FORMAT")
  /\ pc' = "format" /\ busy' = FORMAT
  /\ formatted' = TRUE
  /\ UNCHANGED <<back, hasRestarted, live, alarmVars, supply, slow, dark, gap>>

FormatDone ==
  /\ pc = "format" /\ busy = 0
  /\ pc' = "serve"
  /\ UNCHANGED <<back, busy, hasRestarted, live, alarmVars, input, supply, slow, history>>

\* Mutant: the error is kept.
StartPVR_KeepsError(step) ==
  /\ pc' = "warm" /\ back' = step
  /\ live' = FALSE
  /\ major' = major /\ stats_ready_flag' = 0

\* startPVR, up to the wait for the warm-up, after stopPVR.
StartPVR(step) ==
  /\ pc' = "warm" /\ back' = step
  /\ live' = FALSE
  /\ major' = FALSE /\ stats_ready_flag' = 0

ServeReset ==
  /\ Serve("RESET")
  /\ StartPVR("serve")
  /\ dark' = 0
  /\ UNCHANGED <<busy, hasRestarted, since, supply, slow, gap, formatted>>

\* SALVE requests are read, or all there are.
Served ==
  /\ pc = "serve" /\ (line = <<>> \/ i = SALVE)
  /\ pc' = "bottom"
  /\ UNCHANGED <<back, busy, hasRestarted, live, alarmVars, input, supply, slow, history>>

\* fatalError: stopPVR, and 20 s of blinking.
FatalError ==
  /\ pc = "bottom" /\ major
  /\ pc' = "alarm" /\ busy' = ALARM
  /\ live' = FALSE /\ dark' = 0
  /\ UNCHANGED <<back, hasRestarted, alarmVars, input, supply, slow, gap, formatted>>

AlarmEnds ==
  /\ pc = "alarm" /\ busy = 0
  /\ StartPVR("bottom")
  /\ UNCHANGED <<busy, hasRestarted, since, input, supply, slow, history>>

\* startPVR returns after NCSTART crossings; a window begins.  The first pass of the
\* loop sets refTime.
WarmedUp ==
  /\ pc = "warm" /\ mains
  /\ pc' = back
  /\ live' = TRUE /\ present' = "all"
  /\ hasRestarted' = TRUE
  /\ IF back = "check" THEN since' = 0 /\ gap' = FALSE ELSE UNCHANGED <<since, gap>>
  /\ UNCHANGED <<back, busy, stats_ready_flag, major, input, mains, slow, dark, formatted>>

\* Mutant: the serial buffer is kept.
NextPass_KeepsLine ==
  /\ pc = "bottom" /\ ~major
  /\ pc' = "check" /\ slow' = FALSE /\ i' = 0
  /\ IF hasRestarted THEN since' = 0 /\ gap' = (present # "all") ELSE UNCHANGED <<since, gap>>
  /\ UNCHANGED <<back, busy, hasRestarted, live, stats_ready_flag, major, line, supply,
                 dark, formatted>>

\* The next pass; after a restart the serial buffer is emptied.
NextPass ==
  /\ pc = "bottom" /\ ~major
  /\ pc' = "check" /\ slow' = FALSE /\ i' = 0
  /\ IF hasRestarted
       THEN line' = <<>> /\ since' = 0 /\ gap' = (present # "all")
       ELSE UNCHANGED <<line, since, gap>>
  /\ UNCHANGED <<back, busy, hasRestarted, live, stats_ready_flag, major, supply, dark,
                 formatted>>

LoopStep == \/ Check \/ Stats \/ ServeQuick \/ ServeFormat \/ FormatDone \/ ServeReset \/ Served
            \/ FatalError \/ AlarmEnds \/ WarmedUp \/ NextPass
--------------------------------------------------------------------------------
\* setup: startPVR, then the loop, whose first pass sets refTime.
Init ==
  /\ pc = "warm" /\ back = "check" /\ busy = 0
  /\ hasRestarted = FALSE /\ live = FALSE
  /\ since = 0 /\ stats_ready_flag = 0 /\ major = FALSE
  /\ line = <<>> /\ i = 0
  /\ mains \in BOOLEAN /\ present = "some"
  /\ slow = FALSE /\ dark = 0 /\ gap = ~mains /\ formatted = FALSE

Next == Lose \/ Return \/ Tick \/ Send \/ LoopStep

Spec == Init /\ [][Next]_vars
FairSpec == Spec /\ WF_vars(Tick) /\ WF_vars(LoopStep)
================================================================================
