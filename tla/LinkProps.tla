------------------------------- MODULE LinkProps -------------------------------
(***************************************************************************)
(* What the ESP knows of the Nano, and how long it takes to know it.       *)
(***************************************************************************)
EXTENDS Link

RequestTypes ==
  [cmd : {"PARAM", "VERSION", "SETSSR", "LOADCFG", "RESET", "FORMAT", "SAVECFG", "damaged"},
   arg : {0}]
    \cup [cmd : {"SETBOOST"}, arg : {0, DURATION}] \cup [cmd : {"SETPARAM"}, arg : Params]
MessageTypes ==
  [kind : {"STATS"}, arg : {-1, 0, 1}, hash : {TRUE}]
    \cup [kind : {"PARAM"}, arg : Params, hash : {TRUE}]
    \cup [kind : {"BOOSTTIME"}, arg : -1 .. DURATION, hash : BOOLEAN]
    \cup [kind : {"DONE"}, arg : {0}, hash : {TRUE}]
    \cup [kind : {"RELAYPLUSTIME"}, arg : {-1}, hash : {FALSE}]

TypeOK ==
  /\ nano \in [boost : -1 .. DURATION, param : Params, second : 0 .. REPORT - 1]
  /\ task \in [what : {"none", "RESET", "FORMAT", "restarted"}, left : 0 .. BUSY]
  /\ temperature \in {-1, 0, 1}
  /\ toNano \in Seq(RequestTypes) /\ Len(toNano) <= QUEUE
  /\ toEsp \in Seq(MessageTypes)
  /\ pc \in {"boot", "contact", "param", "version", "stats", "ending", "loop"}
  /\ ending \in 0 .. ENDING /\ (pc # "ending" => ending = 0)
  /\ esp \in [boost : -1 .. DURATION, temp : {-1, 0, 1}, param : Params \cup {Unknown},
              read : BOOLEAN, counter : 0 .. 2 * REFRESH - 1]
  /\ setting \in [limit : BOOLEAN, ratio : {0, 100}]
  /\ due \subseteq {"nano", "esp"}
  /\ events \in 0 .. EVENTS /\ calm \in 0 .. CALM

\* Between two seconds, with nothing on the line.
Settled == due = {"nano", "esp"} /\ toNano = <<>> /\ toEsp = <<>> /\ Free

\* Seconds until the end of a setup, the statistics being there in two.
SETUP == 2 + ENDING

\* When nothing happens any more, each phase of the setup that waits for a message
\* of the Nano ends, whichever message it reads, and the ESP is in its loop after
\* the seconds that the end of setup takes.
\* (And the variables keep their types.)
SetupEnds == TypeOK /\ (calm > SETUP => Loop)

\* ... the ESP and the Nano agree on whether BOOST runs, after one period of
\* the reports, to which a setup that throws reports away adds its seconds:
\* whatever requests and reports crossed each other, or were lost.
BoostAgrees == Settled /\ calm > REPORT + SETUP + 2 => (esp.boost = -1 <=> nano.boost = -1)

\* ... no BOOST goes on above the limit of temperature: a request to stop it that
\* was lost is sent again once a report says that BOOST still runs.
OverheatStops ==
  setting.limit /\ temperature = 1 /\ calm > REPORT + SETUP + 2 => nano.boost = -1

\* ... and the ESP has the parameters of the Nano, two readings later at most: an
\* answer may be read together with a message that lacks its #, or thrown away in
\* setup, but not the next one too.
ParamsFresh == Settled /\ calm > 2 * REFRESH + SETUP - 1 => esp.param = nano.param
--------------------------------------------------------------------------------
(* Why they hold *)

\* A reading of the parameters follows each time that the counter asks for one.
Counting ==
  /\ ~Loop => esp.counter = 0
  /\ esp.read => Served
  /\ esp.counter \in {1, REFRESH + 1} => esp.read

\* What a second without events puts on the line: answers and, once, statistics, a
\* report and the end of BOOST.
ASK == Request("PARAM", 0)
OFF == Request("SETBOOST", 0)
Statistics == [kind |-> "STATS", arg |-> temperature, hash |-> TRUE]
Fresh == [kind |-> "PARAM", arg |-> nano.param, hash |-> TRUE]
Done == [kind |-> "DONE", arg |-> 0, hash |-> TRUE]
Report(time) == [kind |-> "BOOSTTIME", arg |-> time, hash |-> TRUE]
Reports == {Report(time) : time \in -1 .. DURATION}
Over == [kind |-> "BOOSTTIME", arg |-> -1, hash |-> FALSE]

In(message, box) == \E k \in DOMAIN box : box[k] = message
Ordered(box) ==
  /\ \A k \in DOMAIN box : box[k] \in {Fresh, Done, Statistics, Over} \cup Reports
  /\ \A k, l \in DOMAIN box : k < l =>
       /\ box[l] = Statistics => box[k] \in {Fresh, Done}
       /\ box[l] \in Reports => box[k] \notin Reports \cup {Over}
       /\ box[l] = Over => box[k] # Over

Hot == setting.limit /\ temperature = 1

Quiet ==
  /\ Free /\ pc # "boot"
  /\ Ordered(toEsp)
  /\ "nano" \in due => \A k \in DOMAIN toEsp : toEsp[k] \in {Fresh, Done}
  /\ \A k \in DOMAIN toNano : toNano[k] \in {ASK, Request("VERSION", 0), OFF}
  /\ In(OFF, toNano) => "nano" \notin due /\ Hot

\* A report is true, unless the end of BOOST comes right after it.
Truthful ==
  /\ In(Over, toEsp) \/ In(Report(-1), toEsp) => nano.boost = -1
  /\ In(Report(0), toEsp) => In(Over, toEsp)
  /\ ~In(Over, toEsp) =>
       \A time \in 0 .. DURATION : In(Report(time), toEsp) => nano.boost # -1

\* A second brings the setup to its last wait at least, the next one to the statistics;
\* then the seconds of its end are counted, and no request of its own is on the line.
Pending == "nano" \in due \/ toEsp # <<>> \/ toNano # <<>>
Advancing ==
  /\ ~Loop => "esp" \in due
  /\ pc \in {"contact", "param", "version"} => calm = 1 /\ Pending
  /\ pc = "stats" => calm <= 2 /\ (calm = 2 => Pending)
  /\ pc = "ending" => calm + ending <= SETUP /\ (calm > 2 => toNano = <<>>)

\* There is room for what the tasks of this second may ask for.
One(condition) == IF condition THEN 1 ELSE 0
Reporting == "nano" \in due \/ In(Statistics, toEsp)
Room ==
  /\ "esp" \in due =>
       Len(toNano) + One(Reporting) <= 1 \/ esp.counter = 0
  /\ calm > 2 => Len(toNano) + One(Reporting) + One("esp" \in due) <= 2

\* Either no report was due yet, or it is on its way, or it was read.
Told == In(Over, toEsp) \/ \E time \in -1 .. DURATION : In(Report(time), toEsp)
NoReportYet == nano.second + One("nano" \in due) >= calm - SETUP
Cold ==
  \/ NoReportYet
  \/ Told
  \/ esp.boost = -1 <=> nano.boost = -1

\* Above the limit a report that BOOST runs makes the ESP stop it with the next
\* statistics, and a second later it is over.
SaysOn == IF Told THEN ~In(Over, toEsp) /\ ~In(Report(-1), toEsp)
                  ELSE ~In(Statistics, toEsp) /\ esp.boost > 0
Stopping ==
  \/ nano.boost = 0
  \/ nano.boost # -1 /\ (In(OFF, toNano) \/ (In(Statistics, toEsp) /\ esp.boost > 0))
Stopped ==
  /\ nano.boost = -1
  /\ \/ In(Over, toEsp) \/ In(Report(-1), toEsp)
     \/ ~Told /\ (esp.boost = -1 \/ (esp.boost > 0 /\ In(Statistics, toEsp)))
Heated ==
  \/ NoReportYet
  \/ /\ "nano" \in due
     /\ \/ calm <= REPORT + SETUP + 1 /\ esp.boost > 0
        \/ calm <= REPORT + SETUP + 2 /\ nano.boost = 0
        \/ nano.boost = -1 /\ esp.boost = -1
  \/ /\ "nano" \notin due
     /\ \/ calm <= REPORT + SETUP /\ SaysOn
        \/ calm <= REPORT + SETUP + 1 /\ Stopping
        \/ Stopped

\* The values of the counter, were it not to start again, at the next two readings:
\* at the next even value when one is asked for, or after the next 1 or REFRESH + 1.
CYCLE == 2 * REFRESH
Soon(counter) == counter + 2 - (counter % 2)
Later(counter) ==
  IF counter = 0 THEN 2 ELSE IF counter <= REFRESH THEN REFRESH + 3 ELSE CYCLE + 2
Ask == IF esp.read THEN Soon(esp.counter) ELSE Later(esp.counter)
After(reading) == IF reading >= CYCLE THEN CYCLE + Later(reading - CYCLE)
                  ELSE IF reading = REFRESH + 1 THEN Soon(reading) ELSE Later(reading)
AskAgain == After(Ask)
\* When the counter was 0
Origin == calm - esp.counter - One("esp" \in due)
Coming == In(ASK, toNano) \/ In(Fresh, toEsp)
MayLose == nano.boost # -1 \/ In(Over, toEsp)
Refreshing ==
  \/ esp.param = nano.param
  \/ Coming /\ ~MayLose
  \/ Origin + Ask <= CYCLE + SETUP - 1 /\ (~MayLose \/ (Coming /\ "esp" \notin due))
  \/ Origin + AskAgain <= CYCLE + SETUP - 1

LinkInv ==
  /\ TypeOK /\ Counting
  /\ calm > 0 => Quiet /\ Truthful /\ Advancing /\ (Loop => Room /\ Refreshing)
  /\ calm > SETUP => IF Hot THEN Heated ELSE Cold
================================================================================
