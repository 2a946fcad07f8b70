--------------------------------- MODULE Link ---------------------------------
(***************************************************************************)
(* The serial line between the ESP and the Nano.  Requests end with # and  *)
(* are answered in order; the Nano also sends its statistics each second   *)
(* and the time left of BOOST each REPORT seconds.  Some messages of the   *)
(* Nano lack their #: the ESP reads them together with the next one, or    *)
(* alone after a timeout.  A message is handled within the second in which *)
(* it is sent, unless its reader is busy.                                  *)
(***************************************************************************)
EXTENDS Integers, Sequences

CONSTANTS
  DURATION,     \* seconds of a BOOST
  REPORT,       \* seconds between two reports of the time left of BOOST
  REFRESH,      \* seconds between two readings of the parameters
  BUSY,         \* seconds of a RESET or a FORMAT
  ENDING,       \* seconds, at most, of setup after the statistics
  QUEUE,        \* requests that the buffer of the Nano holds
  Params,       \* values of the parameters, numbered
  Requests,     \* what the users ask for
  EVENTS,       \* bound on the requests, faults and changes of temperature
  CALM          \* bound on calm

ASSUME LinkAssumption ==
  /\ {DURATION, REPORT, REFRESH, BUSY, QUEUE} \cup Params \subseteq Nat \ {0}
  /\ REFRESH % 2 = 1 /\ REFRESH > 1 /\ QUEUE > 1 /\ {ENDING, EVENTS, CALM} \subseteq Nat
  /\ Requests \subseteq {"booston", "boostoff", "ssrmode", "param", "loadparam",
                         "restart", "format", "other", "configmaxpv"}

VARIABLES
  nano,         \* boost: boostTime, -1 when off; param: the parameters;
                \* second: secondsOnline % REPORT
  task,         \* what: a long request, or the end of a RESET; left: its seconds
  temperature,  \* temperatureECS against maxTemp: -1 below, 0 equal, 1 above
  toNano,       \* requests on the line
  toEsp,        \* messages on the line
  pc,           \* "boot", "contact", "param", "version", "stats", "ending": setup; "loop"
  ending,       \* seconds left of setup, once it is "ending"
  esp,          \* boost: boostTime; temp: ecoPVStats[TEMP_ECS]; param: ecoPVConfig;
                \* read: shouldReadParams; counter: generalCounterSecond, bounded
  setting,      \* limit: tempLimitActive; ratio: boostRatio
  due,          \* those whose tasks of this second are still to be done
  events,       \* events so far
  calm          \* history: seconds since the last event, while both run

vars == <<nano, task, temperature, toNano, toEsp, pc, ending, esp, setting, due, events, calm>>

Unknown == 0
Free == task.what = "none"
Loop == pc = "loop"
Ended(kind, arg) == <<[kind |-> kind, arg |-> arg, hash |-> TRUE]>>
Unended(kind, arg) == <<[kind |-> kind, arg |-> arg, hash |-> FALSE]>>
Request(cmd, arg) == [cmd |-> cmd, arg |-> arg]
Event == events < EVENTS /\ events' = events + 1 /\ calm' = 0
NoEvent == UNCHANGED <<events, calm>>

\* A request that the buffer of the Nano has no room for is lost.
Sent(requests) == IF Len(toNano) + Len(requests) <= QUEUE THEN toNano \o requests ELSE toNano
--------------------------------------------------------------------------------
(* The Nano *)

\* Mutant: the periodic report is left out.
Reported_Never(clock) == <<>>

Reported(clock) ==
  IF clock = REPORT - 1 THEN Ended("BOOSTTIME", nano.boost) ELSE <<>>

CountedDown(boost) == IF boost >= 0 THEN boost - 1 ELSE boost

\* A window of the mains: the statistics, then the scheduler.  The end of
\* RelayPlus (an event: its timer is left out) is sent without #.
NanoSecond ==
  /\ "nano" \in due /\ Free
  /\ due' = due \ {"nano"}
  /\ \E relayplusEnds \in BOOLEAN :
       /\ IF relayplusEnds THEN Event ELSE NoEvent
       /\ toEsp' = toEsp \o Ended("STATS", temperature) \o Reported(nano.second)
                     \o (IF nano.boost = 0 THEN Unended("BOOSTTIME", -1) ELSE <<>>)
                     \o (IF relayplusEnds THEN Unended("RELAYPLUSTIME", -1) ELSE <<>>)
  /\ nano' = [nano EXCEPT !.second = (@ + 1) % REPORT,
                          !.boost = CountedDown(@)]
  /\ UNCHANGED <<task, temperature, toNano, pc, ending, esp, setting>>

\* Mutant: a BOOST of zero seconds is not taken.
Boosted_Positive(t) == IF t # 0 THEN t ELSE nano.boost

\* SETBOOST
Boosted(t) == IF t # 0 \/ nano.boost # -1 THEN t ELSE nano.boost

Answer(request) ==
  CASE request.cmd = "PARAM" -> Ended("PARAM", nano.param)
    [] request.cmd = "SETSSR" /\ nano.boost >= 0 ->
         Unended("BOOSTTIME", -1) \o Ended("DONE", 0)
    [] request.cmd \in {"RESET", "FORMAT"} -> <<>>
    [] OTHER -> Ended("DONE", 0)

\* serialRequest; a damaged request is answered by ERROR?.
serialRequest ==
  /\ Free \/ task.what = "restarted"
  /\ toNano # <<>>
  /\ LET request == Head(toNano) IN
       /\ toNano' = Tail(toNano)
       /\ toEsp' = toEsp \o Answer(request)
       /\ task' = IF request.cmd \in {"RESET", "FORMAT"}
                    THEN [what |-> request.cmd, left |-> BUSY] ELSE task
       /\ CASE request.cmd = "SETBOOST" -> nano' = [nano EXCEPT !.boost = Boosted(request.arg)]
            [] request.cmd = "SETSSR" -> nano' = [nano EXCEPT !.boost = -1]
            [] request.cmd = "SETPARAM" -> nano' = [nano EXCEPT !.param = request.arg]
            [] request.cmd = "LOADCFG" -> \E p \in Params : nano' = [nano EXCEPT !.param = p]
            [] OTHER -> UNCHANGED nano
  /\ NoEvent
  /\ UNCHANGED <<temperature, pc, ending, esp, setting, due>>

\* The answer to a RESET or a FORMAT.
TaskEnds ==
  /\ task.what \in {"RESET", "FORMAT"} /\ task.left = 0
  /\ toEsp' = toEsp \o Ended("DONE", 0)
  /\ task' = [what |-> IF task.what = "RESET" THEN "restarted" ELSE "none", left |-> 0]
  /\ NoEvent
  /\ UNCHANGED <<nano, temperature, toNano, pc, ending, esp, setting, due>>

\* After a RESET the loop handles what is left of its five requests, and then
\* clears its input.
ClearInput ==
  /\ task.what = "restarted"
  /\ toNano' = <<>>
  /\ task' = [what |-> "none", left |-> 0]
  /\ NoEvent
  /\ UNCHANGED <<nano, temperature, toEsp, pc, ending, esp, setting, due>>

\* A cold start of the Nano.
NanoStarts ==
  /\ Event
  /\ \E p \in Params : nano' = [boost |-> -1, param |-> p, second |-> 0]
  /\ task' = [what |-> "restarted", left |-> 0]
  /\ UNCHANGED <<temperature, toNano, toEsp, pc, ending, esp, setting, due>>
--------------------------------------------------------------------------------
(* The ESP *)

\* What readStringUntil returns: up to the first #, or all there is.
Ends == {k \in DOMAIN toEsp : toEsp[k].hash}
ReadLen == IF Ends = {} THEN Len(toEsp) ELSE CHOOSE k \in Ends : \A j \in Ends : k <= j

\* serialProcess: the first message read together counts, the others are lost.
Received(message) ==
  [esp EXCEPT !.temp = IF message.kind = "STATS" THEN message.arg ELSE @,
              !.param = IF message.kind = "PARAM" THEN message.arg ELSE @,
              !.boost = IF message.kind = "BOOSTTIME" THEN message.arg ELSE @]

\* ... and BOOST is stopped above the limit of temperature.
TooHot(message) ==
  message.kind = "STATS" /\ setting.limit /\ message.arg > 0 /\ esp.boost > 0

\* In setup each phase ends with a message, whichever it is; the input is then
\* cleared, and the next request sent.
Phases == <<"contact", "param", "version", "stats", "ending">>
\* Mutant: a phase waits for the answer to its own request.
NextPhase_Own(phase, message) ==
  IF phase \in {"param", "stats"} /\ message.kind # (IF phase = "param" THEN "PARAM" ELSE "STATS")
    THEN phase ELSE Phases[(CHOOSE k \in 1 .. 4 : Phases[k] = phase) + 1]

NextPhase(phase, message) == Phases[(CHOOSE k \in 1 .. 4 : Phases[k] = phase) + 1]
Asks(phase) == CASE phase = "param" -> <<Request("PARAM", 0)>>
                 [] phase = "version" -> <<Request("VERSION", 0)>>
                 [] OTHER -> <<>>

\* The rest of setup, which starts the web server and reads no message.
Takes(phase) == IF phase = "ending" THEN ending' \in 0 .. ENDING ELSE UNCHANGED ending

serialProcess ==
  /\ toEsp # <<>> /\ pc \notin {"boot", "ending"}
  /\ LET message == toEsp[1]
         off == IF TooHot(message) THEN <<Request("SETBOOST", 0)>> ELSE <<>>
     IN /\ esp' = [Received(message) EXCEPT !.boost = IF TooHot(message) THEN -1 ELSE @]
        /\ pc' = IF Loop THEN pc ELSE NextPhase(pc, message)
        /\ Takes(pc')
        /\ toNano' = Sent(off \o IF pc' = pc THEN <<>> ELSE Asks(pc'))
        /\ toEsp' = IF pc' = pc THEN SubSeq(toEsp, ReadLen + 1, Len(toEsp)) ELSE <<>>
  /\ NoEvent
  /\ UNCHANGED <<nano, task, temperature, setting, due>>

\* No contact in three seconds: setup goes on without it.
NoContact ==
  /\ pc = "contact" /\ toEsp = <<>> /\ ~Free
  /\ pc' = "ending" /\ Takes(pc')
  /\ NoEvent
  /\ UNCHANGED <<nano, task, temperature, toNano, toEsp, esp, setting, due>>

\* The end of setup: what came since the statistics is thrown away.
SetupDone ==
  /\ pc = "ending" /\ ending = 0
  /\ pc' = "loop"
  /\ toEsp' = <<>>
  /\ NoEvent
  /\ UNCHANGED <<nano, task, temperature, toNano, ending, esp, setting, due>>

\* Mutant: the parameters are read again only when a request has changed them.
AsksAgain_Never(counter) == FALSE

AsksAgain(counter) == counter % REFRESH = 1

eachSecondTasks ==
  /\ "esp" \in due /\ Loop
  /\ due' = due \ {"esp"}
  /\ LET counter == (esp.counter + 1) % (2 * REFRESH)
         reads == counter % 2 = 0 /\ esp.read
     IN /\ toNano' = IF reads THEN Sent(<<Request("PARAM", 0)>>) ELSE toNano
        /\ esp' = [esp EXCEPT !.counter = counter,
                              !.read = (@ /\ ~reads) \/ AsksAgain(counter)]
  /\ NoEvent
  /\ UNCHANGED <<nano, task, temperature, toEsp, pc, ending, setting>>

\* boostModeEcoPV; nothing tells the ESP whether the Nano got it.
boostModeEcoPV(time, knows) ==
  /\ toNano' = Sent(<<Request("SETBOOST", time)>>)
  /\ esp' = [esp EXCEPT !.boost = knows]

\* boostON and boostOFF, asked by the web, by MQTT or by the timer of BOOST.
MayBoost == ~setting.limit \/ esp.temp < 0
boostON == MayBoost /\ setting.ratio # 0 /\ boostModeEcoPV(DURATION, DURATION)
boostOFF == boostModeEcoPV(0, -1)

\* MQTT runs from the boot on, the web server from the end of setup on.
Served == pc \in {"ending", "loop"}
BoostRequest ==
  /\ pc # "boot" /\ Event
  /\ \/ "booston" \in Requests /\ boostON
     \/ "boostoff" \in Requests /\ boostOFF
  /\ UNCHANGED <<nano, task, temperature, toEsp, pc, ending, setting, due>>

Rereads == {"SETPARAM", "LOADCFG"}

WebRequest ==
  /\ Served /\ Event
  /\ \E request \in
         (IF "param" \in Requests THEN {Request("SETPARAM", p) : p \in Params} ELSE {})
           \cup (IF "loadparam" \in Requests THEN {Request("LOADCFG", 0)} ELSE {})
           \cup (IF "restart" \in Requests THEN {Request("RESET", 0)} ELSE {})
           \cup (IF "format" \in Requests THEN {Request("FORMAT", 0)} ELSE {})
           \cup (IF "ssrmode" \in Requests THEN {Request("SETSSR", 0)} ELSE {})
           \cup (IF "other" \in Requests THEN {Request("SAVECFG", 0)} ELSE {}) :
       /\ toNano' = Sent(<<request>>)
       /\ esp' = [esp EXCEPT !.read = @ \/ request.cmd \in Rereads]
  /\ UNCHANGED <<nano, task, temperature, toEsp, pc, ending, setting, due>>

\* A new configuration from the web.
Configure ==
  /\ Served /\ Event /\ "configmaxpv" \in Requests
  /\ setting' \in [limit : BOOLEAN, ratio : {0, 100}]
  /\ UNCHANGED <<nano, task, temperature, toNano, toEsp, pc, ending, esp, due>>

Booting == [boost |-> -1, temp |-> -1, param |-> Unknown, read |-> FALSE, counter |-> 0]
EspStarts ==
  /\ Event
  /\ pc' = "boot"
  /\ ending' = 0
  /\ esp' = Booting
  /\ UNCHANGED <<nano, task, temperature, toNano, toEsp, setting, due>>

\* The Wifi is there: the line is closed, opened again, and its input cleared.
OpenLine ==
  /\ pc = "boot"
  /\ pc' = "contact"
  /\ toEsp' = <<>>
  /\ NoEvent
  /\ UNCHANGED <<nano, task, temperature, toNano, ending, esp, setting, due>>
--------------------------------------------------------------------------------
(* The line, the water and the time *)

\* The last request on the line is damaged.
Damage ==
  /\ toNano # <<>> /\ Event
  /\ toNano' = [toNano EXCEPT ![Len(toNano)] = Request("damaged", 0)]
  /\ UNCHANGED <<nano, task, temperature, toEsp, pc, ending, esp, setting, due>>

\* temperatureRead: unless the probe gives 1 to 94 degrees the temperature is -99,
\* below any limit.
temperatureRead(valid, measured) == IF valid THEN measured ELSE -1

\* The water warms up or cools down, the probe fails.
Heat ==
  /\ Event
  /\ \E valid \in BOOLEAN, measured \in {-1, 0, 1} :
       temperature' = temperatureRead(valid, measured)
  /\ temperature' # temperature
  /\ UNCHANGED <<nano, task, toNano, toEsp, pc, ending, esp, setting, due>>

\* A second: those that run have done their tasks, and the line is silent.  An
\* ESP that waits for its Wifi, or ends its setup, reads nothing.
Second ==
  /\ toEsp = <<>> \/ pc \in {"boot", "ending"}
  /\ pc = "ending" => ending > 0
  /\ task.what # "restarted"
  /\ Free => "nano" \notin due /\ toNano = <<>>
  /\ Loop => "esp" \notin due
  /\ task.what \in {"RESET", "FORMAT"} => task.left > 0
  /\ due' = {"nano", "esp"}
  /\ task' = [task EXCEPT !.left = IF Free THEN 0 ELSE @ - 1]
  /\ calm' = IF Free /\ pc # "boot" /\ calm < CALM THEN calm + 1 ELSE calm
  /\ toEsp' = <<>>
  /\ ending' = IF pc = "ending" THEN ending - 1 ELSE ending
  /\ UNCHANGED <<nano, temperature, toNano, pc, esp, setting, events>>
--------------------------------------------------------------------------------
Init ==
  /\ nano \in [boost : {-1}, param : Params, second : 0 .. REPORT - 1]
  /\ task = [what |-> "none", left |-> 0]
  /\ temperature = -1
  /\ toNano = <<>> /\ toEsp = <<>>
  /\ pc = "boot" /\ ending = 0
  /\ esp = Booting
  /\ setting \in [limit : BOOLEAN, ratio : {100}]
  /\ due = {"nano", "esp"}
  /\ events = 0 /\ calm = 0

NanoSteps == NanoSecond \/ serialRequest \/ TaskEnds \/ ClearInput
EspSteps == serialProcess \/ NoContact \/ SetupDone \/ eachSecondTasks
Next ==
  \/ NanoSteps \/ NanoStarts
  \/ EspSteps \/ BoostRequest \/ WebRequest \/ Configure \/ EspStarts \/ OpenLine
  \/ Damage \/ Heat \/ Second

Spec == Init /\ [][Next]_vars
================================================================================
