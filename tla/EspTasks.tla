------------------------------- MODULE EspTasks -------------------------------
(***************************************************************************)
(* The tasks of the loop of the ESP: the remote relay, the watchdog of the *)
(* Wifi and the history of the indexes, with its start, its configuration  *)
(* (EspConfig) and MQTT (EspMqtt).  All they keep is lost at a restart.    *)
(***************************************************************************)
EXTENDS EspMqtt

CONSTANTS
  TIMEOUT,      \* seconds without an answer before the Wifi is started again
  HISTORY,      \* records of the history
  RECORDS       \* bound on the records made since the start, above HISTORY

ASSUME EspTasksAssumption ==
  {TIMEOUT, HISTORY, RECORDS} \subseteq Nat \ {0} /\ HISTORY > 1

VARIABLES
  second,       \* generalCounterSecond % PERIOD
  due,          \* the tasks of this second are still to be done
  relay,        \* the relay of the Nano, as ecoPVStats shows it
  previous,     \* relaisDistantPreviousState
  request,      \* the state on its way to the remote relay, or IDLE
  remote,       \* the remote relay
  missed,       \* history: the last request was dropped, or failed, or there was none
  steady,       \* history: seconds since the relay switched, a request was dropped or
                \* failed, the network was away or the task was not active, bounded
  ping,         \* a ping is on its way
  shouldCheckWifi,
  silence,      \* millis() - refTimePingWifi, bounded
  watched,      \* history: seconds since the watchdog is active, bounded
  ring,         \* energyIndexHistoric: times, 0 for none
  historyCounter,
  records       \* records made: the time of the next one is records + 1

relayVars == <<relay, previous, request, remote, missed, steady>>
wifiVars == <<ping, shouldCheckWifi, silence, watched>>
historyVars == <<ring, historyCounter, records>>
vars == <<configVars, mqttVars, second, due, relayVars, wifiVars, historyVars>>

IDLE == -1
Late == TIMEOUT + PERIOD + 2
Slots == 0 .. HISTORY - 1
--------------------------------------------------------------------------------
(* The remote relay *)

\* Mutant: the request is made of the state that was kept.
Mirror_Kept(state) ==
  /\ previous' = state
  /\ \/ request = IDLE /\ network /\ request' = previous /\ missed' = FALSE /\ UNCHANGED steady
     \/ UNCHANGED request /\ missed' = TRUE /\ steady' = 0
  /\ UNCHANGED <<relay, remote>>

\* remoteRelay: a request is dropped while another one is on its way, or if
\* it cannot be opened; previous is updated anyway.
Mirror(state) ==
  /\ previous' = state
  /\ \/ request = IDLE /\ network /\ request' = state /\ missed' = FALSE /\ UNCHANGED steady
     \/ UNCHANGED request /\ missed' = TRUE /\ steady' = 0
  /\ UNCHANGED <<relay, remote>>

MirrorRelay ==
  IF second = 0 /\ Active("relay") /\ previous # relay THEN Mirror(relay) ELSE UNCHANGED relayVars

\* The answer, or a failure of the network.
RequestEnds ==
  /\ request # IDLE
  /\ request' = IDLE
  /\ \/ remote' = request /\ UNCHANGED <<missed, steady>>
     \/ remote' \in {remote, request} /\ missed' = TRUE /\ steady' = 0
  /\ UNCHANGED <<configVars, mqttVars, second, due, relay, previous, wifiVars, historyVars>>

RelaySwitches ==
  /\ function = "relay"
  /\ relay' = 1 - relay /\ steady' = 0
  /\ UNCHANGED <<configVars, mqttVars, second, due, previous, request, remote, missed,
                 wifiVars, historyVars>>
--------------------------------------------------------------------------------
(* The watchdog of the Wifi *)

PingDns ==
  /\ ping' = (ping \/ (second = PERIOD - 1 /\ Active("wifi")))
  /\ UNCHANGED <<shouldCheckWifi, silence>>

\* setPingCallback
PingEnds ==
  /\ ping /\ ping' = FALSE
  /\ \/ network /\ silence' = 0 /\ UNCHANGED shouldCheckWifi
     \/ shouldCheckWifi' = TRUE /\ UNCHANGED silence
  /\ UNCHANGED <<configVars, mqttVars, second, due, relayVars, watched, historyVars>>

\* Mutant: the flag is cleared before the time has come.
Elapsed_Exact == silence = TIMEOUT

Elapsed == silence > TIMEOUT

\* watchDogWifi
CheckWifi ==
  /\ InLoop /\ shouldCheckWifi /\ Active("wifi")
  /\ shouldCheckWifi' = FALSE
  /\ silence' = IF Elapsed THEN 0 ELSE silence
  /\ UNCHANGED <<configVars, mqttVars, second, due, relayVars, ping, watched, historyVars>>
--------------------------------------------------------------------------------
(* The history of the indexes *)

NextSlot == (historyCounter + 1) % HISTORY

\* checkTimeSet: NTP has given the time or not; once it has, it stays so.
checkTimeSet(isTimeTrue) == isTimeTrue \/ records = 0

\* recordHistoricData, in the behaviours that are about the history.
Record ==
  \E isTimeTrue \in BOOLEAN :
    /\ checkTimeSet(isTimeTrue)
    /\ IF isTimeTrue
         THEN /\ ring' = [ring EXCEPT ![historyCounter] = records + 1]
              /\ historyCounter' = NextSlot
              /\ records' = records + 1
         ELSE UNCHANGED historyVars

\* Mutant: the reader starts at the oldest record, of which there is no previous one.
Shown_All ==
  {k \in Slots : ring[k] # 0 /\ ring[(k + HISTORY - 1) % HISTORY] # 0}

\* /api/history: the records that are shown, each with the one before it.
Shown == {k \in {(historyCounter + i) % HISTORY : i \in 1 .. HISTORY - 1} :
            ring[k] # 0 /\ ring[(k + HISTORY - 1) % HISTORY] # 0}
--------------------------------------------------------------------------------
(* The loop *)

Reports == IF second = 0 /\ Active("mqtt") THEN mqttTransmit ELSE UNCHANGED outbox

eachSecondTasks ==
  /\ InLoop /\ due
  /\ due' = FALSE
  /\ MirrorRelay
  /\ PingDns
  /\ Reports
  /\ IF second = 1 /\ function = "history" /\ records < RECORDS
       THEN Record ELSE UNCHANGED historyVars
  /\ UNCHANGED <<configVars, second, watched, link, timer, session, retained, mode,
                 online, calm>>

Longer(seconds) == IF seconds < PERIOD + 1 THEN seconds + 1 ELSE seconds
Second ==
  /\ InLoop /\ ~due /\ ~ping /\ (shouldCheckWifi => ~Active("wifi")) /\ MqttSettled
  /\ due' = TRUE
  /\ second' = (second + 1) % PERIOD
  /\ silence' = IF function = "wifi" /\ silence < Late THEN silence + 1 ELSE silence
  /\ watched' = IF Active("wifi") THEN Longer(watched) ELSE 0
  /\ steady' = IF Active("relay") /\ network THEN Longer(steady) ELSE 0
  /\ MqttSecond
  /\ UNCHANGED <<configVars, relay, previous, request, remote, missed, ping,
                 shouldCheckWifi, historyVars>>

\* The end of setup: MQTT is started, the remote relay is brought in line.
Start ==
  /\ pc = "start" /\ pc' = "loop"
  /\ startMqtt
  /\ IF Active("relay") THEN Mirror(relay) ELSE UNCHANGED relayVars
  /\ UNCHANGED <<back, file, config, function, flags, network, fate,
                 second, due, wifiVars, historyVars>>

Empty == [k \in Slots |-> 0]
Fresh ==
  /\ second' = 0 /\ due' = FALSE
  /\ previous' = 0 /\ request' = IDLE /\ missed' = TRUE /\ steady' = 0 /\ UNCHANGED relay
  /\ remote' \in {remote} \cup ({request} \ {IDLE})
  /\ ping' = FALSE /\ shouldCheckWifi' = FALSE /\ silence' = 0 /\ watched' = 0
  /\ ring' = Empty /\ historyCounter' = 0 /\ records' = 0

Tasks == <<second, due, relayVars, wifiVars, historyVars>>
ConfigSteps ==
  ReadFile \/ Format \/ Connect \/ Portal \/ SetupSave \/ Written \/ LoopSave \/ LoopReboot
  \/ EraseConfig \/ RebootEsp

\* A configuration that activates the remote relay does not bring it in line,
\* one that activates MQTT does not start it.
Configured ==
  /\ SetConfig
  /\ missed' = (missed \/ ~Active("relay"))
  /\ steady' = IF "relay" \in config \cap config' THEN steady ELSE 0
  /\ watched' = IF "wifi" \in config \cap config' THEN watched ELSE 0
  /\ calm' = 0
  /\ UNCHANGED <<second, due, relay, previous, request, remote, ping, shouldCheckWifi,
                 silence, historyVars, link, timer, outbox, session, retained, mode,
                 online>>

Init ==
  /\ ConfigInit /\ MqttInit
  /\ second = 0 /\ due = FALSE
  /\ relay \in {0, 1} /\ remote \in {0, 1}
  /\ function # "relay" => relay = 0 /\ remote = 0
  /\ previous = 0 /\ request = IDLE /\ missed = TRUE /\ steady = 0
  /\ ping = FALSE /\ shouldCheckWifi = FALSE /\ silence = 0 /\ watched = 0
  /\ ring = Empty /\ historyCounter = 0 /\ records = 0

Next ==
  \/ ConfigSteps /\ UNCHANGED <<Tasks, mqttVars>>
  \/ NetworkFails /\ MqttNetwork /\ UNCHANGED Tasks
  \/ Restart /\ Fresh /\ MqttStops(TRUE)
  \/ PowerFails /\ Fresh /\ MqttStops(FALSE)
  \/ function = "mqtt" /\ MqttSteps /\ UNCHANGED <<configVars, Tasks>>
  \/ Configured \/ Start
  \/ eachSecondTasks \/ Second \/ RequestEnds \/ RelaySwitches \/ PingEnds \/ CheckWifi

Spec == Init /\ [][Next]_vars
================================================================================
