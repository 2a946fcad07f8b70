-------------------------------- MODULE EspMqtt --------------------------------
(***************************************************************************)
(* The MQTT client of the ESP and what the broker retains of it: whether   *)
(* the router is there, what Home Assistant discovers, and the mode of the *)
(* relay.  The library AsyncMqttClient, the broker and the Nano are        *)
(* external: an attempt to connect always ends in one of the two callbacks.*)
(***************************************************************************)
EXTENDS EspConfig

CONSTANTS
  RECONNECT,    \* RECONNECT_TIME, in seconds
  PERIOD,       \* mqttPeriod, which is also the seconds between two pings and
                \* between two looks at the relay
  QUEUE         \* a lost connection is noticed before so many messages wait

ASSUME EspMqttAssumption ==
  {RECONNECT, PERIOD} \subseteq Nat \ {0} /\ QUEUE \in Nat /\ QUEUE >= 3

VARIABLES
  link,         \* "off", "connecting", "stalled" (the network failed meanwhile),
                \* "up", "waiting"
  timer,        \* mqttReconnectTimer
  outbox,       \* published, on its way: <<topic, value>>
  session,      \* the broker: "none", "open", "stale" (the connection is gone)
  retained,     \* the broker: the last value of each topic
  mode,         \* ecoPVStats[RELAY_MODE]
  online,       \* history: seconds with a network for this client, bounded
  calm          \* history: seconds since the mode was asked for or changed, bounded

mqttVars == <<link, timer, outbox, session, retained, mode, online, calm>>

Modes == {"auto", "force"}
LongOnline == RECONNECT + PERIOD + 1
LongCalm == PERIOD + 1

Publish(messages) == outbox' = outbox \o messages
--------------------------------------------------------------------------------
mqttConnect == link' = IF network THEN "connecting" ELSE "stalled"

\* The end of setup: the client is started if it is active then, and only then.
startMqtt ==
  /\ IF Active("mqtt") THEN mqttConnect ELSE UNCHANGED link
  /\ UNCHANGED <<timer, outbox, session, retained, mode, online, calm>>

\* The entities that Home Assistant discovers.
Measures ==
  {"Tension", "Courant", "PuissanceApparente", "FacteurPuissance", "PuissanceActive",
   "PuissanceRoutee", "PuissanceImportee", "PuissanceExportee", "PuissanceProduite",
   "Temperature"}
Indexes ==
  {"EnergieRoutee", "EnergieImportee", "EnergieExportee", "EnergieProduite",
   "TempsFonctionnementRelais"}
Commands == {"SSR", "Relais", "Boost"}

onMqttConnect ==
  Publish(<< <<"state", "connected">>, <<"sensors", Measures \cup Indexes>>,
             <<"commands", Commands>> >>)

\* A session that the broker still held is taken over: its will is published.
Connected ==
  /\ link \in {"connecting", "stalled"} /\ network
  /\ link' = "up" /\ session' = "open"
  /\ retained' = IF session = "none" THEN retained
                 ELSE [retained EXCEPT !["state"] = "disconnected"]
  /\ onMqttConnect
  /\ UNCHANGED <<timer, mode, online, calm>>

\* Mutant: the timer is not armed again.
onMqttDisconnect_Once ==
  /\ outbox' = <<>> /\ link' = "idle" /\ UNCHANGED timer

onMqttDisconnect ==
  /\ outbox' = <<>> /\ link' = "waiting" /\ timer' = RECONNECT

NotConnected ==
  /\ link = "stalled" \/ (link = "connecting" /\ ~network)
  /\ onMqttDisconnect
  /\ UNCHANGED <<session, retained, mode, online, calm>>

ConnectionLost ==
  /\ link = "up" /\ (~network \/ session # "open")
  /\ onMqttDisconnect
  /\ session' = IF session = "open" THEN "stale" ELSE session
  /\ UNCHANGED <<retained, mode, online, calm>>

TimerEnds ==
  /\ link = "waiting" /\ timer = 0
  /\ mqttConnect
  /\ UNCHANGED <<timer, outbox, session, retained, mode, online, calm>>
--------------------------------------------------------------------------------
(* The broker *)

Deliver ==
  /\ link = "up" /\ session = "open" /\ network /\ outbox # <<>>
  /\ retained' = [retained EXCEPT ![Head(outbox)[1]] = Head(outbox)[2]]
  /\ outbox' = Tail(outbox)
  /\ UNCHANGED <<link, timer, session, mode, online, calm>>

\* The broker gives up a silent session and publishes its will.
WillPublished ==
  /\ session = "stale" \/ (session = "open" /\ ~network)
  /\ session' = "none"
  /\ retained' = [retained EXCEPT !["state"] = "disconnected"]
  /\ UNCHANGED <<link, timer, outbox, mode, online, calm>>
--------------------------------------------------------------------------------
(* The modes *)

\* relayModeEcoPV, asked for by a web request or a message: the mode is
\* published before the Nano has it.
AskMode(m) ==
  /\ link = "up" /\ Len(outbox) < QUEUE
  /\ Publish(<< <<"mode", m>> >>)
  /\ calm' = 0
  /\ UNCHANGED <<link, timer, session, retained, mode, online>>

NanoReports(m) ==
  /\ mode # m /\ mode' = m
  /\ calm' = 0
  /\ UNCHANGED <<link, timer, outbox, session, retained, online>>

mqttTransmit == IF link = "up" THEN Publish(<< <<"mode", mode>> >>) ELSE UNCHANGED outbox
--------------------------------------------------------------------------------
(* Time, restarts *)

\* What the network and the library do within a second.
MqttSettled ==
  /\ network => /\ link \notin {"connecting", "stalled"}
                /\ link = "up" => session = "open" /\ outbox = <<>>
  /\ link = "waiting" => timer > 0
  /\ Len(outbox) < QUEUE

MqttSecond ==
  /\ timer' = IF link = "waiting" THEN timer - 1 ELSE timer
  /\ online' = IF ~network \/ link = "off" THEN 0
               ELSE IF online < LongOnline THEN online + 1 ELSE online
  /\ calm' = IF link = "off" THEN 0 ELSE IF calm < LongCalm THEN calm + 1 ELSE calm
  /\ UNCHANGED <<link, outbox, session, retained, mode>>

\* A connection that is under way meets a network that fails.
MqttNetwork ==
  /\ link' = IF link = "connecting" THEN "stalled" ELSE link
  /\ online' = 0
  /\ UNCHANGED <<timer, outbox, session, retained, mode, calm>>

\* rebootESP disconnects first, without a will; a power failure does not.
MqttStops(graceful) ==
  /\ link' = "off" /\ timer' = 0 /\ outbox' = <<>> /\ online' = 0 /\ calm' = 0
  /\ session' = IF session # "open" THEN session
                ELSE IF graceful /\ link = "up" /\ network THEN "none" ELSE "stale"
  /\ UNCHANGED <<retained, mode>>

MqttInit ==
  /\ link = "off" /\ timer = 0 /\ outbox = <<>>
  /\ session = "none"
  /\ retained = [state |-> "none", mode |-> "none", sensors |-> {}, commands |-> {}]
  /\ mode = "auto" /\ online = 0 /\ calm = 0

\* The callbacks and the handlers of the ESP run where it yields.
MqttSteps ==
  \/ Yields /\ (Connected \/ NotConnected \/ ConnectionLost \/ TimerEnds)
  \/ Yields /\ \E m \in Modes : AskMode(m) \/ NanoReports(m)
  \/ Deliver \/ WillPublished
================================================================================
