----------------------------- MODULE EspTasksProps -----------------------------
(***************************************************************************)
(* What the ESP keeps over a restart, and what its tasks keep in line.     *)
(***************************************************************************)
EXTENDS EspTasks

TypeOK ==
  /\ pc \in {"read", "wifi", "portal", "save", "start", "writing",
             "loop", "saved", "stopping"}
  /\ file \in Files /\ config \in Configs
  /\ owed \in Files /\ restarts \in Nat
  /\ previous \in {0, 1} /\ request \in {IDLE, 0, 1} /\ remote \in {0, 1}
  /\ silence \in 0 .. Late
  /\ link \in {"off", "connecting", "stalled", "up", "waiting"}
  /\ timer \in 0 .. RECONNECT /\ session \in {"none", "open", "stale"}
  /\ Len(outbox) <= QUEUE + 1
  /\ ring \in [Slots -> 0 .. RECORDS] /\ historyCounter \in Slots

\* A start finds the last configuration that was accepted before the restart was
\* under way, or none if it was erased since, or the file system formatted:
\* unless the power failed first, or the erasure came while a configuration was
\* still to be saved.  A file that is not valid costs one restart: the ESP never
\* restarts for ever.
ConfigKept ==
  /\ TypeOK
  /\ pc = "read" /\ clean => file.config = owed.config
  /\ restarts <= 1

\* The remote relay is as the relay of the router is, a period of the task after the
\* relay switched and the task was activated, however requests, switches, restarts and
\* configurations came: unless the last request was dropped or failed, or there was none.
RemoteFollows ==
  InLoop /\ steady > PERIOD /\ request = IDLE /\ ~missed => remote = relay

\* What README.md says of MaxPV, line 141: the state of the remote relay is updated each
\* PERIOD seconds.  The code does not keep it: a request that failed is not made again.
RemoteUpdated == InLoop /\ steady > PERIOD /\ request = IDLE => remote = relay

\* An active watchdog never leaves the Wifi without an answer for longer than its
\* timeout and a period of the pings.
WifiWatched == watched > PERIOD => silence <= TIMEOUT + PERIOD

\* Some time after the network is back the broker says that the router is there,
\* Home Assistant knows its entities, and the mode of the relay is the one that
\* the Nano reports, whatever was asked for.
MqttFollows ==
  InLoop /\ online > RECONNECT + 1 =>
    /\ retained["state"] = "connected"
    /\ retained["sensors"] = Measures \cup Indexes /\ retained["commands"] = Commands
    /\ Active("mqtt") /\ online > RECONNECT + PERIOD /\ calm > PERIOD =>
         retained["mode"] = mode

\* The history shows consecutive records only, all of them but the oldest.
HistoryShown ==
  /\ \A k \in Shown : ring[k] = ring[(k + HISTORY - 1) % HISTORY] + 1
  /\ records > 0 =>
       Cardinality(Shown) = (IF records < HISTORY THEN records ELSE HISTORY) - 1
--------------------------------------------------------------------------------
(* Why they hold *)

SettingUp ==
  pc \in {"read", "wifi", "portal", "save", "start"} \/ (pc = "writing" /\ back = "start")

\* The file is what is owed, or a save is pending that makes it so: a start has
\* none, and a restart waits for it.
Kept ==
  /\ back \in {"loop", "saved", "start"}
  /\ pc = "read" => ~shouldSaveConfig
  /\ pc = "writing" => shouldSaveConfig
  /\ clean => IF shouldSaveConfig /\ pc # "stopping" THEN owed.config = config
                                                     ELSE file.config = owed.config
  /\ restarts <= 1
  /\ restarts = 1 => pc = "read" /\ file = NONE

Mirrored == ~missed => previous = IF request = IDLE THEN remote ELSE request

\* The look at the relay in second 0 came after the last switch.
Looked ==
  /\ steady > 0 => Active("relay") /\ ~SettingUp
  /\ steady > (IF second = 0 /\ due THEN PERIOD ELSE second) => previous = relay

\* Since the watchdog is active, a ping has come in each period, and its answer or
\* the check has come before the second is over.
Watching ==
  /\ watched > 0 => Active("wifi") /\ ~SettingUp
  /\ watched >= second + 2 => silence <= TIMEOUT + second + 1
  /\ watched > 0 /\ second = PERIOD - 1 /\ ~due =>
       ping \/ shouldCheckWifi \/ silence <= TIMEOUT

\* The records of this round of the ring are before historyCounter, those of the
\* round before from it on.
Round == records - historyCounter
Recorded ==
  /\ Round = 0 \/ Round >= HISTORY
  /\ \A k \in Slots : ring[k] = IF k < historyCounter THEN Round + k + 1
                                ELSE IF Round = 0 THEN 0 ELSE Round - HISTORY + k + 1

\* What the broker retains, once everything on its way has come.
Topics == {"state", "sensors", "commands"}
Announced ==
  [state |-> "connected", sensors |-> Measures \cup Indexes, commands |-> Commands]
Messages ==
  {<<topic, Announced[topic]>> : topic \in Topics} \cup {<<"mode", m>> : m \in Modes}

In(box, topic) == \E k \in DOMAIN box : box[k][1] = topic
Current(box, m) == \A k \in DOMAIN box : box[k][1] = "mode" => box[k][2] = m

\* With a network the client comes to its connection in time.
Client ==
  /\ SettingUp => link = "off"
  /\ link = "off" => online = 0 /\ calm = 0
  /\ online > 0 => /\ network
                   /\ link \in {"up", "waiting", "connecting"}
                   /\ link = "up" => session = "open"
                   /\ link = "waiting" => online + timer <= RECONNECT
                   /\ link = "connecting" => online <= RECONNECT

\* What the broker does not retain yet is on its way; what is out of date is not.
Broker ==
  /\ link # "up" => outbox = <<>>
  /\ link = "up" /\ session = "open" =>
       \A topic \in Topics : retained[topic] = Announced[topic] \/ In(outbox, topic)
  /\ online > RECONNECT + 1 => \A topic \in Topics : retained[topic] = Announced[topic]
  /\ online > 0 /\ calm > 0 => Current(outbox, mode)

\* The mode is reported in the second 0 of each period, and delivered in it.
Reported ==
  Active("mqtt") =>
    /\ second = 0 /\ ~due /\ calm > 0 /\ online > RECONNECT =>
         retained["mode"] = mode \/ In(outbox, "mode")
    /\ \/ second > 0 /\ calm > second /\ online > RECONNECT + second
       \/ calm > PERIOD /\ online > RECONNECT + PERIOD
       => retained["mode"] = mode

MoreTypes ==
  /\ function \in Functions /\ relay \in {0, 1} /\ second \in 0 .. PERIOD - 1
  /\ watched \in Nat /\ steady \in Nat /\ records \in 0 .. RECORDS
  /\ online \in Nat /\ calm \in Nat /\ mode \in Modes
  /\ outbox \in Seq(Messages) /\ (due => Len(outbox) <= QUEUE)
  /\ DOMAIN retained = Topics \cup {"mode"}

\* All of it, with the types: the inductive invariant.
EspInv ==
  /\ TypeOK /\ MoreTypes
  /\ Kept /\ Mirrored /\ Looked /\ Watching /\ Recorded /\ Client /\ Broker /\ Reported
================================================================================
