---------------------------- MODULE EspTasksProofs ----------------------------
(***************************************************************************)
(* For all functions, times, queues and lengths of the history: a start of *)
(* the ESP finds the configuration it should, and in the loop the remote   *)
(* relay, the watchdog, the history and the broker are kept in line.       *)
(***************************************************************************)
EXTENDS EspTasksProps, FiniteSetTheorems, SequenceTheorems, TLAPS

LEMMA Times ==
  /\ RECONNECT \in Nat /\ RECONNECT > 0 /\ PERIOD \in Nat /\ PERIOD > 0
  /\ TIMEOUT \in Nat /\ TIMEOUT > 0 /\ QUEUE \in Nat /\ QUEUE >= 3
  BY EspMqttAssumption, EspTasksAssumption

LEMMA Sizes == HISTORY \in Nat /\ HISTORY > 1 /\ RECORDS \in Nat
  BY EspTasksAssumption

\* The steps that leave the configuration and its file alone.
TaskSteps ==
  \/ eachSecondTasks \/ Second \/ RequestEnds \/ RelaySwitches \/ PingEnds \/ CheckWifi
  \/ function = "mqtt" /\ MqttSteps /\ UNCHANGED <<configVars, Tasks>>

LEMMA ConfigFrame ==
  ASSUME TaskSteps
  PROVE  UNCHANGED configVars
  BY DEF TaskSteps, eachSecondTasks, Second, RequestEnds, RelaySwitches, PingEnds, CheckWifi,
         configVars, flags, fate
--------------------------------------------------------------------------------
(* The configuration and its file *)

ConfigTypes ==
  /\ pc \in {"read", "wifi", "portal", "save", "start", "writing",
             "loop", "saved", "stopping"}
  /\ function \in Functions
  /\ file \in Files /\ config \in Configs /\ owed \in Files /\ restarts \in Nat

LEMMA FilesOK ==
  /\ NONE \in Files /\ CUT \in Files /\ NONE # CUT
  /\ {} \in Configs
  /\ \A c \in Configs : Whole(c) \in Files /\ Whole(c).config = c
  /\ \A f \in Files \ {NONE, CUT} : f.config \in Configs
  /\ function' = function => Files' = Files /\ Configs' = Configs
  BY DEF Files, Configs, NONE, CUT, Whole

LEMMA KeptConfigSteps ==
  ASSUME ConfigTypes, Kept, ConfigSteps
  PROVE  ConfigTypes' /\ Kept'
<1> USE FilesOK DEF ConfigTypes, Kept
<1>1. CASE ReadFile
  BY <1>1 DEF ReadFile, Erased
<1>2. CASE Format
  BY <1>2 DEF Format, flags
<1>3. CASE Connect
  BY <1>3 DEF Connect, flags, fate
<1>4. CASE Portal
  BY <1>4 DEF Portal
<1>5. CASE SetupSave
  BY <1>5 DEF SetupSave, SaveIfNeeded, flags, fate
<1>6. CASE Written
  BY <1>6 DEF Written, fate
<1>7. CASE LoopSave
  BY <1>7 DEF LoopSave, SaveIfNeeded, flags, fate
<1>8. CASE LoopReboot
  BY <1>8 DEF LoopReboot, MayReboot, flags, fate
<1>9. CASE EraseConfig
  BY <1>9 DEF EraseConfig, Yields, flags
<1>10. CASE RebootEsp
  BY <1>10 DEF RebootEsp, Yields, fate
<1> QED
  BY <1>1, <1>2, <1>3, <1>4, <1>5, <1>6, <1>7, <1>8, <1>9, <1>10 DEF ConfigSteps

LEMMA KeptNext ==
  ASSUME ConfigTypes, Kept, [Next]_vars
  PROVE  ConfigTypes' /\ Kept'
<1> USE FilesOK DEF ConfigTypes, Kept
<1>1. CASE UNCHANGED configVars
  BY <1>1 DEF configVars, flags, fate
<1>2. CASE ConfigSteps
  BY <1>2, KeptConfigSteps
<1>3. CASE NetworkFails
  BY <1>3 DEF NetworkFails, flags, fate
<1>4. CASE Restart
  BY <1>4 DEF Restart, Ram, fate
<1>5. CASE PowerFails
  <2>1. /\ pc' = "read" /\ config' = {} /\ restarts' = 0 /\ ~shouldSaveConfig'
        /\ UNCHANGED <<back, file, function, owed>>
    BY <1>5 DEF PowerFails, Ram
  <2>2. clean' => clean /\ ~shouldSaveConfig
    BY <1>5, Zenon DEF PowerFails
  <2> QED BY <2>1, <2>2
<1>6. CASE Configured
  BY <1>6 DEF Configured, SetConfig, Yields
<1>7. CASE Start
  BY <1>7 DEF Start, flags, fate
<1> QED
  BY <1>1, <1>2, <1>3, <1>4, <1>5, <1>6, <1>7, ConfigFrame DEF Next, TaskSteps, vars
--------------------------------------------------------------------------------
(* The remote relay *)

RelayTypes ==
  /\ relay \in {0, 1} /\ previous \in {0, 1} /\ request \in {IDLE, 0, 1} /\ remote \in {0, 1}
  /\ steady \in Nat

LEMMA MirrorOK ==
  ASSUME RelayTypes, Mirrored, Mirror(relay) \/ UNCHANGED relayVars
  PROVE  RelayTypes' /\ Mirrored'
<1> USE DEF RelayTypes, Mirrored, IDLE
<1>1. CASE Mirror(relay)
  BY <1>1 DEF Mirror
<1>2. CASE UNCHANGED relayVars
  BY <1>2 DEF relayVars
<1> QED BY <1>1, <1>2

LEMMA LongerOK ==
  ASSUME NEW n \in Nat
  PROVE  Longer(n) \in Nat /\ Longer(n) <= n + 1
  BY DEF Longer

LEMMA MirroredNext ==
  ASSUME RelayTypes, Mirrored, [Next]_vars
  PROVE  RelayTypes' /\ Mirrored'
<1>1. CASE UNCHANGED relayVars
  BY <1>1, MirrorOK
<1>2. CASE Fresh
  BY <1>2 DEF Fresh, RelayTypes, Mirrored, IDLE
<1>3. CASE Configured
  <2>1. /\ missed' = (missed \/ ~Active("relay")) /\ steady' \in {steady, 0}
        /\ UNCHANGED <<relay, previous, request, remote>>
    BY <1>3 DEF Configured
  <2>2. missed => missed'
    BY <2>1, Zenon
  <2> QED BY <2>1, <2>2 DEF RelayTypes, Mirrored
<1>4. CASE Start \/ eachSecondTasks
  BY <1>4, MirrorOK DEF Start, eachSecondTasks, MirrorRelay
<1>5. CASE RequestEnds \/ RelaySwitches
  BY <1>5 DEF RequestEnds, RelaySwitches, RelayTypes, Mirrored, IDLE
<1>6. CASE Second
  BY <1>6, LongerOK DEF Second, RelayTypes, Mirrored
<1> QED
  BY <1>1, <1>2, <1>3, <1>4, <1>5, <1>6
  DEF Next, vars, Tasks, PingEnds, CheckWifi
--------------------------------------------------------------------------------
(* The watchdog *)

WatchTypes ==
  /\ second \in 0 .. PERIOD - 1 /\ silence \in 0 .. Late /\ watched \in Nat

\* The steps of setup stay there until it is over, and none comes back to it.
LEMMA SetupStays ==
  ASSUME ConfigTypes, Kept, ConfigSteps
  PROVE  /\ SettingUp' => SettingUp
         /\ config' = config \/ SettingUp
  BY DEF ConfigTypes, Kept, SettingUp, ConfigSteps, ReadFile, Format, Connect, Portal,
         SetupSave, Written, LoopSave, LoopReboot, SaveIfNeeded, EraseConfig, RebootEsp,
         Yields, MayReboot

LEMMA PeriodRange ==
  ASSUME NEW n \in 0 .. PERIOD - 1
  PROVE  /\ n < PERIOD - 1 => (n + 1) % PERIOD = n + 1
         /\ n = PERIOD - 1 => (n + 1) % PERIOD = 0
  BY Times

LEMMA WatchingSecond ==
  ASSUME WatchTypes, Watching, Second
  PROVE  WatchTypes' /\ Watching'
<1> USE Times DEF WatchTypes, Watching
<1>1. /\ InLoop /\ ~due /\ ~ping /\ (shouldCheckWifi => ~Active("wifi"))
      /\ due' = TRUE /\ second' = (second + 1) % PERIOD
      /\ silence' \in {silence, silence + 1} /\ silence' \in 0 .. Late
      /\ watched' \in Nat /\ watched' <= watched + 1
      /\ watched' > 0 => Active("wifi")
      /\ UNCHANGED configVars
  BY LongerOK DEF Second, Late
<1>2. watched' > 0 => Active("wifi")' /\ ~SettingUp'
  BY <1>1 DEF SettingUp, InLoop, Active, configVars
<1>3. CASE second = PERIOD - 1
  <2>1. second' = 0
    BY <1>1, <1>3, PeriodRange
  <2> QED BY <1>1, <1>2, <1>3, <2>1
<1>4. CASE second < PERIOD - 1
  <2>1. second' = second + 1
    BY <1>1, <1>4, PeriodRange
  <2> QED BY <1>1, <1>2, <1>4, <2>1
<1> QED BY <1>3, <1>4

LEMMA WatchingNext ==
  ASSUME ConfigTypes, Kept, WatchTypes, Watching, [Next]_vars
  PROVE  WatchTypes' /\ Watching'
<1> USE Times
<1>1. CASE UNCHANGED <<configVars, wifiVars, second, due>>
  BY <1>1 DEF WatchTypes, Watching, SettingUp, Active, configVars, wifiVars, Late
<1>2. CASE ConfigSteps /\ UNCHANGED Tasks
  BY <1>2, SetupStays DEF WatchTypes, Watching, Active, Tasks, wifiVars, Late
<1>3. CASE NetworkFails /\ UNCHANGED Tasks
  BY <1>3 DEF NetworkFails, WatchTypes, Watching, SettingUp, Active, Tasks, wifiVars, Late
<1>4. CASE Fresh
  BY <1>4 DEF Fresh, WatchTypes, Watching, Late
<1>5. CASE Configured
  BY <1>5 DEF Configured, SetConfig, WatchTypes, Watching, SettingUp, Active, Yields, Late
<1>6. CASE Start
  BY <1>6 DEF Start, WatchTypes, Watching, SettingUp, wifiVars, Late
<1>7. CASE eachSecondTasks
  BY <1>7 DEF eachSecondTasks, PingDns, WatchTypes, Watching, SettingUp, Active, configVars, Late
<1>8. CASE PingEnds
  BY <1>8 DEF PingEnds, WatchTypes, Watching, SettingUp, Active, configVars, Late
<1>9. CASE CheckWifi
  BY <1>9 DEF CheckWifi, Elapsed, WatchTypes, Watching, SettingUp, Active, configVars, Late
<1> QED
  BY <1>1, <1>2, <1>3, <1>4, <1>5, <1>6, <1>7, <1>8, <1>9, WatchingSecond
  DEF Next, vars, Tasks, RequestEnds, RelaySwitches

\* What the task of second 0 has looked at is what the relay is, since it is steady.
LEMMA LookedNext ==
  ASSUME ConfigTypes, Kept, RelayTypes, second \in 0 .. PERIOD - 1, Looked, [Next]_vars
  PROVE  Looked'
<1> USE Times DEF RelayTypes, Looked
<1>1. CASE UNCHANGED <<configVars, relayVars, second, due>>
  BY <1>1 DEF SettingUp, Active, configVars, relayVars
<1>2. CASE ConfigSteps /\ UNCHANGED Tasks
  BY <1>2, SetupStays DEF Active, Tasks, relayVars
<1>3. CASE NetworkFails /\ UNCHANGED Tasks
  BY <1>3 DEF NetworkFails, SettingUp, Active, Tasks, relayVars
<1>4. CASE Fresh
  BY <1>4 DEF Fresh
<1>5. CASE Configured
  BY <1>5 DEF Configured, SetConfig, SettingUp, Active, Yields
<1>6. CASE Start
  <2>1. SettingUp /\ steady = 0
    BY <1>6 DEF Start, SettingUp
  <2>2. steady' = 0
    BY <1>6, <2>1 DEF Start, Mirror, relayVars
  <2> QED BY <1>6, <2>2 DEF Start
<1>7. CASE eachSecondTasks
  <2>1. /\ due /\ due' = FALSE /\ UNCHANGED <<second, relay, configVars>>
        /\ steady' \in {0, steady}
        /\ IF second = 0 /\ Active("relay") THEN previous' = relay ELSE previous' = previous
    BY <1>7 DEF eachSecondTasks, MirrorRelay, Mirror, relayVars
  <2> QED BY <2>1 DEF SettingUp, Active, configVars
<1>8. CASE RequestEnds \/ RelaySwitches
  BY <1>8 DEF RequestEnds, RelaySwitches, SettingUp, Active, configVars
<1>9. CASE Second
  <2>1. /\ InLoop /\ ~due /\ due' = TRUE /\ second' = (second + 1) % PERIOD
        /\ steady' <= steady + 1 /\ (steady' > 0 => Active("relay"))
        /\ UNCHANGED <<configVars, relay, previous>>
    BY <1>9, LongerOK DEF Second
  <2>2. steady' > 0 => Active("relay")' /\ ~SettingUp'
    BY <2>1 DEF SettingUp, InLoop, Active, configVars
  <2>3. second' = IF second = PERIOD - 1 THEN 0 ELSE second + 1
    BY <2>1, PeriodRange
  <2>4. steady' \in Nat
    BY <1>9, LongerOK DEF Second
  <2> QED BY <2>1, <2>2, <2>3, <2>4
<1> QED
  BY <1>1, <1>2, <1>3, <1>4, <1>5, <1>6, <1>7, <1>8, <1>9
  DEF Next, vars, Tasks, PingEnds, CheckWifi
--------------------------------------------------------------------------------
(* The history *)

HistoryTypes ==
  ring \in [Slots -> 0 .. RECORDS] /\ historyCounter \in Slots /\ records \in 0 .. RECORDS

LEMMA SlotRange ==
  ASSUME NEW n \in 0 .. 2 * HISTORY - 1
  PROVE  n % HISTORY = IF n < HISTORY THEN n ELSE n - HISTORY
  BY Sizes

LEMMA NextSlotIs ==
  ASSUME historyCounter \in Slots
  PROVE  NextSlot = IF historyCounter + 1 < HISTORY THEN historyCounter + 1 ELSE 0
<1>1. historyCounter + 1 \in 0 .. 2 * HISTORY - 1
  BY Sizes DEF Slots
<1>2. NextSlot = IF historyCounter + 1 < HISTORY THEN historyCounter + 1
                                                 ELSE (historyCounter + 1) - HISTORY
  BY <1>1, SlotRange, Zenon DEF NextSlot
<1> QED BY <1>2, Sizes DEF Slots

LEMMA SlotBefore ==
  ASSUME NEW k \in Slots
  PROVE  (k + HISTORY - 1) % HISTORY = IF k = 0 THEN HISTORY - 1 ELSE k - 1
<1> DEFINE n == k + HISTORY - 1
<1>1. n \in 0 .. 2 * HISTORY - 1
  BY Sizes DEF Slots
<1>2. n % HISTORY = IF n < HISTORY THEN n ELSE n - HISTORY
  BY <1>1, SlotRange, Zenon
<1>3. (IF n < HISTORY THEN n ELSE n - HISTORY) = IF k = 0 THEN HISTORY - 1 ELSE k - 1
  BY Sizes DEF Slots
<1> QED BY <1>2, <1>3, Zenon

LEMMA OtherSlots ==
  ASSUME NEW c \in Slots
  PROVE  {(c + i) % HISTORY : i \in 1 .. HISTORY - 1} = Slots \ {c}
<1> USE Sizes DEF Slots
<1>1. ASSUME NEW i \in 1 .. HISTORY - 1
      PROVE  (c + i) % HISTORY \in Slots \ {c}
  <2>1. c + i \in 0 .. 2 * HISTORY - 1
    OBVIOUS
  <2>2. (c + i) % HISTORY = IF c + i < HISTORY THEN c + i ELSE (c + i) - HISTORY
    BY <2>1, SlotRange, Zenon
  <2>3. (IF c + i < HISTORY THEN c + i ELSE (c + i) - HISTORY) \in Slots \ {c}
    OBVIOUS
  <2> QED BY <2>2, <2>3, Zenon
<1>2. ASSUME NEW k \in Slots \ {c}
      PROVE  \E i \in 1 .. HISTORY - 1 : k = (c + i) % HISTORY
  <2>1. PICK i \in 1 .. HISTORY - 1 : c + i = k \/ c + i = k + HISTORY
    <3>1. CASE k > c
      <4>1. k - c \in 1 .. HISTORY - 1 /\ c + (k - c) = k
        BY <3>1
      <4> QED BY <4>1
    <3>2. CASE k < c
      <4>1. k + HISTORY - c \in 1 .. HISTORY - 1 /\ c + (k + HISTORY - c) = k + HISTORY
        BY <3>2
      <4> QED BY <4>1
    <3> QED BY <3>1, <3>2
  <2>2. c + i \in 0 .. 2 * HISTORY - 1
    OBVIOUS
  <2>3. (c + i) % HISTORY = IF c + i < HISTORY THEN c + i ELSE (c + i) - HISTORY
    BY <2>2, SlotRange, Zenon
  <2>4. (IF c + i < HISTORY THEN c + i ELSE (c + i) - HISTORY) = k
    BY <2>1
  <2> QED BY <2>3, <2>4, Zenon
<1> QED BY <1>1, <1>2, Zenon

LEMMA RecordOK ==
  ASSUME HistoryTypes, Recorded, Record, records < RECORDS
  PROVE  HistoryTypes' /\ Recorded'
<1> USE Sizes DEF HistoryTypes, Recorded, Round, Slots
<1>1. CASE UNCHANGED historyVars
  BY <1>1 DEF historyVars
<1>2. CASE /\ ring' = [ring EXCEPT ![historyCounter] = records + 1]
           /\ historyCounter' = NextSlot
           /\ records' = records + 1
  <2>1. historyCounter' = IF historyCounter + 1 < HISTORY THEN historyCounter + 1 ELSE 0
    BY <1>2, NextSlotIs
  <2>2. records' = records + 1
    BY <1>2
  <2>3. HistoryTypes'
    BY <1>2, <2>1
  <2>4. ASSUME NEW k \in Slots
        PROVE  ring'[k] = IF k = historyCounter THEN records + 1 ELSE ring[k]
    BY <1>2
  <2>5. CASE historyCounter + 1 < HISTORY
    <3>1. historyCounter' = historyCounter + 1 /\ Round' = Round
      BY <2>1, <2>2, <2>5
    <3>2. ASSUME NEW k \in Slots
          PROVE  ring'[k] = IF k < historyCounter + 1 THEN Round + k + 1
                            ELSE IF Round = 0 THEN 0 ELSE Round - HISTORY + k + 1
      BY <2>4
    <3> QED BY <2>3, <3>1, <3>2
  <2>6. CASE historyCounter + 1 = HISTORY
    <3>1. historyCounter' = 0 /\ Round' = Round + HISTORY
      BY <2>1, <2>2, <2>6
    <3>2. ASSUME NEW k \in Slots
          PROVE  ring'[k] = Round + k + 1
      BY <2>4, <2>6
    <3>3. Round + HISTORY >= HISTORY
      OBVIOUS
    <3>4. Recorded'
      BY <3>1, <3>2, <3>3
    <3> QED BY <2>3, <3>4
  <2> QED BY <2>5, <2>6
<1> QED BY <1>1, <1>2 DEF Record

LEMMA RecordedNext ==
  ASSUME HistoryTypes, Recorded, [Next]_vars
  PROVE  HistoryTypes' /\ Recorded'
<1>1. CASE UNCHANGED historyVars
  BY <1>1 DEF historyVars, HistoryTypes, Recorded, Round
<1>2. CASE Fresh
  BY <1>2, Sizes DEF Fresh, Empty, HistoryTypes, Recorded, Round, Slots
<1>3. CASE eachSecondTasks
  BY <1>1, <1>3, RecordOK DEF eachSecondTasks
<1> QED
  BY <1>1, <1>2, <1>3
  DEF Next, vars, Tasks, Configured, Start, Second, RequestEnds, RelaySwitches, PingEnds,
      CheckWifi

\* What is shown is every record but the one that is overwritten next.
LEMMA ShownAre ==
  ASSUME HistoryTypes, Recorded
  PROVE  /\ Round = 0 => Shown = 1 .. historyCounter - 1
         /\ Round # 0 => Shown = Slots \ {historyCounter}
<1> DEFINE Both(k) == ring[k] # 0 /\ ring[(k + HISTORY - 1) % HISTORY] # 0
<1>1. Shown = {k \in Slots \ {historyCounter} : Both(k)}
  BY OtherSlots DEF Shown, HistoryTypes
<1>2. ASSUME NEW k \in Slots \ {historyCounter}
      PROVE  Both(k) <=> (Round = 0 => k \in 1 .. historyCounter - 1)
  <2> DEFINE before == IF k = 0 THEN HISTORY - 1 ELSE k - 1
  <2>1. (k + HISTORY - 1) % HISTORY = before
    BY SlotBefore
  <2>2. before \in Slots
    BY Sizes DEF Slots
  <2>3. ring[k] # 0 /\ ring[before] # 0 <=> (Round = 0 => k \in 1 .. historyCounter - 1)
    BY <2>2, Sizes DEF HistoryTypes, Recorded, Round, Slots
  <2> QED BY <2>1, <2>3, Zenon
<1> HIDE DEF Both
<1>3. CASE Round = 0
  <2>1. 1 .. historyCounter - 1 \subseteq Slots \ {historyCounter}
    BY Sizes DEF HistoryTypes, Slots
  <2>2. Shown = 1 .. historyCounter - 1
    BY <1>1, <1>2, <1>3, <2>1
  <2> QED BY <1>3, <2>2
<1>4. CASE Round # 0
  <2>1. Shown = Slots \ {historyCounter}
    BY <1>1, <1>2, <1>4
  <2> QED BY <1>4, <2>1
<1> QED BY <1>3, <1>4

LEMMA HistoryOK ==
  ASSUME HistoryTypes, Recorded
  PROVE  HistoryShown
<1> USE Sizes DEF HistoryTypes, Recorded, Round
<1>1. ASSUME NEW k \in Shown
      PROVE  ring[k] = ring[(k + HISTORY - 1) % HISTORY] + 1
  <2> DEFINE before == IF k = 0 THEN HISTORY - 1 ELSE k - 1
  <2>1. /\ k \in Slots /\ k # historyCounter
        /\ Round = 0 => k \in 1 .. historyCounter - 1
    BY ShownAre DEF Slots
  <2>2. (k + HISTORY - 1) % HISTORY = before
    BY <2>1, SlotBefore
  <2>3. before \in Slots
    BY <2>1 DEF Slots
  <2>4. /\ ring[k] = IF k < historyCounter THEN Round + k + 1 ELSE Round - HISTORY + k + 1
        /\ ring[before] = IF before < historyCounter THEN Round + before + 1
                         ELSE IF Round = 0 THEN 0 ELSE Round - HISTORY + before + 1
    BY <2>1, <2>3 DEF Slots
  <2>5. ring[k] = ring[before] + 1
    BY <2>1, <2>4 DEF Slots
  <2> QED BY <2>2, <2>5, Zenon
<1>2. ASSUME records > 0
      PROVE  Cardinality(Shown) = (IF records < HISTORY THEN records ELSE HISTORY) - 1
  <2>1. CASE Round = 0
    <3>1. records = historyCounter /\ historyCounter \in 1 .. HISTORY - 1
      BY <1>2, <2>1 DEF Slots
    <3>2. Cardinality(1 .. historyCounter - 1) = historyCounter - 1
      BY <3>1, FS_Interval
    <3> QED BY <2>1, <3>1, <3>2, ShownAre
  <2>2. CASE Round # 0
    <3>1. IsFiniteSet(Slots) /\ Cardinality(Slots) = HISTORY
      BY FS_Interval DEF Slots
    <3>2. Cardinality(Slots \ {historyCounter}) = HISTORY - 1
      BY <3>1, FS_RemoveElement
    <3>3. ~(records < HISTORY)
      BY <2>2 DEF Slots
    <3>4. Shown = Slots \ {historyCounter}
      BY <2>2, ShownAre, Zenon
    <3> QED BY <3>2, <3>3, <3>4
  <2> QED BY <2>1, <2>2
<1> QED BY <1>1, <1>2 DEF HistoryShown
--------------------------------------------------------------------------------
(* What is on its way to the broker *)

LEMMA AnnouncedOK ==
  /\ DOMAIN Announced = Topics
  /\ Announced["state"] = "connected" /\ Announced["sensors"] = Measures \cup Indexes
  /\ Announced["commands"] = Commands
  BY DEF Announced, Topics

LEMMA MessagesOK ==
  /\ \A topic \in Topics : <<topic, Announced[topic]>> \in Messages
  /\ \A m \in Modes : <<"mode", m>> \in Messages
  /\ \A m \in Messages : \/ m[1] \in Topics /\ m[2] = Announced[m[1]]
                         \/ m[1] = "mode" /\ m[2] \in Modes
  BY AnnouncedOK DEF Messages

LEMMA TailOK ==
  ASSUME NEW box \in Seq(Messages), box # <<>>
  PROVE  /\ Head(box) \in Messages /\ Tail(box) \in Seq(Messages) /\ Len(Tail(box)) < Len(box)
         /\ \A topic : In(box, topic) => Head(box)[1] = topic \/ In(Tail(box), topic)
         /\ \A m : Current(box, m) => Current(Tail(box), m)
                                   /\ (Head(box)[1] = "mode" => Head(box)[2] = m)
<1>1. /\ Head(box) \in Messages /\ Tail(box) \in Seq(Messages) /\ Len(Tail(box)) = Len(box) - 1
      /\ Len(box) \in Nat /\ Len(box) > 0 /\ Head(box) = box[1]
      /\ \A k \in 1 .. Len(Tail(box)) : Tail(box)[k] = box[k + 1]
  OBVIOUS
<1>2. DOMAIN box = 1 .. Len(box) /\ DOMAIN Tail(box) = 1 .. Len(box) - 1
  BY <1>1
<1>3. ASSUME NEW topic, NEW k \in DOMAIN box, box[k][1] = topic, Head(box)[1] # topic
      PROVE  In(Tail(box), topic)
  <2>1. k - 1 \in 1 .. Len(box) - 1
    BY <1>1, <1>2, <1>3
  <2>2. Tail(box)[k - 1] = box[k]
    BY <1>1, <1>2, <2>1
  <2> QED BY <1>2, <1>3, <2>1, <2>2 DEF In
<1>4. ASSUME NEW m, Current(box, m)
      PROVE  Current(Tail(box), m) /\ (Head(box)[1] = "mode" => Head(box)[2] = m)
  <2>1. ASSUME NEW k \in DOMAIN Tail(box), Tail(box)[k][1] = "mode"
        PROVE  Tail(box)[k][2] = m
    <3>1. k + 1 \in DOMAIN box /\ Tail(box)[k] = box[k + 1]
      BY <1>1, <1>2
    <3> QED BY <1>4, <2>1, <3>1 DEF Current
  <2>2. 1 \in DOMAIN box
    BY <1>1, <1>2
  <2> QED BY <1>1, <1>4, <2>1, <2>2 DEF Current
<1> QED BY <1>1, <1>3, <1>4 DEF In

LEMMA ConcatOK ==
  ASSUME NEW box \in Seq(Messages), NEW more \in Seq(Messages)
  PROVE  /\ box \o more \in Seq(Messages) /\ Len(box \o more) = Len(box) + Len(more)
         /\ \A topic : In(box, topic) \/ In(more, topic) => In(box \o more, topic)
         /\ \A m : Current(box, m) /\ Current(more, m) => Current(box \o more, m)
<1> DEFINE both == box \o more
<1>1. /\ both \in Seq(Messages) /\ Len(both) = Len(box) + Len(more)
      /\ Len(box) \in Nat /\ Len(more) \in Nat
      /\ DOMAIN box = 1 .. Len(box) /\ DOMAIN more = 1 .. Len(more)
      /\ DOMAIN both = 1 .. Len(box) + Len(more)
  OBVIOUS
<1>2. /\ \A k \in 1 .. Len(box) : both[k] = box[k]
      /\ \A k \in 1 .. Len(more) : both[Len(box) + k] = more[k]
  OBVIOUS
<1> HIDE DEF both
<1>3. ASSUME NEW topic, In(box, topic) \/ In(more, topic)
      PROVE  In(both, topic)
  <2>1. CASE In(box, topic)
    BY <1>1, <1>2, <2>1 DEF In
  <2>2. CASE In(more, topic)
    <3>1. PICK k \in 1 .. Len(more) : more[k][1] = topic
      BY <1>1, <2>2 DEF In
    <3>2. Len(box) + k \in 1 .. Len(box) + Len(more)
      BY <1>1
    <3> QED BY <1>1, <1>2, <3>1, <3>2 DEF In
  <2> QED BY <1>3, <2>1, <2>2
<1>4. ASSUME NEW m, Current(box, m), Current(more, m)
      PROVE  Current(both, m)
  <2>1. ASSUME NEW k \in 1 .. Len(box) + Len(more), both[k][1] = "mode"
        PROVE  both[k][2] = m
    <3>1. CASE k \in 1 .. Len(box)
      BY <1>1, <1>2, <1>4, <2>1, <3>1 DEF Current
    <3>2. CASE k \notin 1 .. Len(box)
      <4>1. k - Len(box) \in 1 .. Len(more) /\ Len(box) + (k - Len(box)) = k
        BY <1>1, <3>2
      <4>2. both[k] = more[k - Len(box)]
        BY <1>2, <4>1
      <4> QED BY <1>1, <1>4, <2>1, <4>1, <4>2 DEF Current
    <3> QED BY <3>1, <3>2
  <2> QED BY <1>1, <2>1 DEF Current
<1> QED BY <1>1, <1>3, <1>4 DEF both

\* The messages that are published.
LEMMA PublishedOK ==
  /\ \A m \in Modes : /\ << <<"mode", m>> >> \in Seq(Messages)
                      /\ Current(<< <<"mode", m>> >>, m) /\ In(<< <<"mode", m>> >>, "mode")
  /\ onMqttConnect =>
       \E more \in Seq(Messages) :
         /\ outbox' = outbox \o more /\ Len(more) = 3
         /\ \A topic \in Topics : In(more, topic)
         /\ \A m : Current(more, m)
<1>1. ASSUME NEW m \in Modes
      PROVE  /\ << <<"mode", m>> >> \in Seq(Messages)
             /\ Current(<< <<"mode", m>> >>, m) /\ In(<< <<"mode", m>> >>, "mode")
  <2> DEFINE one == << <<"mode", m>> >>
  <2>1. DOMAIN one = {1} /\ one[1][1] = "mode" /\ one[1][2] = m
    OBVIOUS
  <2>2. <<"mode", m>> \in Messages
    BY MessagesOK
  <2>3. one \in Seq(Messages)
    BY <2>2
  <2> QED BY <2>1, <2>3 DEF Current, In
<1>2. ASSUME onMqttConnect
      PROVE  \E more \in Seq(Messages) :
               /\ outbox' = outbox \o more /\ Len(more) = 3
               /\ \A topic \in Topics : In(more, topic)
               /\ \A m : Current(more, m)
  <2> DEFINE more == << <<"state", Announced["state"]>>, <<"sensors", Announced["sensors"]>>,
                        <<"commands", Announced["commands"]>> >>
  <2>1. outbox' = outbox \o more
    BY <1>2, AnnouncedOK DEF onMqttConnect, Publish
  <2>2. more \in Seq(Messages) /\ Len(more) = 3 /\ DOMAIN more = 1 .. 3
    BY MessagesOK DEF Topics
  <2>3. more[1][1] = "state" /\ more[2][1] = "sensors" /\ more[3][1] = "commands"
    OBVIOUS
  <2> HIDE DEF more
  <2>4. \A topic \in Topics : In(more, topic)
    BY <2>2, <2>3 DEF In, Topics
  <2>5. \A m : Current(more, m)
    BY <2>2, <2>3 DEF Current
  <2> QED BY <2>1, <2>2, <2>4, <2>5
<1> QED BY <1>1, <1>2
--------------------------------------------------------------------------------
(* The client and the broker *)

MqttTypes ==
  /\ link \in {"off", "connecting", "stalled", "up", "waiting"}
  /\ timer \in 0 .. RECONNECT /\ session \in {"none", "open", "stale"}
  /\ online \in Nat /\ calm \in Nat /\ mode \in Modes
  /\ outbox \in Seq(Messages) /\ Len(outbox) <= QUEUE + 1 /\ (due => Len(outbox) <= QUEUE)
  /\ DOMAIN retained = Topics \cup {"mode"}

MqttInv == MqttTypes /\ Client /\ Broker /\ Reported

\* Nothing but MQTT moves.
Still == UNCHANGED <<configVars, second, due>>

LEMMA StillOK ==
  ASSUME Still
  PROVE  /\ SettingUp' <=> SettingUp
         /\ Active("mqtt")' <=> Active("mqtt")
         /\ UNCHANGED <<network, second, due>>
  BY DEF Still, SettingUp, Active, configVars

LEMMA YieldsOK == Yields => ~SettingUp
  BY DEF Yields, SettingUp

LEMMA ConnectedOK ==
  ASSUME MqttInv, Still, Yields, Connected
  PROVE  MqttInv'
<1> USE Times, StillOK, YieldsOK DEF MqttInv
<1>1. /\ link \in {"connecting", "stalled"} /\ network /\ link' = "up" /\ session' = "open"
      /\ UNCHANGED <<timer, mode, online, calm>>
      /\ DOMAIN retained' = DOMAIN retained /\ retained'["mode"] = retained["mode"]
  BY DEF Connected, MqttTypes
<1>2. PICK more \in Seq(Messages) :
        /\ outbox' = outbox \o more /\ Len(more) = 3
        /\ \A topic \in Topics : In(more, topic)
        /\ \A m : Current(more, m)
  BY PublishedOK DEF Connected
<1>3. /\ outbox' \in Seq(Messages) /\ Len(outbox') = 3
      /\ \A topic \in Topics : In(outbox', topic)
      /\ In(outbox, "mode") => In(outbox', "mode")
      /\ Current(outbox, mode) => Current(outbox', mode)
  <2>1. outbox = <<>> /\ outbox \in Seq(Messages) /\ Len(outbox) = 0
    BY <1>1 DEF Broker, MqttTypes
  <2>2. /\ outbox' \in Seq(Messages) /\ Len(outbox') = 0 + 3
        /\ \A topic : In(outbox, topic) \/ In(more, topic) => In(outbox', topic)
        /\ \A m : Current(outbox, m) /\ Current(more, m) => Current(outbox', m)
    BY <1>2, <2>1, ConcatOK
  <2> QED BY <1>2, <2>2
<1>4. MqttTypes'
  BY <1>1, <1>3 DEF MqttTypes
<1>5. Client'
  BY <1>1 DEF Client, MqttTypes
<1>6. Broker'
  BY <1>1, <1>3 DEF Broker, Client, MqttTypes
<1>7. Reported'
  BY <1>1, <1>3 DEF Reported
<1> QED BY <1>4, <1>5, <1>6, <1>7

LEMMA DisconnectedOK ==
  ASSUME MqttInv, Still, Yields, NotConnected \/ ConnectionLost
  PROVE  MqttInv'
<1> USE Times, StillOK, YieldsOK DEF MqttInv
<1>1. /\ link' = "waiting" /\ timer' = RECONNECT /\ outbox' = <<>>
      /\ session' \in {session, "stale"} /\ UNCHANGED <<retained, mode, online, calm>>
  BY DEF NotConnected, ConnectionLost, onMqttDisconnect
<1>2. online = 0
  BY DEF NotConnected, ConnectionLost, Client, MqttTypes
<1>3. MqttTypes'
  <2>1. <<>> \in Seq(Messages) /\ Len(<<>>) = 0
    OBVIOUS
  <2> QED BY <1>1, <2>1 DEF MqttTypes
<1>4. Client'
  BY <1>1, <1>2 DEF Client
<1>5. Broker' /\ Reported'
  BY <1>1, <1>2 DEF Broker, Reported
<1> QED BY <1>3, <1>4, <1>5

LEMMA TimerEndsOK ==
  ASSUME MqttInv, Still, Yields, TimerEnds
  PROVE  MqttInv'
<1> USE Times, StillOK, YieldsOK DEF MqttInv
<1>1. /\ link = "waiting" /\ timer = 0
      /\ link' = IF network THEN "connecting" ELSE "stalled"
      /\ UNCHANGED <<timer, outbox, session, retained, mode, online, calm>>
  BY DEF TimerEnds, mqttConnect
<1>2. MqttTypes'
  BY <1>1 DEF MqttTypes
<1>3. Client'
  BY <1>1 DEF Client, MqttTypes
<1>4. Broker' /\ Reported'
  BY <1>1 DEF Broker, Reported
<1> QED BY <1>2, <1>3, <1>4

LEMMA DeliverOK ==
  ASSUME MqttInv, Still, second \in Nat, Deliver
  PROVE  MqttInv'
<1> USE Times, StillOK DEF MqttInv
<1> DEFINE m == Head(outbox)
<1>1. /\ link = "up" /\ session = "open" /\ outbox # <<>> /\ outbox' = Tail(outbox)
      /\ retained' = [retained EXCEPT ![m[1]] = m[2]]
      /\ UNCHANGED <<link, timer, session, mode, online, calm>>
  BY DEF Deliver
<1>2. /\ m \in Messages /\ outbox' \in Seq(Messages) /\ Len(outbox') < Len(outbox)
      /\ \A topic : In(outbox, topic) => m[1] = topic \/ In(outbox', topic)
      /\ Current(outbox, mode) => Current(outbox', mode) /\ (m[1] = "mode" => m[2] = mode)
  BY <1>1, TailOK DEF MqttTypes
<1>3. /\ DOMAIN retained' = DOMAIN retained
      /\ \A topic \in Topics \cup {"mode"} :
           retained'[topic] = IF topic = m[1] THEN m[2] ELSE retained[topic]
  BY <1>1 DEF MqttTypes
<1>4. /\ m[1] \in Topics => m[2] = Announced[m[1]]
      /\ "mode" \notin Topics
  BY <1>2, MessagesOK DEF Topics
<1> HIDE DEF m
<1>5. MqttTypes'
  BY <1>1, <1>2, <1>3 DEF MqttTypes
<1>6. Client'
  BY <1>1 DEF Client
<1>7. Broker'
  BY <1>1, <1>2, <1>3, <1>4 DEF Broker
<1>8. Reported'
  <2>1. ASSUME online > 0, calm > 0
        PROVE  retained'["mode"] = IF m[1] = "mode" THEN mode ELSE retained["mode"]
    BY <1>2, <1>3, <2>1 DEF Broker
  <2> QED BY <1>1, <1>2, <2>1 DEF Reported, MqttTypes
<1> QED BY <1>5, <1>6, <1>7, <1>8

LEMMA WillPublishedOK ==
  ASSUME MqttInv, Still, WillPublished
  PROVE  MqttInv'
<1> USE Times, StillOK DEF MqttInv
<1>1. /\ session = "stale" \/ (session = "open" /\ ~network)
      /\ session' = "none" /\ UNCHANGED <<link, timer, outbox, mode, online, calm>>
      /\ DOMAIN retained' = DOMAIN retained /\ retained'["mode"] = retained["mode"]
  BY DEF WillPublished, MqttTypes
<1>2. online <= RECONNECT
  BY <1>1 DEF Client, MqttTypes
<1>3. MqttTypes'
  BY <1>1 DEF MqttTypes
<1>4. Client'
  BY <1>1 DEF Client
<1>5. Broker'
  BY <1>1, <1>2 DEF Broker, MqttTypes
<1>6. Reported'
  BY <1>1 DEF Reported
<1> QED BY <1>3, <1>4, <1>5, <1>6

LEMMA ModesOK ==
  ASSUME MqttInv, Still, Yields, second \in Nat,
         NEW m \in Modes, AskMode(m) \/ NanoReports(m)
  PROVE  MqttInv'
<1> USE Times, StillOK, YieldsOK DEF MqttInv
<1>1. /\ calm' = 0 /\ mode' \in {mode, m} /\ UNCHANGED <<link, timer, session, retained, online>>
      /\ \/ UNCHANGED outbox
         \/ link = "up" /\ outbox' = outbox \o << <<"mode", m>> >> /\ Len(outbox) < QUEUE
  BY DEF AskMode, NanoReports, Publish
<1>2. /\ outbox' \in Seq(Messages) /\ Len(outbox') <= QUEUE + 1 /\ (due => Len(outbox') <= QUEUE)
      /\ \A topic : In(outbox, topic) => In(outbox', topic)
  <2>1. CASE UNCHANGED outbox
    BY <2>1 DEF MqttTypes
  <2>2. CASE outbox' = outbox \o << <<"mode", m>> >> /\ Len(outbox) < QUEUE
    <3>1. << <<"mode", m>> >> \in Seq(Messages) /\ Len(<< <<"mode", m>> >>) = 1
      BY PublishedOK
    <3>2. outbox \in Seq(Messages) /\ Len(outbox) \in Nat
      BY DEF MqttTypes
    <3>3. /\ outbox' \in Seq(Messages) /\ Len(outbox') = Len(outbox) + 1
          /\ \A topic : In(outbox, topic) => In(outbox', topic)
      BY <2>2, <3>1, <3>2, ConcatOK
    <3>4. Len(outbox') <= QUEUE /\ Len(outbox') <= QUEUE + 1
      BY <2>2, <3>2, <3>3
    <3> QED BY <3>3, <3>4
  <2> QED BY <1>1, <2>1, <2>2
<1>3. MqttTypes'
  BY <1>1, <1>2 DEF MqttTypes
<1>4. Client'
  BY <1>1 DEF Client
<1>5. Broker' /\ Reported'
  BY <1>1, <1>2 DEF Broker, Reported, MqttTypes
<1> QED BY <1>3, <1>4, <1>5

LEMMA MqttStepsOK ==
  ASSUME MqttInv, Still, second \in Nat, MqttSteps
  PROVE  MqttInv'
  BY ConnectedOK, DisconnectedOK, TimerEndsOK, DeliverOK, WillPublishedOK, ModesOK DEF MqttSteps

LEMMA Countdown ==
  ASSUME NEW n \in Nat, NEW m \in Nat, NEW t \in 0 .. RECONNECT,
         m <= n + 1, n = 0 \/ n + t <= RECONNECT
  PROVE  m + (t - 1) <= RECONNECT
  BY Times

LEMMA MqttSecondOK ==
  ASSUME MqttInv, second \in 0 .. PERIOD - 1, Second
  PROVE  MqttInv'
<1> USE Times DEF MqttInv
<1>1. /\ ~SettingUp /\ UNCHANGED network /\ due' = TRUE /\ ~due
      /\ Active("mqtt")' <=> Active("mqtt")
      /\ link = "waiting" => timer > 0
      /\ Len(outbox) < QUEUE
      /\ network => link \notin {"connecting", "stalled"}
      /\ network /\ link = "up" => session = "open" /\ outbox = <<>>
      /\ timer' = IF link = "waiting" THEN timer - 1 ELSE timer
      /\ UNCHANGED <<link, outbox, session, retained, mode>>
  BY DEF Second, MqttSettled, MqttSecond, SettingUp, InLoop, Active, configVars
<1>2. /\ online' \in Nat /\ online' <= online + 1
      /\ online' > RECONNECT + 1 => online > RECONNECT
      /\ online' > RECONNECT + PERIOD => online >= RECONNECT + PERIOD
      /\ online' > 0 => network /\ link # "off"
      /\ link = "off" => online' = 0
  BY DEF Second, MqttSecond, LongOnline, MqttTypes
<1>3. /\ calm' \in Nat /\ calm' <= calm + 1 /\ (calm' > PERIOD => calm >= PERIOD)
      /\ link = "off" => calm' = 0
  BY DEF Second, MqttSecond, LongCalm, MqttTypes
<1>4. ~SettingUp'
  BY DEF Second, SettingUp, InLoop, configVars
<1>5. MqttTypes'
  BY <1>1, <1>2, <1>3 DEF MqttTypes
<1>6. Client'
  <2>1. ASSUME online' > 0
        PROVE  /\ network /\ link \in {"up", "waiting"} /\ (link = "up" => session = "open")
               /\ link = "waiting" => online' + timer' <= RECONNECT
    <3>1. network /\ link \in {"up", "waiting"} /\ (link = "up" => session = "open")
      BY <1>1, <1>2, <2>1 DEF MqttTypes
    <3>2. ASSUME link = "waiting"
          PROVE  online' + timer' <= RECONNECT
      <4>1. timer' = timer - 1 /\ timer \in 0 .. RECONNECT
        BY <1>1, <3>2 DEF MqttTypes
      <4>2. online = 0 \/ online + timer <= RECONNECT
        BY <3>2 DEF Client, MqttTypes
      <4>3. online \in Nat /\ online' \in Nat /\ online' <= online + 1
        BY <1>2 DEF MqttTypes
      <4>4. online' + (timer - 1) <= RECONNECT
        BY <4>1, <4>2, <4>3, Countdown, Zenon
      <4> QED BY <4>1, <4>4, Zenon
    <3> QED BY <3>1, <3>2
  <2> QED BY <1>1, <1>2, <1>3, <1>4, <2>1 DEF Client
<1>7. /\ \A topic : ~In(<<>>, topic)
      /\ \A m : Current(<<>>, m)
  BY DEF In, Current
<1>8. online > RECONNECT => link = "up"
  BY <1>1 DEF Client, MqttTypes
<1>9. online' > 0 => outbox = <<>>
  BY <1>1, <1>2 DEF Broker
<1>10. Broker'
  BY <1>1, <1>2, <1>7, <1>8, <1>9 DEF Broker, MqttTypes
<1>11. Reported'
  <2>1. ASSUME Active("mqtt"), online' > 0, online > RECONNECT + second, calm > second
        PROVE  retained["mode"] = mode
    BY <1>1, <1>7, <1>9, <2>1 DEF Reported, MqttTypes
  <2>2. second' = IF second < PERIOD - 1 THEN second + 1 ELSE 0
    BY PeriodRange DEF Second
  <2> QED BY <1>1, <1>2, <1>3, <2>1, <2>2 DEF Reported, MqttTypes
<1> QED BY <1>5, <1>6, <1>10, <1>11

LEMMA ReportsOK ==
  ASSUME MqttInv, eachSecondTasks
  PROVE  MqttInv'
<1> USE Times DEF MqttInv
<1>1. /\ due /\ due' = FALSE
      /\ UNCHANGED <<second, link, timer, session, retained, mode, online, calm>>
      /\ SettingUp' <=> SettingUp
      /\ Active("mqtt")' <=> Active("mqtt")
      /\ UNCHANGED network
  BY DEF eachSecondTasks, SettingUp, Active, configVars
<1>2. \/ /\ second = 0 /\ Active("mqtt") /\ link = "up"
         /\ outbox' = outbox \o << <<"mode", mode>> >>
      \/ /\ ~(second = 0 /\ Active("mqtt") /\ link = "up")
         /\ UNCHANGED outbox
  BY DEF eachSecondTasks, Reports, mqttTransmit, Publish
<1>3. mode \in Modes /\ outbox \in Seq(Messages) /\ Len(outbox) \in Nat /\ Len(outbox) <= QUEUE
  BY <1>1 DEF MqttTypes
<1>4. /\ outbox' \in Seq(Messages) /\ Len(outbox') <= QUEUE + 1
      /\ \A topic : In(outbox, topic) => In(outbox', topic)
      /\ Current(outbox, mode) => Current(outbox', mode)
      /\ second = 0 /\ Active("mqtt") /\ link = "up" => In(outbox', "mode")
  <2>1. CASE /\ second = 0 /\ Active("mqtt") /\ link = "up"
             /\ outbox' = outbox \o << <<"mode", mode>> >>
    <3> DEFINE one == << <<"mode", mode>> >>
    <3>1. one \in Seq(Messages) /\ Len(one) = 1 /\ Current(one, mode) /\ In(one, "mode")
      BY <1>3, PublishedOK
    <3> HIDE DEF one
    <3>2. /\ outbox' \in Seq(Messages) /\ Len(outbox') = Len(outbox) + 1
          /\ \A topic : In(outbox, topic) \/ In(one, topic) => In(outbox', topic)
          /\ Current(outbox, mode) => Current(outbox', mode)
      BY <1>3, <2>1, <3>1, ConcatOK DEF one
    <3> QED BY <1>3, <3>1, <3>2
  <2>2. CASE /\ ~(second = 0 /\ Active("mqtt") /\ link = "up")
             /\ UNCHANGED outbox
    BY <1>3, <2>2
  <2> QED BY <1>2, <2>1, <2>2
<1>5. MqttTypes'
  BY <1>1, <1>4 DEF MqttTypes
<1>6. Client'
  BY <1>1 DEF Client
<1>7. Broker'
  BY <1>1, <1>2, <1>4 DEF Broker
<1>8. online > RECONNECT => link = "up"
  BY <1>1 DEF Client, MqttTypes, eachSecondTasks, SettingUp, InLoop
<1>9. Reported'
  BY <1>1, <1>4, <1>8 DEF Reported
<1> QED BY <1>5, <1>6, <1>7, <1>9

LEMMA NetworkFailsOK ==
  ASSUME MqttInv, second \in Nat, NetworkFails, MqttNetwork, UNCHANGED Tasks
  PROVE  MqttInv'
<1> USE Times DEF MqttInv
<1>1. /\ link' = IF link = "connecting" THEN "stalled" ELSE link
      /\ online' = 0 /\ UNCHANGED <<timer, outbox, session, retained, mode, calm, second, due>>
      /\ SettingUp' <=> SettingUp
  BY DEF NetworkFails, MqttNetwork, Tasks, SettingUp
<1>2. MqttTypes'
  BY <1>1 DEF MqttTypes
<1>3. Client'
  BY <1>1 DEF Client
<1>4. Broker' /\ Reported'
  BY <1>1 DEF Broker, Reported
<1> QED BY <1>2, <1>3, <1>4

\* A client that is not started has nothing to say.
LEMMA ClientOff ==
  ASSUME MqttInv, link' = "off", outbox' = <<>>, online' = 0, calm' = 0, second' \in Nat,
         timer' \in 0 .. RECONNECT, session' \in {"none", "open", "stale"},
         UNCHANGED <<retained, mode>>
  PROVE  MqttInv'
<1> USE Times DEF MqttInv
<1>1. <<>> \in Seq(Messages) /\ Len(<<>>) = 0
  OBVIOUS
<1>2. MqttTypes'
  BY <1>1 DEF MqttTypes
<1>3. Client'
  BY DEF Client
<1>4. Broker'
  BY DEF Broker
<1>5. Reported'
  <2>1. ~(calm' > 0) /\ ~(calm' > second') /\ ~(calm' > PERIOD)
    OBVIOUS
  <2> QED BY <2>1, Zenon DEF Reported
<1> QED BY <1>2, <1>3, <1>4, <1>5

LEMMA MqttStopsOK ==
  ASSUME MqttInv, Fresh, NEW graceful \in BOOLEAN, MqttStops(graceful)
  PROVE  MqttInv'
<1>1. session' \in {"none", "open", "stale"}
  BY DEF MqttStops, MqttInv, MqttTypes
<1> QED BY <1>1, ClientOff, Times DEF MqttStops, Fresh

LEMMA SetupOff ==
  ASSUME MqttInv, SettingUp
  PROVE  link = "off" /\ outbox = <<>> /\ online = 0 /\ calm = 0
  BY DEF MqttInv, Client, Broker

LEMMA MqttConfigSteps ==
  ASSUME ConfigTypes, Kept, MqttInv, second \in Nat, ConfigSteps, UNCHANGED <<Tasks, mqttVars>>
  PROVE  MqttInv'
<1>1. UNCHANGED <<link, timer, outbox, session, retained, mode, online, calm, second, due>>
  BY DEF Tasks, mqttVars
<1>2. CASE SettingUp
  <2>1. link' = "off" /\ outbox' = <<>> /\ online' = 0 /\ calm' = 0
    BY <1>1, <1>2, SetupOff
  <2>2. timer' \in 0 .. RECONNECT /\ session' \in {"none", "open", "stale"}
    BY <1>1 DEF MqttInv, MqttTypes
  <2> QED BY <1>1, <2>1, <2>2, ClientOff
<1>3. CASE ~SettingUp
  <2>1. ~SettingUp' /\ UNCHANGED <<config, network>>
    BY <1>3, SetupStays
       DEF ConfigSteps, ReadFile, Format, Connect, Portal, SetupSave, Written, LoopSave,
           LoopReboot, SaveIfNeeded, EraseConfig, RebootEsp, SettingUp
  <2>2. MqttTypes'
    BY <1>1 DEF MqttInv, MqttTypes
  <2>3. Client'
    BY <1>1, <2>1 DEF MqttInv, Client
  <2>4. Broker' /\ Reported'
    BY <1>1, <2>1 DEF MqttInv, Broker, Reported, Active
  <2> QED BY <2>2, <2>3, <2>4 DEF MqttInv
<1> QED BY <1>2, <1>3

LEMMA MqttConfigured ==
  ASSUME MqttInv, second \in Nat, Configured
  PROVE  MqttInv'
<1> USE Times DEF MqttInv
<1>1. /\ calm' = 0
      /\ UNCHANGED <<second, due, link, timer, outbox, session, retained, mode, online>>
      /\ UNCHANGED network
      /\ ~SettingUp'
  BY DEF Configured, SetConfig, Yields, SettingUp
<1>2. MqttTypes'
  BY <1>1 DEF MqttTypes
<1>3. Client'
  BY <1>1 DEF Client
<1>4. Broker' /\ Reported'
  BY <1>1 DEF Broker, Reported
<1> QED BY <1>2, <1>3, <1>4

LEMMA MqttStarted ==
  ASSUME MqttInv, second \in Nat, Start
  PROVE  MqttInv'
<1> USE Times DEF MqttInv
<1>1. /\ link' \in {"off", "connecting", "stalled"}
      /\ UNCHANGED <<second, due, timer, outbox, session, retained, mode, online, calm>>
      /\ ~SettingUp' /\ SettingUp
  <2>1. SettingUp
    BY DEF Start, SettingUp
  <2> QED BY <2>1, SetupOff DEF Start, startMqtt, mqttConnect, SettingUp
<1>2. outbox = <<>> /\ online = 0 /\ calm = 0
  BY <1>1, SetupOff
<1>3. MqttTypes'
  BY <1>1 DEF MqttTypes
<1>4. Client' /\ Broker' /\ Reported'
  BY <1>1, <1>2 DEF Client, Broker, Reported
<1> QED BY <1>3, <1>4

LEMMA MqttNext ==
  ASSUME ConfigTypes, Kept, MqttInv, second \in 0 .. PERIOD - 1, [Next]_vars
  PROVE  MqttInv'
<1>1. second \in Nat
  BY Times
<1>2. CASE Still /\ UNCHANGED mqttVars
  BY <1>2, StillOK DEF mqttVars, MqttInv, MqttTypes, Client, Broker, Reported
<1>3. CASE function = "mqtt" /\ MqttSteps /\ UNCHANGED <<configVars, Tasks>>
  BY <1>1, <1>3, MqttStepsOK DEF Still, Tasks
<1>4. CASE (Restart /\ Fresh /\ MqttStops(TRUE)) \/ (PowerFails /\ Fresh /\ MqttStops(FALSE))
  BY <1>4, MqttStopsOK
<1>5. CASE RequestEnds \/ RelaySwitches \/ PingEnds \/ CheckWifi
  BY <1>2, <1>5 DEF RequestEnds, RelaySwitches, PingEnds, CheckWifi, Still
<1> QED
  BY <1>1, <1>2, <1>3, <1>4, <1>5, MqttSecondOK, ReportsOK, NetworkFailsOK, MqttConfigSteps,
     MqttConfigured, MqttStarted
  DEF Next, vars, Still
--------------------------------------------------------------------------------
(* All of it *)

LEMMA InvParts ==
  EspInv <=> /\ ConfigTypes /\ Kept /\ RelayTypes /\ Mirrored /\ Looked /\ WatchTypes /\ Watching
             /\ HistoryTypes /\ Recorded /\ MqttInv
  BY Zenon DEF EspInv, TypeOK, MoreTypes, ConfigTypes, RelayTypes, WatchTypes, HistoryTypes,
       MqttTypes, MqttInv

LEMMA InvInit == Init => EspInv
<1> SUFFICES ASSUME Init PROVE EspInv
  OBVIOUS
<1> USE DEF Init
<1>1. ConfigTypes /\ Kept
  BY FilesOK DEF ConfigInit, ConfigTypes, Kept
<1>2. RelayTypes /\ Mirrored /\ Looked
  BY DEF RelayTypes, Mirrored, Looked, IDLE
<1>3. WatchTypes /\ Watching
  BY Times DEF WatchTypes, Watching, Late
<1>4. HistoryTypes /\ Recorded
  BY Sizes DEF Empty, HistoryTypes, Recorded, Round, Slots
<1>5. MqttInv
  <2>1. <<>> \in Seq(Messages) /\ Len(<<>>) = 0
    OBVIOUS
  <2>2. MqttTypes
    BY <2>1, Times DEF MqttInit, MqttTypes, Modes, Topics
  <2>3. Client /\ Broker /\ Reported
    BY Times DEF MqttInit, Client, Broker, Reported
  <2> QED BY <2>2, <2>3 DEF MqttInv
<1> QED BY <1>1, <1>2, <1>3, <1>4, <1>5, InvParts

LEMMA InvStep == EspInv /\ [Next]_vars => EspInv'
<1> SUFFICES ASSUME EspInv, [Next]_vars PROVE EspInv'
  OBVIOUS
<1>1. /\ ConfigTypes /\ Kept /\ RelayTypes /\ Mirrored /\ Looked /\ WatchTypes /\ Watching
      /\ HistoryTypes /\ Recorded /\ MqttInv
  BY InvParts
<1>2. second \in 0 .. PERIOD - 1
  BY <1>1 DEF WatchTypes
<1>3. /\ ConfigTypes' /\ Kept' /\ RelayTypes' /\ Mirrored' /\ Looked' /\ WatchTypes' /\ Watching'
      /\ HistoryTypes' /\ Recorded' /\ MqttInv'
  BY <1>1, <1>2, KeptNext, MirroredNext, LookedNext, WatchingNext, RecordedNext, MqttNext
<1>4. (/\ ConfigTypes /\ Kept /\ RelayTypes /\ Mirrored /\ Looked /\ WatchTypes /\ Watching
       /\ HistoryTypes /\ Recorded /\ MqttInv)'
  BY <1>3
<1> QED BY <1>4, InvParts, PTL

\* What the ESP keeps over a restart, and what its tasks keep in line, hold
\* together with their types.
THEOREM EspInvariant == Spec => []EspInv
  BY InvInit, InvStep, PTL DEF Spec

\* A start finds the configuration that it should, and no start repeats for ever,
\* whatever power failures, file system failures, erasures and restarts come.
THEOREM ConfigSurvives == Spec => []ConfigKept
<1>1. EspInv => ConfigKept
  BY DEF EspInv, Kept, ConfigKept
<1> QED BY <1>1, EspInvariant, PTL

\* Whatever the period, one period after the relay switched, or the task was activated,
\* the remote relay is as the relay of the router is: unless the last request to it was
\* dropped or failed.
THEOREM RemoteInLine == Spec => []RemoteFollows
<1>1. EspInv => RemoteFollows
  <2> SUFFICES ASSUME EspInv, steady > PERIOD, request = IDLE, ~missed PROVE remote = relay
    BY DEF RemoteFollows
  <2>1. /\ RelayTypes /\ Mirrored /\ Looked
        /\ second \in 0 .. PERIOD - 1
    BY InvParts DEF WatchTypes
  <2>2. previous = relay
    BY <2>1, Times DEF RelayTypes, Looked
  <2> QED BY <2>1, <2>2 DEF Mirrored
<1> QED BY <1>1, EspInvariant, PTL

\* Whatever the timeout and the period of the pings, an active watchdog bounds the
\* time without an answer by their sum.
THEOREM WifiNeverSilent == Spec => []WifiWatched
<1>1. EspInv => WifiWatched
  <2> SUFFICES ASSUME EspInv, watched > PERIOD PROVE silence <= TIMEOUT + PERIOD
    BY DEF WifiWatched
  <2>1. WatchTypes /\ Watching
    BY InvParts
  <2>2. watched >= second + 2
    BY <2>1, Times DEF WatchTypes
  <2> QED BY <2>1, <2>2, Times DEF WatchTypes, Watching, Late
<1> QED BY <1>1, EspInvariant, PTL

\* A ring of any length shows consecutive records, all but the oldest.
THEOREM HistoryConsecutive == Spec => []HistoryShown
<1>1. EspInv => HistoryShown
  BY InvParts, HistoryOK
<1> QED BY <1>1, EspInvariant, PTL

\* For all times and any queue, the broker catches up with the router and with the
\* mode that the Nano reports.
THEOREM BrokerFollows == Spec => []MqttFollows
<1>1. EspInv => MqttFollows
  <2> SUFFICES ASSUME EspInv, InLoop, online > RECONNECT + 1
               PROVE  /\ retained["state"] = "connected"
                      /\ retained["sensors"] = Measures \cup Indexes
                      /\ retained["commands"] = Commands
                      /\ Active("mqtt") /\ online > RECONNECT + PERIOD /\ calm > PERIOD =>
                           retained["mode"] = mode
    BY DEF MqttFollows
  <2>1. Broker /\ Reported
    BY DEF EspInv
  <2>2. \A topic \in Topics : retained[topic] = Announced[topic]
    BY <2>1 DEF Broker
  <2> QED BY <2>1, <2>2, AnnouncedOK DEF Topics, Reported
<1> QED BY <1>1, EspInvariant, PTL
================================================================================
