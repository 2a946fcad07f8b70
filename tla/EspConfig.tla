------------------------------- MODULE EspConfig -------------------------------
(***************************************************************************)
(* The start of the ESP and its configuration file.  The handlers of the   *)
(* web server run where the loop yields or waits; the file is truncated    *)
(* before it is written, and the power may fail in between.                *)
(***************************************************************************)
EXTENDS Integers, Sequences, FiniteSets

CONSTANTS
  Functions,    \* what a configuration activates: the remote relay, MQTT, the
                \* watchdog of the Wifi; the history needs none
  FAILURES      \* bound on the failures of the power and of the file system

ASSUME EspConfigAssumption == Functions \subseteq {"relay", "mqtt", "wifi", "history"} /\ FAILURES \in Nat

VARIABLES
  pc,           \* "read", "wifi", "portal", "save", "start": setup; "loop", "saved",
                \* "stopping": loop; "writing": configWrite, after its open
  back,         \* where configWrite returns to
  file,         \* config.json: NONE, CUT, or a configuration and if it has all keys
  config,       \* the configuration in use: the functions that are active
  function,     \* the function of this behaviour, which users switch on and off
  shouldSaveConfig, shouldReboot,
  network,      \* the Wifi of the configuration can be reached
  owed,         \* history: the configuration the next start should find
  clean,        \* history: the power did not fail before a configuration was saved
  restarts,     \* history: restarts since setup last came to the Wifi
  failures      \* such failures so far

flags == <<shouldSaveConfig, shouldReboot>>
fate == <<owed, clean, restarts, failures>>
configVars == <<pc, back, file, config, function, flags, network, fate>>

Configs == {{}, {function} \ {"history"}}
NONE == [config |-> {"none"}, keys |-> "none"]
CUT == [config |-> {"none"}, keys |-> "cut"]
Whole(c) == [config |-> c, keys |-> "all"]
Files == {NONE, CUT} \cup [config : Configs, keys : {"all", "some"}]
Active(f) == f \in config
InLoop == pc = "loop"
--------------------------------------------------------------------------------
(* setup *)

\* A file that is not valid is erased ...
Erased == NONE

\* ... and the ESP restarted; without a file the known Wifi is forgotten.
ReadFile ==
  /\ pc = "read"
  /\ \/ /\ file = NONE
        /\ pc' = "portal" /\ restarts' = 0
        /\ UNCHANGED <<file, config, shouldSaveConfig, owed, clean>>
     \/ /\ file = CUT
        /\ file' = Erased /\ restarts' = restarts + 1
        /\ owed' = NONE /\ clean' = TRUE
        /\ UNCHANGED <<pc, config, shouldSaveConfig>>
     \/ /\ file \notin {NONE, CUT}                                  \* configRead
        /\ config' = file.config
        /\ shouldSaveConfig' = (file.keys = "some")
        /\ owed' = Whole(file.config) /\ clean' = TRUE
        /\ pc' = "wifi" /\ restarts' = 0
        /\ UNCHANGED file
  /\ UNCHANGED <<back, function, shouldReboot, network, failures>>

\* A file system that cannot be mounted any more is formatted; when that fails
\* the ESP is restarted.
Format ==
  /\ pc = "read" /\ failures < FAILURES
  /\ failures' = failures + 1
  /\ file' = NONE
  /\ owed' = NONE /\ clean' = TRUE /\ restarts' = 0
  /\ UNCHANGED <<pc, back, config, function, flags, network>>

\* autoConnect: the known Wifi, or else the portal.
Connect ==
  /\ pc = "wifi"
  /\ pc' = IF network THEN "save" ELSE "portal"
  /\ UNCHANGED <<back, file, config, function, flags, network, fate>>

\* saveConfigCallback: a user gives a Wifi that works; the portal has no timeout.
Portal ==
  /\ pc = "portal"
  /\ pc' = "save" /\ network' = TRUE
  /\ shouldSaveConfig' = TRUE
  /\ owed' = Whole(config)
  /\ UNCHANGED <<back, file, config, function, shouldReboot, clean, restarts, failures>>

\* configWrite opens the file, and truncates it.
SaveIfNeeded(next) ==
  IF shouldSaveConfig
    THEN pc' = "writing" /\ back' = next /\ file' = CUT
    ELSE pc' = next /\ UNCHANGED <<back, file>>

SetupSave ==
  /\ pc = "save" /\ SaveIfNeeded("start")
  /\ UNCHANGED <<config, function, flags, network, fate>>

Written ==
  /\ pc = "writing"
  /\ file' = Whole(config)
  /\ shouldSaveConfig' = FALSE
  /\ pc' = back /\ back' = "loop"
  /\ UNCHANGED <<config, function, shouldReboot, network, fate>>
--------------------------------------------------------------------------------
(* loop *)

LoopSave ==
  /\ pc = "loop" /\ SaveIfNeeded("saved")
  /\ UNCHANGED <<config, function, flags, network, fate>>

\* Mutant: the restart does not wait for a configuration to be saved.
MayReboot_Now == shouldReboot

MayReboot == shouldReboot /\ ~shouldSaveConfig

\* rebootESP waits twice, and the handlers run meanwhile.
LoopReboot ==
  /\ pc = "saved"
  /\ pc' = IF MayReboot THEN "stopping" ELSE "loop"
  /\ UNCHANGED <<back, file, config, function, flags, network, fate>>

\* What the RAM holds at a start: nothing is active.
Ram == config' = {} /\ shouldSaveConfig' = FALSE /\ shouldReboot' = FALSE

Restart ==
  /\ pc = "stopping"
  /\ pc' = "read" /\ Ram
  /\ UNCHANGED <<back, file, function, network, fate>>
--------------------------------------------------------------------------------
(* The web: a handler runs at the yields of loop and in the waits of rebootESP *)

Yields == pc \in {"loop", "saved", "stopping"}

\* /api/set configmaxpv; a configuration that is not valid changes nothing.
SetConfig ==
  /\ Yields
  /\ config' \in Configs
  /\ shouldSaveConfig' = TRUE
  /\ owed' = IF pc = "stopping" THEN owed ELSE Whole(config')
  /\ UNCHANGED <<pc, back, file, function, shouldReboot, network, clean, restarts,
                 failures>>

\* /api/action eraseconfigesp; a save that is pending writes the file again.
EraseConfig ==
  /\ Yields
  /\ file' = NONE
  /\ owed' = IF shouldSaveConfig /\ pc # "stopping" THEN owed ELSE NONE
  /\ UNCHANGED <<pc, back, config, function, flags, network, clean, restarts,
                 failures>>

\* /api/action rebootesp
RebootEsp ==
  /\ Yields
  /\ shouldReboot' = TRUE
  /\ UNCHANGED <<pc, back, file, config, function, shouldSaveConfig, network, fate>>
--------------------------------------------------------------------------------
PowerFails ==
  /\ failures < FAILURES
  /\ failures' = failures + 1
  /\ pc' = "read" /\ Ram
  /\ clean' = (clean /\ ~shouldSaveConfig)
  /\ restarts' = 0
  /\ UNCHANGED <<back, file, function, network, owed>>

NetworkFails ==
  /\ network' = ~network
  /\ UNCHANGED <<pc, back, file, config, function, flags, fate>>

ConfigInit ==
  /\ function \in Functions
  /\ pc = "read" /\ back = "loop"
  /\ file \in Files \ {CUT}
  /\ config = {}
  /\ shouldSaveConfig = FALSE /\ shouldReboot = FALSE
  /\ network \in BOOLEAN
  /\ owed = IF file = NONE THEN NONE ELSE file
  /\ clean = TRUE /\ restarts = 0 /\ failures = 0

WebRequest == SetConfig \/ EraseConfig \/ RebootEsp
================================================================================
