------------------------------- MODULE Diversion -------------------------------
(***************************************************************************)
(* What the loop decides once per second about the two loads: the diversion*)
(* relay with its minimum times on and off, the BOOST of the SSR with its  *)
(* slow pulse width modulation, and the timer of the relay (RelayPlus);    *)
(* and the requests and restarts that come between two seconds.            *)
(***************************************************************************)
EXTENDS Integers

CONSTANTS
  OnTime, OffTime,      \* 60 * T_DIV2_ON and 60 * T_DIV2_OFF, in seconds
  BOOST_BURST_PERIOD,   \* period of the modulation, in seconds
  Thresholds,           \* values of burstThreshold SETBOOST can ask for
  Durations,            \* durations SETBOOST and SETRELPLUS ask for
  AgeMax                \* bound on the age of the last switch of the relay

ASSUME DiversionAssumption ==
  /\ OnTime \in Nat /\ OffTime \in Nat
  /\ BOOST_BURST_PERIOD \in Nat \ {0}
  /\ Thresholds \subseteq 0 .. BOOST_BURST_PERIOD
  /\ Durations \subseteq Nat
  /\ AgeMax \in Nat /\ OnTime < AgeMax /\ OffTime < AgeMax

VARIABLES
  relay,               \* relayPin: "ON" or "OFF"
  relayMode, triacMode,
  Div2_On_cnt, Div2_Off_cnt,
  boostTime, burstCnt, burstThreshold,
  relayplusTime,
  input,               \* what the filtered powers of the last second allow
  wanted,              \* history: what was asked for last, for each load
  switched             \* history: who switched the relay last, and seconds since

counters == <<Div2_On_cnt, Div2_Off_cnt>>
boost == <<boostTime, burstCnt, burstThreshold>>
history == <<input, wanted, switched>>
loadsVars == <<relay, relayMode, triacMode, counters, boost, relayplusTime, history>>

Modes == {"STOP", "FORCE", "AUTOM"}

\* Psurplus >= P_DIV2_ACTIVE and Pact_filtered >= P_DIV2_IDLE.  Outside AUTOM
\* Psurplus is - Pact_filtered: not both, the thresholds not being both 0.
Inputs == IF triacMode = "AUTOM"
            THEN SUBSET {"surplus", "import"}
            ELSE {{}, {"surplus"}, {"import"}}
--------------------------------------------------------------------------------
(* The relay, in one second of the loop *)

\* Mutant: the minimum time on is not armed.
Activate_NoTimeOn ==
  /\ "surplus" \in input' /\ Div2_Off_cnt = 0 /\ relay = "OFF"
  /\ relay' = "ON"
  /\ UNCHANGED counters

\* Surplus, and the minimum time off is over.
Activate ==
  /\ "surplus" \in input' /\ Div2_Off_cnt = 0 /\ relay = "OFF"
  /\ relay' = "ON"
  /\ Div2_On_cnt' = OnTime
  /\ UNCHANGED Div2_Off_cnt

CountOn ==
  /\ Div2_On_cnt > 0
  /\ Div2_On_cnt' = Div2_On_cnt - 1
  /\ UNCHANGED <<relay, Div2_Off_cnt>>

\* Import, and the minimum time on is over.
Deactivate ==
  /\ Div2_On_cnt = 0 /\ "import" \in input' /\ relay = "ON"
  /\ relay' = "OFF"
  /\ Div2_Off_cnt' = OffTime
  /\ UNCHANGED Div2_On_cnt

\* Mutant: the count stops at 1.
CountOff_StopsAtOne ==
  /\ Div2_On_cnt = 0 /\ ~("import" \in input' /\ relay = "ON")
  /\ Div2_Off_cnt' = IF Div2_Off_cnt > 1 THEN Div2_Off_cnt - 1 ELSE Div2_Off_cnt
  /\ UNCHANGED <<relay, Div2_On_cnt>>

CountOff ==
  /\ Div2_On_cnt = 0 /\ ~("import" \in input' /\ relay = "ON")
  /\ Div2_Off_cnt' = IF Div2_Off_cnt > 0 THEN Div2_Off_cnt - 1 ELSE 0
  /\ UNCHANGED <<relay, Div2_On_cnt>>

\* The first branch of the code that applies.
Automatic ==
  \/ Activate
  \/ /\ ~("surplus" \in input' /\ Div2_Off_cnt = 0 /\ relay = "OFF")
     /\ CountOn \/ Deactivate \/ CountOff

Manual ==
  /\ relay' = IF relayMode = "FORCE" THEN "ON" ELSE "OFF"
  /\ Div2_On_cnt' = 0 /\ Div2_Off_cnt' = 0

RelaySecond ==
  /\ input' \in Inputs
  /\ \/ relayMode = "AUTOM" /\ Automatic
     \/ relayMode # "AUTOM" /\ Manual
  /\ switched' =
       IF relay' # relay \/ relayMode # "AUTOM"
         THEN [by |-> IF relayMode = "AUTOM" THEN "auto" ELSE "user", age |-> 0]
         ELSE [switched EXCEPT !.age = IF @ = AgeMax THEN @ ELSE @ + 1]
--------------------------------------------------------------------------------
(* PVRScheduler, at the end of the same second *)

BoostSecond ==
  \/ /\ boostTime = -1
     /\ UNCHANGED <<triacMode, boost>>
  \/ /\ boostTime = 0
     /\ boostTime' = -1
     /\ triacMode' = "AUTOM"
     /\ UNCHANGED <<burstCnt, burstThreshold>>
  \/ /\ boostTime > 0
     /\ triacMode' = IF burstCnt <= burstThreshold THEN "FORCE" ELSE "STOP"
     /\ boostTime' = boostTime - 1
     /\ burstCnt' = (burstCnt + 1) % BOOST_BURST_PERIOD
     /\ UNCHANGED burstThreshold

\* The end of RelayPlus leaves the relay stopped.
RelayPlusSecond ==
  \/ /\ relayplusTime = -1
     /\ UNCHANGED <<relayMode, relayplusTime>>
  \/ /\ relayplusTime = 0
     /\ relayplusTime' = -1
     /\ relayMode' = "STOP"
  \/ /\ relayplusTime > 0
     /\ relayplusTime' = relayplusTime - 1
     /\ relayMode' = "FORCE"

\* One second of statistics, processed by the loop.
Second ==
  /\ RelaySecond /\ BoostSecond /\ RelayPlusSecond
  /\ wanted' = [ssr |-> IF boostTime = 0 THEN "AUTOM" ELSE wanted.ssr,
                relay |-> IF relayplusTime = 0 THEN "STOP" ELSE wanted.relay]
--------------------------------------------------------------------------------
(* Requests on the serial line *)

SETRELAY ==
  /\ relayMode' \in Modes
  /\ relayplusTime' = -1
  /\ wanted' = [wanted EXCEPT !.relay = relayMode']
  /\ UNCHANGED <<relay, triacMode, counters, boost, input, switched>>

\* Mutant: a BOOST under way goes on.
SETSSR_KeepsBoost ==
  /\ triacMode' \in Modes
  /\ wanted' = [wanted EXCEPT !.ssr = triacMode']
  /\ UNCHANGED <<relay, relayMode, counters, boost, relayplusTime, input, switched>>

SETSSR ==
  /\ triacMode' \in Modes
  /\ boostTime' = -1
  /\ wanted' = [wanted EXCEPT !.ssr = triacMode']
  /\ UNCHANGED <<relay, relayMode, counters, burstCnt, burstThreshold, relayplusTime,
                 input, switched>>

\* A duration of 0 stops a BOOST, at the next second.
SETBOOST ==
  /\ \E t \in Durations \cup {0} :
       IF t # 0 \/ boostTime # -1
         THEN boostTime' = t /\ wanted' = [wanted EXCEPT !.ssr = "BOOST"]
         ELSE UNCHANGED <<boostTime, wanted>>
  /\ burstThreshold' \in Thresholds
  /\ burstCnt' = 0
  /\ UNCHANGED <<relay, relayMode, triacMode, counters, relayplusTime, input, switched>>

\* Also with a duration of 0, which RelayPlus sends when nothing is left to do.
SETRELPLUS ==
  /\ relayplusTime' \in Durations \cup {0}
  /\ wanted' = [wanted EXCEPT !.relay = "PLUS"]
  /\ UNCHANGED <<relay, relayMode, triacMode, counters, boost, input, switched>>

\* stopPVR and startPVR, by RESET or fatalError: the counters of the relay and
\* the timers go on from where they were.
Restart ==
  /\ relay' = "OFF"
  /\ relayMode' = "AUTOM" /\ triacMode' = "AUTOM"
  /\ wanted' = [ssr |-> IF boostTime = -1 THEN "AUTOM" ELSE wanted.ssr,
                relay |-> IF relayplusTime = -1 THEN "AUTOM" ELSE wanted.relay]
  /\ switched' = IF relay = "ON" THEN [by |-> "restart", age |-> 0] ELSE switched
  /\ UNCHANGED <<counters, boost, relayplusTime, input>>
--------------------------------------------------------------------------------
LoadsInit ==
  /\ relay = "OFF"
  /\ relayMode = "AUTOM" /\ triacMode = "AUTOM"
  /\ Div2_On_cnt = 0 /\ Div2_Off_cnt = 0
  /\ boostTime = -1 /\ burstCnt = 0 /\ burstThreshold \in Thresholds
  /\ relayplusTime = -1
  /\ input = {}
  /\ wanted = [ssr |-> "AUTOM", relay |-> "AUTOM"]
  /\ switched = [by |-> "restart", age |-> AgeMax]

LoadsNext == Second \/ SETRELAY \/ SETSSR \/ SETBOOST \/ SETRELPLUS \/ Restart

LoadsSpec == LoadsInit /\ [][LoadsNext]_loadsVars
FairSpec == LoadsSpec /\ WF_loadsVars(Second)
================================================================================
