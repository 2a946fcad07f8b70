---------------------------- MODULE DiversionProps ----------------------------
(***************************************************************************)
(* What the users of the two loads expect from the decisions of a second.  *)
(***************************************************************************)
EXTENDS Diversion

LoadsTypeOK ==
  /\ relay \in {"ON", "OFF"}
  /\ relayMode \in Modes /\ triacMode \in Modes
  /\ Div2_On_cnt \in 0 .. OnTime /\ Div2_Off_cnt \in 0 .. OffTime
  /\ boostTime \in Nat \cup {-1} /\ relayplusTime \in Nat \cup {-1}
  /\ burstCnt \in 0 .. BOOST_BURST_PERIOD - 1 /\ burstThreshold \in Thresholds
  /\ input \subseteq {"surplus", "import"}
  /\ wanted \in [ssr : Modes \cup {"BOOST"}, relay : Modes \cup {"PLUS"}]
  /\ switched \in [by : {"auto", "user", "restart"}, age : 0 .. AgeMax]
--------------------------------------------------------------------------------
\* The two minimum times never run together, and the relay is off while the
\* minimum time off runs, restarts and changes of mode included.
TimesExclusive ==
  /\ Div2_On_cnt = 0 \/ Div2_Off_cnt = 0
  /\ Div2_Off_cnt > 0 => relay = "OFF"

\* A relay the surplus switched on stays on for T_DIV2_ON before an import
\* switches it off.
MinimumOn ==
  [][Second /\ relayMode = "AUTOM" /\ switched.by = "auto" /\ relay = "ON" /\ relay' = "OFF"
       => switched.age >= OnTime]_loadsVars

\* A relay an import switched off stays off for T_DIV2_OFF before the surplus
\* switches it on again.
MinimumOff ==
  [][relay = "OFF" /\ relay' = "ON" /\ switched.by = "auto" /\ relayMode = "AUTOM"
       => switched.age >= OffTime]_loadsVars

\* Whatever requests and restarts come between two switches, an automatic switch
\* never cuts a minimum time of the relay short.
MinimumTimes == MinimumOn /\ MinimumOff

\* The last request wins: the SSR is in the mode the user, the start of the
\* router or the end of a BOOST set last, unless a BOOST came after it; likewise
\* for the relay and RelayPlus.  No timer goes on behind a later request, and
\* none leaves its FORCE or its STOP behind.
LastRequestWins ==
  /\ wanted.ssr # "BOOST" => triacMode = wanted.ssr
  /\ wanted.relay # "PLUS" => relayMode = wanted.relay

\* A surplus that lasts ends up switching the relay on, whatever state the
\* counters were left in.
SurplusServed ==
  <>[](relayMode = "AUTOM" /\ "surplus" \in input) => []<>(relay = "ON")
--------------------------------------------------------------------------------
(* Why they hold: what is left of a minimum time and what has passed since the *)
(* switch make the whole of it, and a timer runs only if it was asked for last. *)
DiversionInv ==
  /\ LoadsTypeOK /\ TimesExclusive /\ LastRequestWins
  /\ boostTime # -1 => wanted.ssr = "BOOST"
  /\ relayplusTime # -1 => wanted.relay = "PLUS"
  /\ switched.by = "auto" =>
       /\ relay = "ON" => Div2_On_cnt + switched.age >= OnTime
       /\ relay = "OFF" => Div2_Off_cnt + switched.age >= OffTime
================================================================================
