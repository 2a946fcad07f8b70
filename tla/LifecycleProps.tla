---------------------------- MODULE LifecycleProps ----------------------------
(***************************************************************************)
(* When the router stops, when it runs, and what becomes of the requests.  *)
(***************************************************************************)
EXTENDS Lifecycle

TypeOK ==
  /\ pc \in Steps \cup Blocked /\ back \in {"check", "serve", "bottom"}
  /\ busy \in 0 .. ALARM \cup 0 .. FORMAT
  /\ since \in 0 .. TIMEOUT + 1 /\ stats_ready_flag \in {0, 1}
  /\ major \in BOOLEAN /\ hasRestarted \in BOOLEAN /\ live \in BOOLEAN
  /\ line \in Seq([what : Requests, alarm : BOOLEAN]) /\ Len(line) <= MaxLine
  /\ i \in 0 .. SALVE
  /\ mains \in BOOLEAN /\ present \in {"all", "some", "none"} /\ slow \in BOOLEAN
  /\ dark \in 0 .. DarkMax /\ gap \in BOOLEAN /\ formatted \in BOOLEAN

\* Once the mains are gone the loads are not left as they were for longer than the
\* timeout and four passes of the loop, of which the second may still process the
\* last window, not counting the time FORMAT blocks it.
\* (And the variables keep their types.)
StopsInTime == TypeOK /\ (live => dark <= TIMEOUT + 4)

\* The router stops for a major error only if the mains were missing since the
\* last statistics, however slow the passes and wherever the loss falls; FORMAT
\* apart.
NoFalseAlarm == [][~major /\ major' /\ ~formatted => gap]_vars

\* A request that comes while the router is stopped by fatalError is never
\* carried out, not even once it runs again.
AlarmDropsRequests ==
  [][pc = "serve" /\ Len(line') < Len(line) => ~Head(line).alarm]_vars

\* When the mains are there for good, and the EEPROM is not formatted any more,
\* the router runs again and no alarm stops it.
RunsAgain == <>[](mains /\ ~formatted) => []<>live /\ <>[](pc # "alarm")
--------------------------------------------------------------------------------
(* Why they hold: what the seconds of a pass, the windows still to be processed  *)
(* and the steps up to the next check can add to the seconds counted already.    *)

\* A second of this pass, and one of the pass before.
Now == IF slow THEN 1 ELSE 0
Before == IF pc \in {"check", "stats"} THEN 1 ELSE 0

\* The loads are off exactly while the router is stopped, and a new life has no error.
Lives ==
  /\ live <=> pc \notin {"alarm", "warm"}
  /\ major => pc \notin {"check", "warm"}
  /\ pc = "format" => formatted

\* What is known of the mains.
Supplied ==
  /\ present = "all" => mains
  /\ present = "none" => ~mains
  /\ dark > 0 => live /\ present = "none"
  /\ ~gap => mains /\ (live => present = "all")

\* The last window is processed in the pass after the loss, or in the next one; from
\* then on the time since refTime goes with that without mains, and the check that
\* finds it too long may have been passed in the second it became so.
Dark == live =>
  /\ stats_ready_flag = 1 \/ hasRestarted => dark <= Before + Now
  /\ major => dark <= TIMEOUT + 3 + Now
  /\ ~major /\ pc = "check" =>
       dark <= TIMEOUT + 3 + Now /\ (since <= TIMEOUT => dark <= since + 2)
  /\ ~major /\ pc # "check" => dark <= TIMEOUT + 2 + Now /\ dark <= since + 2

\* While the mains are there each second since refTime has given a window, which is
\* processed within the next pass.
Fed == live /\ ~gap /\ (hasRestarted => pc \in {"check", "stats"}) =>
  /\ since > 0 => stats_ready_flag = 1
  /\ ~formatted /\ pc # "stats" => since <= Before + Now

\* The requests of an alarm are in the buffer until the first pass after it.
Alarms == (\E k \in 1 .. Len(line) : line[k].alarm) =>
  InAlarm \/ (pc = "bottom" /\ hasRestarted /\ ~major)

LifecycleInv == TypeOK /\ Lives /\ Supplied /\ Dark /\ Fed /\ Alarms
================================================================================
