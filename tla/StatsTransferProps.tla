-------------------------- MODULE StatsTransferProps --------------------------
(***************************************************************************)
(* What the loop may rely on when it processes the statistics.             *)
(***************************************************************************)
EXTENDS StatsTransfer

Windows == 1 .. WindowMax
StatusBits == Info \cup Errors \cup Rate
Data == [routed : Seq(Windows), sumP : Seq(Windows), samples : SUBSET Windows,
         status : SUBSET StatusBits]

TypeOK ==
  /\ stats_ready_flag \in {0, 1, 9}
  /\ routed_power \in Seq(Windows) /\ sumP \in Seq(Windows)
  /\ samples \in SUBSET Windows
  /\ stats_routed_power \in Seq(Windows) /\ stats_sumP \in Seq(Windows)
  /\ stats_samples \in SUBSET Windows
  /\ error_status \in SUBSET Errors
  /\ stats_error_status \in SUBSET StatusBits
  /\ coldStart \in 0 .. NCSTART /\ half \in 0 .. HALVES - 1 /\ window \in Windows
  /\ sampled \in BOOLEAN
  /\ pc \in {"top", "check", "status", "sums", "report", "free", "bottom", "wait"}
  /\ copy \in Data
  /\ ends \in Nat /\ alarm \in BOOLEAN
  /\ reported \in 0 .. WindowMax /\ faults \in SUBSET Windows

\* n entries of window w.
Entries(n, w) == [k \in 1 .. n |-> w]

\* All the data of window w, and nothing else.
Whole(s, w) == s = Entries(HALVES, w)
Reported == copy.routed[1]
--------------------------------------------------------------------------------
\* The STATS message is computed from all the half-cycles and all the samples of
\* one single window, although interrupts go on while the loop computes it.
\* (And the variables keep their types.)
ReportsOneWindow ==
  /\ TypeOK
  /\ pc = "free" => \E w \in Windows :
       Whole(copy.routed, w) /\ Whole(copy.sumP, w) /\ copy.samples = {w}

\* STATS shows an anomaly if and only if one was seen during the window it is
\* about, unless the router is about to stop.
AnomalyReported ==
  pc = "free" /\ "major" \notin copy.status
    => ("soft" \in copy.status <=> Reported \in faults)

\* When a pass of the loop has noticed the loss of the mains, it ends with
\* fatalError, even if the mains come back and a window ends meanwhile.  (If two
\* windows end during the pass, the router is back to normal and goes on.)
LossStopsRouter ==
  pc = "bottom" /\ alarm /\ ends <= 1 => "major" \in stats_error_status

\* What the flag, the copies and the loop implement together: a mailbox for one
\* window, filled and emptied in turn, whose contents are never overtaken and
\* never processed twice, and never stay unprocessed.
Box == INSTANCE Mailbox WITH
  content <- IF stats_ready_flag = 0 THEN 0 ELSE stats_routed_power[1],
  taken <- reported
ImplementsMailbox == Box!FairSpec
--------------------------------------------------------------------------------
(* Why they hold: the sums are those of the window being measured, but for the *)
(* moment between the two parts of a transfer, and the copies are those of one *)
(* window as long as the flag is set, which it is while the loop reads them.   *)

\* The window in the copies.
Handed == stats_routed_power[1]

Warming ==
  /\ coldStart > 0 => pc = "wait" /\ stats_ready_flag = 0
  /\ pc = "wait" => ~alarm

Measuring == coldStart = 0 =>
  /\ routed_power = Entries(half, window)
  /\ stats_ready_flag # 9 =>
       /\ sumP = Entries(half, window)
       /\ samples = IF half > 0 \/ sampled THEN {window} ELSE {}
  /\ "soft" \in error_status <=> window \in faults

Transfer ==
  /\ stats_ready_flag # 0 =>
       /\ Handed \in reported + 1 .. window - 1
       /\ Whole(stats_routed_power, Handed)
       /\ "major" \in stats_error_status \/ ("soft" \in stats_error_status <=> Handed \in faults)
  /\ stats_ready_flag = 9 =>
       /\ half = 0 /\ ~sampled
       /\ Whole(sumP, Handed) /\ samples = {Handed}
  /\ stats_ready_flag = 1 => Whole(stats_sumP, Handed) /\ stats_samples = {Handed}

Processing ==
  /\ pc \in {"status", "sums", "report", "free"} => stats_ready_flag = 1
  /\ pc \in {"status", "free"} => copy.status = stats_error_status
  /\ pc \in {"report", "free"} => copy.sumP = stats_sumP /\ copy.samples = stats_samples
  /\ pc = "free" => copy.routed = stats_routed_power

Losing == alarm =>
  /\ ends <= 1 => "major" \in stats_error_status
  /\ ends = 0 => "major" \in error_status

StatsInv ==
  /\ TypeOK /\ Warming /\ Measuring /\ Transfer /\ Processing /\ Losing
  /\ reported < window /\ faults \subseteq 1 .. window
================================================================================
