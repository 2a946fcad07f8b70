---------------------------- MODULE StatsTransfer ----------------------------
(***************************************************************************)
(* How the statistics of one second leave the interrupt routines.          *)
(* zeroCrossingInterrupt and ISR ( ADC_vect ) accumulate them; when a      *)
(* window of NB_CYCLES cycles ends and the loop is done with the window    *)
(* before (stats_ready_flag = 0), the crossing hands over the routed power *)
(* and the error bits (flag 9), the next ADC interrupt hands over the sums *)
(* (flag 1), and the loop processes the copies, then frees them (flag 0).  *)
(* Otherwise the window is dropped.                                        *)
(*                                                                         *)
(* A datum is the number of the window it was measured in, so that a       *)
(* mixture of windows can be seen.  Interrupt routines are atomic, the     *)
(* loop is not: they may run between any two of its accesses.              *)
(***************************************************************************)
EXTENDS Integers, Sequences

CONSTANTS
  HALVES,       \* half-cycles of a window: 2 * NB_CYCLES
  NCSTART,      \* zero crossings of the warm-up
  PassWindows,  \* windows that may end during one pass of the loop
  WindowMax     \* bound on the number of windows

ASSUME StatsAssumption ==
  /\ HALVES \in Nat \ {0} /\ NCSTART \in Nat \ {0}
  /\ PassWindows \in Nat /\ WindowMax \in Nat \ {0}

VARIABLES
  stats_ready_flag,    \* 0, 9 or 1
  routed_power,        \* one entry per half-cycle since the last reset
  sumP,                \* likewise
  samples,             \* windows with ADC samples in sumVsqr, sumIsqr and samples
  error_status,        \* subset of {"soft", "major"}: the bits 4..7
  stats_routed_power, stats_sumP, stats_samples, stats_error_status,
  coldStart,
  half,                \* half-cycles of the window so far
  window,              \* number of the window being measured
  sampled,             \* TRUE: the ADC has run since the last crossing
  pc,                  \* where the loop is
  copy,                \* what the loop has read of the window it processes
  ends,                \* windows that ended during this pass of the loop
  reported,            \* history: the last window whose STATS were sent
  alarm,               \* history: this pass noticed the loss of the mains
  faults               \* history: windows during which an anomaly was seen

sums == <<routed_power, sumP, samples>>
stats == <<stats_routed_power, stats_sumP, stats_samples>>
errors == <<error_status, stats_error_status>>
clock == <<coldStart, half, window, sampled>>
loopState == <<pc, copy, ends, alarm>>
history == <<reported, faults>>
vars == <<stats_ready_flag, sums, stats, errors, clock, loopState, history>>

Info == {"routing"}            \* bits 0..3, written by the loop only
Errors == {"soft", "major"}    \* bits 4, 6 and 7
Rate == {"rate"}               \* bit 5, an error the loop itself adds
NoCopy == [status |-> {}, routed |-> <<>>, sumP |-> <<>>, samples |-> {}]
--------------------------------------------------------------------------------
(* The interrupt routines *)

\* This crossing ends the window.
LastHalf == half + 1 = HALVES

\* The loop has processed the data of the window before.
CopiesFree == stats_ready_flag = 0

\* Mutant: the error bits of the window before are left.
HandedStatus_NotCleared == stats_error_status \cup error_status

\* The status byte of a window: its errors, and the information bits.
HandedStatus == (stats_error_status \cap Info) \cup error_status

\* An anomaly of the signals (bias, ADC overflow, false crossing) sets a bit.
Detect ==
  \/ UNCHANGED <<error_status, history>>
  \/ /\ error_status' = error_status \cup {"soft"}
     /\ faults' = faults \cup {window}

\* ISR ( ADC_vect ): second part of the transfer, then the sample at hand.
Adc ==
  /\ Detect
  /\ sampled' = TRUE
  /\ IF stats_ready_flag = 9
       THEN /\ stats_sumP' = sumP /\ sumP' = <<>>
            /\ stats_samples' = samples /\ samples' = {window}
            /\ stats_ready_flag' = 1
       ELSE /\ samples' = samples \cup {window}
            /\ UNCHANGED <<stats_sumP, sumP, stats_samples, stats_ready_flag>>
  /\ UNCHANGED <<routed_power, stats_routed_power, stats_error_status, coldStart,
                 half, window, loopState, reported>>

\* zeroCrossingInterrupt during the warm-up: everything is reset.
WarmUp ==
  /\ coldStart > 0 /\ sampled
  /\ coldStart' = coldStart - 1
  /\ half' = 0 /\ sampled' = FALSE
  /\ routed_power' = <<>> /\ sumP' = <<>> /\ samples' = {}
  /\ stats_ready_flag' = 0
  /\ error_status' = {}
  /\ faults' = faults \ {window}
  /\ UNCHANGED <<stats, stats_error_status, window, loopState, reported>>

\* zeroCrossingInterrupt, a half-cycle that does not end the window.
MidWindow ==
  /\ coldStart = 0 /\ sampled
  /\ ~LastHalf
  /\ half' = half + 1 /\ sampled' = FALSE
  /\ routed_power' = Append(routed_power, window)
  /\ sumP' = Append(sumP, window)
  /\ Detect
  /\ UNCHANGED <<stats_ready_flag, samples, stats, stats_error_status, coldStart,
                 window, loopState, reported>>

\* zeroCrossingInterrupt, the half-cycle that ends the window.
WindowEnds ==
  /\ coldStart = 0 /\ sampled
  /\ LastHalf
  /\ window < WindowMax /\ ends < PassWindows
  /\ half' = 0 /\ sampled' = FALSE
  /\ window' = window + 1 /\ ends' = ends + 1
  /\ error_status' = {}
  /\ routed_power' = <<>>

\* ... and the loop has freed the copies: first part of the transfer.
HandOver ==
  /\ WindowEnds /\ CopiesFree
  /\ stats_routed_power' = Append(routed_power, window)
  /\ sumP' = Append(sumP, window)
  /\ stats_error_status' = HandedStatus
  /\ stats_ready_flag' = 9
  /\ UNCHANGED <<samples, stats_sumP, stats_samples, coldStart, pc, copy, alarm, history>>

\* Mutant: the power of the lost window is kept.
Drop_KeepsPower ==
  /\ WindowEnds /\ ~CopiesFree
  /\ samples' = {}
  /\ UNCHANGED <<stats_ready_flag, sumP, stats, stats_error_status, coldStart, pc,
                 copy, alarm, history>>

\* ... and the loop has not: the window is lost.
Drop ==
  /\ WindowEnds /\ ~CopiesFree
  /\ sumP' = <<>> /\ samples' = {}
  /\ UNCHANGED <<stats_ready_flag, stats, stats_error_status, coldStart, pc, copy,
                 alarm, history>>

Interrupt == Adc \/ WarmUp \/ MidWindow \/ HandOver \/ Drop
--------------------------------------------------------------------------------
(* The loop *)

Loop(from, to) == pc = from /\ pc' = to

\* Mutant: the bit is only set where interrupts collect the errors.
SyncLoss_NotCopied ==
  /\ Loop("top", "check")
  /\ alarm' = TRUE
  /\ error_status' = error_status \cup {"major"}
  /\ UNCHANGED <<stats_ready_flag, sums, stats, stats_error_status, clock, copy, ends,
                 history>>

\* More than 2 s without a window: the major error, in both status bytes.
SyncLoss ==
  /\ Loop("top", "check")
  /\ alarm' = TRUE
  /\ error_status' = error_status \cup {"major"}
  /\ stats_error_status' = stats_error_status \cup error_status'
  /\ UNCHANGED <<stats_ready_flag, sums, stats, clock, copy, ends, history>>

NoSyncLoss ==
  /\ Loop("top", "check")
  /\ UNCHANGED <<stats_ready_flag, sums, stats, errors, clock, copy, ends, alarm, history>>

NothingReady ==
  /\ Loop("check", "bottom") /\ stats_ready_flag # 1
  /\ UNCHANGED <<stats_ready_flag, sums, stats, errors, clock, copy, ends, alarm, history>>

\* The loop updates the information bits: it reads the status byte ...
ReadStatus ==
  /\ Loop("check", "status") /\ stats_ready_flag = 1
  /\ copy' = [copy EXCEPT !.status = stats_error_status, !.routed = stats_routed_power]
  /\ UNCHANGED <<stats_ready_flag, sums, stats, errors, clock, ends, alarm, history>>

\* ... and writes it back.
WriteStatus ==
  /\ Loop("status", "sums")
  /\ \E info \in SUBSET Info, rate \in SUBSET Rate :
       stats_error_status' = (copy.status \ Info) \cup info \cup rate
  /\ UNCHANGED <<stats_ready_flag, sums, stats, error_status, clock, copy, ends,
                 alarm, history>>

ReadSums ==
  /\ Loop("sums", "report")
  /\ copy' = [copy EXCEPT !.sumP = stats_sumP, !.samples = stats_samples]
  /\ UNCHANGED <<stats_ready_flag, sums, stats, errors, clock, ends, alarm, history>>

\* STATS is sent, with the routed power and the status byte read again.
Report ==
  /\ Loop("report", "free")
  /\ copy' = [copy EXCEPT !.status = stats_error_status, !.routed = stats_routed_power]
  /\ UNCHANGED <<stats_ready_flag, sums, stats, errors, clock, ends, alarm, history>>

\* Mutant: the flag is not reset.
Free_KeepsFlag ==
  /\ Loop("free", "bottom")
  /\ reported' = copy.routed[1]
  /\ copy' = NoCopy
  /\ UNCHANGED <<stats_ready_flag, sums, stats, errors, clock, ends, alarm, faults>>

Free ==
  /\ Loop("free", "bottom")
  /\ stats_ready_flag' = 0
  /\ reported' = copy.routed[1]
  /\ copy' = NoCopy
  /\ UNCHANGED <<sums, stats, errors, clock, ends, alarm, faults>>

NextPass ==
  /\ Loop("bottom", "top") /\ "major" \notin stats_error_status
  /\ ends' = 0
  /\ alarm' = FALSE
  /\ UNCHANGED <<stats_ready_flag, sums, stats, errors, clock, copy, history>>

\* stopPVR and startPVR, by fatalError or by RESET: no interrupt in between.
Restart ==
  /\ Loop("bottom", "wait")
  /\ coldStart' = NCSTART
  /\ stats_ready_flag' = 0
  /\ error_status' = {} /\ stats_error_status' = {}
  /\ sampled' = FALSE
  /\ alarm' = FALSE /\ ends' = 0
  /\ UNCHANGED <<sums, stats, half, window, copy, history>>

\* startPVR returns after the warm-up.
Restarted ==
  /\ Loop("wait", "top") /\ coldStart = 0
  /\ UNCHANGED <<stats_ready_flag, sums, stats, errors, clock, copy, ends, alarm, history>>

LoopStep == \/ SyncLoss \/ NoSyncLoss \/ NothingReady \/ ReadStatus \/ WriteStatus
            \/ ReadSums \/ Report \/ Free \/ NextPass \/ Restart \/ Restarted
--------------------------------------------------------------------------------
Init ==
  /\ stats_ready_flag = 0
  /\ routed_power = <<>> /\ sumP = <<>> /\ samples = {}
  /\ stats_routed_power = <<>> /\ stats_sumP = <<>> /\ stats_samples = {}
  /\ error_status = {} /\ stats_error_status = {}
  /\ coldStart = NCSTART /\ half = 0 /\ window = 1 /\ sampled = FALSE
  /\ pc = "wait" /\ copy = NoCopy /\ ends = 0 /\ alarm = FALSE
  /\ reported = 0 /\ faults = {}

Next == Interrupt \/ LoopStep

Spec == Init /\ [][Next]_vars

\* Conversions follow each other, and the loop never waits for anything but the
\* mains.
FairSpec == Spec /\ WF_vars(Adc) /\ WF_vars(LoopStep)
================================================================================
