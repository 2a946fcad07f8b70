-------------------------- MODULE StatsTransferProofs --------------------------
(***************************************************************************)
(* For every length of the window, of the warm-up and of a pass of the     *)
(* loop: what the loop processes is the data of one window, with its       *)
(* errors, a loss of the mains is not forgotten, and the flag and the      *)
(* copies implement a mailbox.                                             *)
(***************************************************************************)
EXTENDS StatsTransferProps, TLAPS

USE StatsAssumption

\* The data of a window, one half-cycle after the other.
LEMMA EntriesGrow ==
  ASSUME NEW w \in Windows, NEW n \in Nat
  PROVE  /\ Entries(n, w) \in Seq(Windows)
         /\ Entries(0, w) = <<>>
         /\ Append(Entries(n, w), w) = Entries(n + 1, w)
         /\ n > 0 => Entries(n, w)[1] = w
<1>1. Entries(n, w) \in Seq(Windows) /\ Len(Entries(n, w)) = n
  BY DEF Entries
<1>2. Entries(0, w) = <<>>
  BY DEF Entries
<1>3. Append(Entries(n, w), w) = Entries(n + 1, w)
  BY <1>1 DEF Entries
<1>4. n > 0 => Entries(n, w)[1] = w
  BY DEF Entries
<1> QED BY <1>1, <1>2, <1>3, <1>4

LEMMA InvInit == Init => StatsInv
<1> SUFFICES ASSUME Init PROVE StatsInv
  OBVIOUS
<1> USE DEF Init
<1>1. NoCopy \in Data
  BY DEF NoCopy, Data
<1>2. 1 \in Windows /\ <<>> \in Seq(Windows)
  BY DEF Windows
<1>3. sampled \in BOOLEAN /\ alarm \in BOOLEAN
  OBVIOUS
<1>4. TypeOK
  BY <1>1, <1>2, <1>3 DEF TypeOK
<1>5. Warming /\ Measuring /\ Transfer /\ Processing /\ Losing
  BY DEF Warming, Measuring, Transfer, Processing, Losing
<1> QED BY <1>4, <1>5 DEF StatsInv
--------------------------------------------------------------------------------
\* An anomaly belongs to the window being measured.
LEMMA DetectOK ==
  ASSUME TypeOK, faults \subseteq 1 .. window, Detect
  PROVE  /\ error_status' \in SUBSET Errors /\ error_status \subseteq error_status'
         /\ faults' \in SUBSET Windows /\ faults' \subseteq 1 .. window
         /\ \A w \in 1 .. window - 1 : w \in faults' <=> w \in faults
         /\ ("soft" \in error_status <=> window \in faults)
              => ("soft" \in error_status' <=> window \in faults')
<1>1. window \in Windows /\ window \in 1 .. window
  BY DEF TypeOK, Windows
<1>2. CASE UNCHANGED <<error_status, history>>
  BY <1>2 DEF TypeOK, history
<1>3. CASE /\ error_status' = error_status \cup {"soft"}
           /\ faults' = faults \cup {window}
  BY <1>1, <1>3 DEF TypeOK, Errors
<1> QED BY <1>2, <1>3 DEF Detect

LEMMA InvAdc ==
  ASSUME StatsInv, Adc
  PROVE  StatsInv'
<1> USE DEF StatsInv, Adc, loopState
<1>1. window \in Windows /\ half \in Nat /\ <<>> \in Seq(Windows)
  BY DEF TypeOK, Windows
<1>2. TypeOK'
  <2>1. sampled' \in BOOLEAN /\ alarm' \in BOOLEAN
    BY DEF TypeOK
  <2>2. samples' \in SUBSET Windows /\ sumP' \in Seq(Windows)
    BY <1>1 DEF TypeOK
  <2> QED BY <1>1, <2>1, <2>2, DetectOK DEF TypeOK
<1>3. Warming' /\ Losing' /\ Processing'
  BY DetectOK DEF Warming, Losing, Processing
<1>4. Measuring'
  BY <1>1, DetectOK, EntriesGrow DEF Measuring, Transfer, TypeOK
<1>5. Transfer'
  <2>1. Handed' = Handed
    BY DEF Handed
  <2>2. stats_ready_flag # 0 => Handed \in 1 .. window - 1
    BY DEF Transfer, TypeOK
  <2>3. CASE stats_ready_flag = 9
    BY DetectOK, <2>1, <2>2, <2>3 DEF Transfer, Whole
  <2>4. CASE stats_ready_flag # 9
    BY DetectOK, <2>1, <2>2, <2>4 DEF Transfer, Whole
  <2> QED BY <2>3, <2>4
<1> QED BY <1>2, <1>3, <1>4, <1>5, DetectOK

LEMMA InvWarmUp ==
  ASSUME StatsInv, WarmUp
  PROVE  StatsInv'
<1> USE DEF StatsInv, WarmUp, loopState, stats
<1>1. window \in Windows /\ <<>> \in Seq(Windows) /\ pc = "wait" /\ ~alarm
  BY DEF TypeOK, Warming
<1>2. TypeOK'
  <2>1. sampled' \in BOOLEAN /\ alarm' \in BOOLEAN
    BY DEF TypeOK
  <2>2. faults' \in SUBSET Windows
    BY DEF TypeOK
  <2> QED BY <1>1, <2>1, <2>2 DEF TypeOK
<1>3. Warming' /\ Losing' /\ Processing'
  BY <1>1 DEF Warming, Losing, Processing
<1>4. Measuring'
  BY <1>1, EntriesGrow DEF Measuring
<1>5. Transfer'
  BY DEF Transfer
<1> QED BY <1>1, <1>2, <1>3, <1>4, <1>5

LEMMA InvMidWindow ==
  ASSUME StatsInv, MidWindow
  PROVE  StatsInv'
<1> USE DEF StatsInv, MidWindow, LastHalf, loopState, stats
<1>1. /\ window \in Windows /\ half \in Nat /\ half + 1 \in 0 .. HALVES - 1
      /\ coldStart = 0 /\ sampled /\ stats_ready_flag # 9
  BY DEF TypeOK, Transfer
<1>2. /\ routed_power = Entries(half, window) /\ sumP = Entries(half, window)
      /\ samples = {window}
  BY <1>1 DEF Measuring
<1>3. TypeOK'
  <2>1. sampled' \in BOOLEAN /\ alarm' \in BOOLEAN
    BY DEF TypeOK
  <2>2. routed_power' \in Seq(Windows) /\ sumP' \in Seq(Windows)
    BY <1>1 DEF TypeOK
  <2> QED BY <1>1, <2>1, <2>2, DetectOK DEF TypeOK
<1>4. Warming' /\ Losing' /\ Processing'
  BY DetectOK DEF Warming, Losing, Processing
<1>5. Measuring'
  <2>1. Append(Entries(half, window), window) = Entries(half + 1, window)
    BY <1>1, EntriesGrow
  <2>2. "soft" \in error_status' <=> window \in faults'
    BY <1>1, DetectOK DEF Measuring
  <2> QED BY <1>1, <1>2, <2>1, <2>2 DEF Measuring
<1>6. Transfer'
  <2>1. Handed' = Handed /\ (stats_ready_flag # 0 => Handed \in 1 .. window - 1)
    BY DEF Handed, Transfer, TypeOK
  <2> QED BY <1>1, DetectOK, <2>1 DEF Transfer, Whole, TypeOK
<1> QED BY <1>3, <1>4, <1>5, <1>6, DetectOK

\* The crossing that ends a window finds all its data.
LEMMA WindowComplete ==
  ASSUME StatsInv, WindowEnds
  PROVE  /\ window \in Windows /\ window + 1 \in Windows /\ window' = window + 1
         /\ coldStart = 0 /\ stats_ready_flag # 9
         /\ Append(routed_power, window) = Entries(HALVES, window)
         /\ Append(sumP, window) = Entries(HALVES, window)
         /\ samples = {window}
         /\ Entries(HALVES, window) \in Seq(Windows)
         /\ Entries(HALVES, window)[1] = window
         /\ Entries(0, window + 1) = <<>>
<1> USE DEF StatsInv, WindowEnds, LastHalf
<1>1. /\ window \in Windows /\ window + 1 \in Windows /\ half \in Nat /\ half + 1 = HALVES
      /\ coldStart = 0 /\ sampled /\ stats_ready_flag # 9
  BY DEF TypeOK, Windows, Transfer
<1>2. /\ routed_power = Entries(half, window) /\ sumP = Entries(half, window)
      /\ samples = {window}
  BY <1>1 DEF Measuring
<1>3. /\ Append(Entries(half, window), window) = Entries(HALVES, window)
      /\ Entries(0, window + 1) = <<>>
  BY <1>1, EntriesGrow
<1>4. Entries(HALVES, window) \in Seq(Windows) /\ Entries(HALVES, window)[1] = window
  BY <1>1, EntriesGrow
<1> QED BY <1>1, <1>2, <1>3, <1>4

LEMMA InvHandOver ==
  ASSUME StatsInv, HandOver
  PROVE  StatsInv'
<1> USE DEF StatsInv, HandOver, CopiesFree, WindowEnds, history
<1>1. /\ window \in Nat \ {0} /\ window' \in Windows /\ reported \in Nat /\ ends \in Nat
      /\ <<>> \in Seq(Windows)
  BY WindowComplete DEF TypeOK, Windows
<1>2. TypeOK'
  <2>1. sampled' \in BOOLEAN /\ alarm' \in BOOLEAN
    BY DEF TypeOK
  <2>2. stats_error_status' \in SUBSET StatusBits /\ error_status' \in SUBSET Errors
    BY DEF TypeOK, HandedStatus, StatusBits
  <2> QED BY <1>1, <2>1, <2>2, WindowComplete DEF TypeOK
<1>3. Warming' /\ Processing'
  BY WindowComplete DEF Warming, Processing, TypeOK
<1>4. Losing'
  BY <1>1 DEF Losing, HandedStatus
<1>5. Measuring'
  <2>1. routed_power' = Entries(half', window')
    BY WindowComplete
  <2>2. window' \notin faults'
    BY <1>1, WindowComplete
  <2> QED BY <2>1, <2>2 DEF Measuring
<1>6. Transfer'
  <2>1. Handed' = window
    BY WindowComplete DEF Handed
  <2>2. "soft" \in stats_error_status' <=> window \in faults
    BY WindowComplete DEF Measuring, HandedStatus, Info
  <2>3. window \in reported + 1 .. window' - 1
    BY <1>1, WindowComplete
  <2>4. Whole(stats_routed_power, Handed)' /\ Whole(sumP, Handed)' /\ samples' = {window}
    BY <2>1, WindowComplete DEF Whole
  <2> QED BY <2>1, <2>2, <2>3, <2>4 DEF Transfer
<1> QED BY <1>1, <1>2, <1>3, <1>4, <1>5, <1>6, WindowComplete

LEMMA InvDrop ==
  ASSUME StatsInv, Drop
  PROVE  StatsInv'
<1> USE DEF StatsInv, Drop, CopiesFree, WindowEnds, history, stats
<1>1. /\ window \in Nat \ {0} /\ window' \in Windows /\ reported \in Nat /\ ends \in Nat
      /\ <<>> \in Seq(Windows)
  BY WindowComplete DEF TypeOK, Windows
<1> stats_ready_flag = 1
  BY WindowComplete DEF TypeOK
<1>2. TypeOK'
  <2>1. sampled' \in BOOLEAN /\ alarm' \in BOOLEAN
    BY DEF TypeOK
  <2> QED BY <1>1, <2>1, WindowComplete DEF TypeOK
<1>3. Warming' /\ Processing' /\ Losing'
  BY <1>1, WindowComplete DEF Warming, Processing, Losing
<1>4. Measuring'
  <2>1. routed_power' = Entries(half', window') /\ sumP' = Entries(half', window')
    BY WindowComplete
  <2>2. window' \notin faults'
    BY <1>1, WindowComplete
  <2> QED BY <2>1, <2>2 DEF Measuring
<1>5. Transfer'
  <2>1. Handed' = Handed
    BY DEF Handed
  <2> QED BY <1>1, <2>1, WindowComplete DEF Transfer, Whole
<1> QED BY <1>1, <1>2, <1>3, <1>4, <1>5, WindowComplete DEF Windows
--------------------------------------------------------------------------------
\* A step of the loop that leaves the sums, the copies and the clock alone.
LEMMA SumsKept ==
  ASSUME StatsInv, UNCHANGED <<stats_ready_flag, sums, stats, clock, history>>,
         "soft" \in error_status' <=> "soft" \in error_status
  PROVE  Measuring'
  BY DEF StatsInv, Measuring, sums, clock, history

LEMMA CopiesKept ==
  ASSUME StatsInv, UNCHANGED <<stats_ready_flag, sums, stats, clock, history>>,
         \/ "major" \in stats_error_status'
         \/ stats_error_status' \cap Errors = stats_error_status \cap Errors
  PROVE  Transfer'
<1>1. Handed' = Handed
  BY DEF Handed, stats
<1> QED
  BY <1>1 DEF StatsInv, Transfer, Whole, sums, stats, clock, history, Errors

LEMMA InvPass ==
  ASSUME StatsInv, NoSyncLoss \/ NothingReady \/ Restarted \/ NextPass
  PROVE  StatsInv'
<1> USE DEF NoSyncLoss, NothingReady, Restarted, NextPass, Loop, errors
<1>1. UNCHANGED <<stats_ready_flag, sums, stats, errors, clock, copy, history>>
  OBVIOUS
<1>2. Measuring' /\ Transfer'
  BY <1>1, SumsKept, CopiesKept
<1> USE DEF StatsInv, sums, stats, clock, history
<1>3. TypeOK'
  <2>1. sampled' \in BOOLEAN /\ alarm' \in BOOLEAN
    BY DEF TypeOK
  <2> QED BY <1>1, <2>1 DEF TypeOK
<1>4. Warming' /\ Processing' /\ Losing'
  BY <1>1 DEF Warming, Processing, Losing, TypeOK
<1> QED BY <1>1, <1>2, <1>3, <1>4

LEMMA InvSyncLoss ==
  ASSUME StatsInv, SyncLoss
  PROVE  StatsInv'
<1> USE DEF SyncLoss, Loop
<1>1. Measuring' /\ Transfer'
  BY SumsKept, CopiesKept
<1> USE DEF StatsInv, sums, stats, clock, history
<1>2. TypeOK'
  <2>1. sampled' \in BOOLEAN /\ alarm' \in BOOLEAN
    BY DEF TypeOK
  <2>2. error_status' \in SUBSET Errors /\ stats_error_status' \in SUBSET StatusBits
    BY DEF TypeOK, Errors, StatusBits
  <2> QED BY <2>1, <2>2 DEF TypeOK
<1>3. Warming' /\ Processing' /\ Losing'
  BY DEF Warming, Processing, Losing, TypeOK
<1> QED BY <1>1, <1>2, <1>3

LEMMA InvRead ==
  ASSUME StatsInv, ReadStatus \/ ReadSums \/ Report
  PROVE  StatsInv'
<1> USE DEF ReadStatus, ReadSums, Report, Loop, errors
<1>1. UNCHANGED <<stats_ready_flag, sums, stats, errors, clock, ends, alarm, history>>
  OBVIOUS
<1>2. Measuring' /\ Transfer'
  BY <1>1, SumsKept, CopiesKept
<1> USE DEF StatsInv, sums, stats, clock, history
<1>3. TypeOK'
  <2>1. sampled' \in BOOLEAN /\ alarm' \in BOOLEAN
    BY <1>1 DEF TypeOK
  <2>2. copy' \in Data
    BY DEF TypeOK, Data
  <2> QED BY <1>1, <2>1, <2>2 DEF TypeOK
<1>4. Processing'
  BY <1>1 DEF Processing, TypeOK, Data
<1>5. Warming' /\ Losing'
  BY <1>1 DEF Warming, Losing
<1> QED BY <1>1, <1>2, <1>3, <1>4, <1>5

LEMMA InvWriteStatus ==
  ASSUME StatsInv, WriteStatus
  PROVE  StatsInv'
<1> USE DEF WriteStatus, Loop
<1>1. stats_error_status' \in SUBSET StatusBits
  BY DEF StatsInv, TypeOK, Data, StatusBits
<1>2. stats_error_status' \cap Errors = stats_error_status \cap Errors
  BY DEF StatsInv, Processing, Errors, Info, Rate
<1>3. Measuring' /\ Transfer'
  BY <1>2, SumsKept, CopiesKept
<1> USE DEF StatsInv, sums, stats, clock, history
<1>4. TypeOK'
  <2>1. sampled' \in BOOLEAN /\ alarm' \in BOOLEAN
    BY DEF TypeOK
  <2> QED BY <1>1, <2>1 DEF TypeOK
<1>5. Warming' /\ Processing' /\ Losing'
  BY <1>2 DEF Warming, Processing, Losing, Errors
<1> QED BY <1>3, <1>4, <1>5

LEMMA InvFree ==
  ASSUME StatsInv, Free
  PROVE  StatsInv'
<1> USE DEF StatsInv, Free, Loop, sums, stats, clock, errors
<1>1. reported' = Handed /\ Handed \in 1 .. window - 1 /\ stats_ready_flag = 1
  BY DEF Handed, Processing, Transfer, TypeOK
<1>2. NoCopy \in Data
  BY DEF NoCopy, Data
<1>3. TypeOK'
  <2>1. sampled' \in BOOLEAN /\ alarm' \in BOOLEAN
    BY DEF TypeOK
  <2> QED BY <1>1, <1>2, <2>1 DEF TypeOK, Windows
<1>4. Measuring'
  BY <1>1 DEF Measuring
<1>5. Warming' /\ Transfer' /\ Processing' /\ Losing'
  BY DEF Warming, Transfer, Processing, Losing
<1> QED BY <1>1, <1>3, <1>4, <1>5 DEF TypeOK, Windows

LEMMA InvRestart ==
  ASSUME StatsInv, Restart
  PROVE  StatsInv'
<1> USE DEF StatsInv, Restart, Loop, sums, stats, history
<1>1. TypeOK'
  <2>1. sampled' \in BOOLEAN /\ alarm' \in BOOLEAN
    BY DEF TypeOK
  <2> QED BY <2>1 DEF TypeOK
<1>2. Warming' /\ Measuring' /\ Transfer' /\ Processing' /\ Losing'
  BY DEF Warming, Measuring, Transfer, Processing, Losing
<1> QED BY <1>1, <1>2
--------------------------------------------------------------------------------
LEMMA InvStep == StatsInv /\ [Next]_vars => StatsInv'
<1> SUFFICES ASSUME StatsInv, [Next]_vars PROVE StatsInv'
  OBVIOUS
<1>1. CASE UNCHANGED vars
  <2> USE <1>1 DEF vars, sums, stats, errors, clock, loopState, history
  <2>1. Measuring' /\ Transfer'
    BY SumsKept, CopiesKept
  <2>2. TypeOK'
    BY DEF StatsInv, TypeOK
  <2> QED BY <2>1, <2>2 DEF StatsInv, Warming, Processing, Losing
<1> QED
  BY <1>1, InvAdc, InvWarmUp, InvMidWindow, InvHandOver, InvDrop, InvPass, InvSyncLoss,
     InvRead, InvWriteStatus, InvFree, InvRestart DEF Next, Interrupt, LoopStep

\* The sums, the copies and what the loop has read are in step with the flag,
\* types included.
THEOREM TransferInvariant == Spec => []StatsInv
  BY InvInit, InvStep, PTL DEF Spec

\* STATS is computed from one whole window.
THEOREM WholeWindows == Spec => []ReportsOneWindow
<1>1. StatsInv => ReportsOneWindow
  <2> SUFFICES ASSUME StatsInv, pc = "free"
               PROVE  \E w \in Windows :
                        Whole(copy.routed, w) /\ Whole(copy.sumP, w) /\ copy.samples = {w}
    BY DEF StatsInv, ReportsOneWindow
  <2>1. Handed \in Windows
    BY DEF StatsInv, Processing, Transfer, TypeOK, Windows
  <2> WITNESS Handed \in Windows
  <2> QED BY DEF StatsInv, Processing, Transfer, Whole
<1> QED BY <1>1, TransferInvariant, PTL

\* STATS shows the anomalies of its window, and no others.
THEOREM AnomaliesShown == Spec => []AnomalyReported
<1>1. StatsInv => AnomalyReported
  BY DEF StatsInv, AnomalyReported, Reported, Handed, Processing, Transfer
<1> QED BY <1>1, TransferInvariant, PTL

\* A pass that noticed the loss of the mains ends with fatalError.
THEOREM LossNotForgotten == Spec => []LossStopsRouter
<1>1. StatsInv => LossStopsRouter
  BY DEF StatsInv, LossStopsRouter, Losing
<1> QED BY <1>1, TransferInvariant, PTL
--------------------------------------------------------------------------------
\* The steps of the transfer are those of a mailbox: HandOver puts a window in it,
\* Free takes it, Restart clears it, all others leave it alone.
LEMMA BoxStep ==
  ASSUME StatsInv, [Next]_vars
  PROVE  [Box!Next]_<<IF stats_ready_flag = 0 THEN 0 ELSE stats_routed_power[1], reported>>
<1> DEFINE content == IF stats_ready_flag = 0 THEN 0 ELSE stats_routed_power[1]
<1>1. CASE HandOver
  <2>1. content = 0 /\ content' = window /\ reported' = reported
    BY <1>1, WindowComplete DEF HandOver, CopiesFree, history
  <2>2. window \in Nat /\ window > reported
    BY DEF StatsInv, TypeOK, Windows
  <2> QED BY <2>1, <2>2 DEF Box!Next, Box!Put
<1>2. CASE Free
  <2>1. content = Handed /\ reported' = Handed /\ content' = 0 /\ Handed # 0
    BY <1>2 DEF Free, Loop, StatsInv, Processing, Transfer, TypeOK, Handed
  <2> QED BY <2>1 DEF Box!Next, Box!Take
<1>3. CASE Restart
  <2>1. content' = 0 /\ reported' = reported
    BY <1>3 DEF Restart, history
  <2> QED BY <2>1 DEF Box!Next, Box!Clear
<1>4. CASE WarmUp
  BY <1>4 DEF WarmUp, StatsInv, Warming
<1>5. CASE ~(HandOver \/ Free \/ Restart \/ WarmUp)
  <2>1. reported' = reported /\ stats_routed_power' = stats_routed_power
    BY <1>5 DEF Next, Interrupt, LoopStep, Adc, MidWindow, Drop, SyncLoss, NoSyncLoss,
                NothingReady, ReadStatus, WriteStatus, ReadSums, Report, NextPass, Restarted,
                Detect, vars, stats, history
  <2>2. stats_ready_flag' = 0 <=> stats_ready_flag = 0
    BY <1>5 DEF Next, Interrupt, LoopStep, Adc, MidWindow, Drop, SyncLoss, NoSyncLoss,
                NothingReady, ReadStatus, WriteStatus, ReadSums, Report, NextPass, Restarted,
                vars
  <2> QED BY <2>1, <2>2
<1> QED BY <1>1, <1>2, <1>3, <1>4, <1>5

\* The flag and the copies implement a mailbox: no window is processed twice, and
\* none is replaced while the loop processes it.
THEOREM MailboxImplemented == Spec => Box!Spec
<1>1. Init => Box!Init
  BY DEF Init, Box!Init
<1> QED BY <1>1, BoxStep, TransferInvariant, PTL DEF Spec, Box!Spec
================================================================================
