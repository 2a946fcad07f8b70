--------------------------- MODULE NanoTimersProofs ---------------------------
(***************************************************************************)
(* Two parts of the Nano that live by their timers and share no state.     *)
(* For every setting of Timer2 and every meter and noise that respect the  *)
(* times of PulseAssumption: each pulse is counted once, and the power is  *)
(* the one of pulses that keep coming.  For all minimum times, burst       *)
(* periods and durations: the minimum times of the relay are kept, and the *)
(* last request decides what each load does.                               *)
(***************************************************************************)
EXTENDS PulseCounterProps, DiversionProps, TLAPS

USE PulseAssumption

\* The counter wraps at TOP, and only there.
LEMMA Wraps ==
  ASSUME NEW n \in 0 .. TOP - 1
  PROVE  /\ n + 1 < TOP => (n + 1) % TOP = n + 1
         /\ n + 1 = TOP => (n + 1) % TOP = 0
  OBVIOUS

\* The contact, the noise and Timer2, and the count.
Contacts ==
  /\ disturbed => due = 0
  /\ ~disturbed => /\ attached
                   /\ contact # "open" => low = 0
                   /\ OpenContact /\ OpeningContact /\ ClosingContact /\ ClosedContact

LEMMA InvInit == Init => CounterInv
<1> SUFFICES ASSUME Init PROVE CounterInv
  OBVIOUS
<1> USE DEF Init
<1>1. TypeOK
  <2>1. running \in BOOLEAN /\ attached \in BOOLEAN /\ impulsionFlag \in BOOLEAN
        /\ disturbed \in BOOLEAN
    OBVIOUS
  <2> QED BY <2>1 DEF TypeOK
<1>2. Moving /\ Silences /\ PowerIsCurrent
  BY DEF Moving, Silences, PowerIsCurrent
<1>3. Contacts
  BY DEF Contacts, OpenContact, OpeningContact, ClosingContact, ClosedContact
<1> QED BY <1>1, <1>2, <1>3 DEF CounterInv, Contacts
--------------------------------------------------------------------------------
LEMMA MeterOK ==
  ASSUME CounterInv, Meter
  PROVE  TypeOK' /\ Moving'
<1> USE DEF CounterInv, Meter, Close, Release, Bounces, Settle, Noise, Drive, timer, rate, power
<1>1. UNCHANGED <<timer, attached, rate, disturbed>>
  OBVIOUS
<1>2. /\ running' \in BOOLEAN /\ attached' \in BOOLEAN /\ impulsionFlag' \in BOOLEAN
      /\ disturbed' \in BOOLEAN
  BY <1>1 DEF TypeOK
<1>3. /\ contact' \in {"open", "closing", "closed", "opening"} /\ pin' \in {"ON", "OFF"}
      /\ age' \in 0 .. Hold /\ low' \in 0 .. Spike
  BY DEF TypeOK
<1>4. requests' \subseteq {"INT0", "COMPA", "OVF"}
  BY DEF TypeOK
<1>5. due' \in -1 .. 1
  <2>1. CASE Close
    BY <2>1 DEF TypeOK, OpenContact
  <2>2. CASE ~Close
    BY <2>2 DEF TypeOK
  <2> QED BY <2>1, <2>2
<1>6. TypeOK'
  BY <1>1, <1>2, <1>3, <1>4, <1>5 DEF TypeOK
<1>7. Moving'
  BY DEF Moving
<1> QED BY <1>6, <1>7

LEMMA ContactsMeter ==
  ASSUME CounterInv, Meter
  PROVE  Contacts'
<1> USE DEF CounterInv, Drive, timer
<1>1. CASE disturbed
  <2>1. due' = due /\ disturbed'
    BY <1>1 DEF Meter, Close, Release, Bounces, Settle, Noise
  <2> QED BY <1>1, <2>1 DEF Contacts
<1> SUFFICES ASSUME ~disturbed PROVE Contacts'
  BY <1>1
<1>2. ~disturbed /\ UNCHANGED <<running, TCNT2, attached, disturbed>>
  BY DEF Meter, Close, Release, Bounces, Settle, Noise
<1>3. CASE Close
  BY <1>2, <1>3 DEF Close, Contacts, OpenContact, OpeningContact, ClosingContact, ClosedContact
<1>4. CASE Release
  <2>1. due = 0 /\ ~running /\ requests = {}
    BY <1>4 DEF Release, ClosedContact, TypeOK
  <2> QED
    BY <1>2, <1>4, <2>1 DEF Release, Contacts, OpenContact, OpeningContact, ClosingContact,
                            ClosedContact
<1>5. CASE Bounces
  BY <1>2, <1>5 DEF Bounces, Contacts, OpenContact, OpeningContact, ClosingContact,
                    ClosedContact, TypeOK
<1>6. CASE Settle /\ contact = "closing"
  BY <1>2, <1>6 DEF Settle, Contacts, OpenContact, OpeningContact, ClosingContact,
                    ClosedContact, TypeOK
<1>7. CASE Settle /\ contact = "opening"
  BY <1>2, <1>7 DEF Settle, Contacts, OpenContact, OpeningContact, ClosingContact,
                    ClosedContact, TypeOK, Moving
<1>8. CASE Noise
  BY <1>2, <1>8 DEF Noise, Contacts, OpenContact, OpeningContact, ClosingContact,
                    ClosedContact, TypeOK
<1> QED BY <1>3, <1>4, <1>5, <1>6, <1>7, <1>8 DEF Meter, Settle
--------------------------------------------------------------------------------
LEMMA TickOK ==
  ASSUME CounterInv, Tick
  PROVE  /\ TypeOK' /\ Moving'
         /\ running => \/ TCNT2 + 1 < TOP /\ TCNT2' = TCNT2 + 1
                       \/ TCNT2 + 1 = TOP /\ TCNT2' = 0
         /\ ~running => TCNT2' = TCNT2
<1> USE DEF CounterInv, Tick, rate, power
<1>1. /\ running => \/ TCNT2 + 1 < TOP /\ TCNT2' = TCNT2 + 1
                    \/ TCNT2 + 1 = TOP /\ TCNT2' = 0
      /\ ~running => TCNT2' = TCNT2
  BY Wraps DEF TypeOK
<1>2. /\ running' \in BOOLEAN /\ attached' \in BOOLEAN /\ impulsionFlag' \in BOOLEAN
      /\ disturbed' \in BOOLEAN
  BY DEF TypeOK
<1>3. TCNT2' \in 0 .. TOP - 1
  BY <1>1 DEF TypeOK
<1>4. age' \in 0 .. Hold /\ low' \in 0 .. Spike
  BY DEF TypeOK
<1>5. requests' \subseteq {"INT0", "COMPA", "OVF"}
  BY DEF TypeOK
<1>6. TypeOK'
  BY <1>2, <1>3, <1>4, <1>5 DEF TypeOK
<1>7. Moving'
  BY DEF Moving, TypeOK
<1> QED BY <1>1, <1>6, <1>7

LEMMA ContactsTick ==
  ASSUME CounterInv, Tick
  PROVE  Contacts'
<1> USE DEF CounterInv
<1>1. CASE disturbed
  BY <1>1 DEF Contacts, Tick
<1> SUFFICES ASSUME ~disturbed PROVE Contacts'
  BY <1>1
<1>2. /\ requests = {}
      /\ UNCHANGED <<contact, pin, running, attached, due, disturbed>>
      /\ requests' = (IF running /\ TCNT2' = OCR2A THEN {"COMPA"} ELSE {})
                       \cup (IF running /\ TCNT2' = 0 THEN {"OVF"} ELSE {})
  BY DEF Tick, Enabled
<1>3. contact # "open" => low' = 0
  BY DEF Tick
<1>4. CASE contact = "open"
  <2>1. due = 0 /\ (running => TCNT2 < OCR2A) /\ (pin = "OFF" => running /\ TCNT2 = low /\ low < Spike)
    BY <1>2, <1>4 DEF OpenContact, Tick, TypeOK
  <2>2. pin = "OFF" => low' = low + 1
    BY <1>4 DEF Tick
  <2>3. (running => TCNT2' = TCNT2 + 1 /\ TCNT2' # 0)
    BY <2>1, TickOK DEF TypeOK
  <2> QED
    BY <1>2, <1>4, <2>1, <2>2, <2>3 DEF Contacts, OpenContact, OpeningContact, ClosingContact,
                                        ClosedContact, TypeOK
<1>5. CASE contact \in {"closing", "opening"}
  <2>1. age < Bounce /\ age' = age + 1
    BY <1>5 DEF Tick, TypeOK
  <2>2. running => TCNT2 <= age /\ TCNT2' = TCNT2 + 1 /\ TCNT2' # 0 /\ TCNT2' < OCR2A
    BY <1>2, <1>5, <2>1, TickOK DEF ClosingContact, OpeningContact, TypeOK
  <2>3. requests' = {}
    BY <1>2, <2>2
  <2>4. running => TCNT2' <= age'
    BY <2>1, <2>2 DEF TypeOK
  <2>5. CASE contact = "closing"
    BY <1>2, <1>3, <2>3, <2>4, <2>5 DEF Contacts, OpenContact, OpeningContact,
                                        ClosingContact, ClosedContact
  <2>6. CASE contact = "opening"
    BY <1>2, <1>3, <2>3, <2>4, <2>6 DEF Contacts, OpenContact, OpeningContact,
                                        ClosingContact, ClosedContact
  <2> QED BY <1>5, <2>5, <2>6
<1>6. CASE contact = "closed"
  <2>1. CASE due = 0
    BY <1>2, <1>3, <1>6, <2>1 DEF Contacts, OpenContact, OpeningContact, ClosingContact,
                            ClosedContact
  <2>2. CASE due = 1
    <3>1. running /\ age <= TCNT2 /\ pin = "OFF"
      BY <1>2, <1>6, <2>2 DEF ClosedContact
    <3>2. age' = age + 1
      BY <3>1 DEF Tick, TypeOK
    <3>3. \/ "OVF" \notin requests' /\ age' <= TCNT2'
          \/ "OVF" \in requests' /\ age' <= TOP
      BY <1>2, <3>1, <3>2, TickOK DEF TypeOK
    <3>4. "INT0" \notin requests'
      BY <1>2
    <3> QED
      BY <1>2, <1>3, <1>6, <2>2, <3>1, <3>3, <3>4 DEF Contacts, OpenContact, OpeningContact,
                            ClosingContact, ClosedContact
  <2> QED BY <1>6, <2>1, <2>2 DEF ClosedContact
<1> QED BY <1>4, <1>5, <1>6 DEF TypeOK
--------------------------------------------------------------------------------
LEMMA InvINT0 ==
  ASSUME CounterInv, pulseExternalInterrupt
  PROVE  CounterInv'
<1> USE DEF CounterInv, pulseExternalInterrupt, environment, rate, power
<1>1. TCNT2' = 0 /\ TCNT2' \in 0 .. TOP - 1
  BY DEF Restarted
<1>2. requests' \subseteq {"INT0", "COMPA", "OVF"} /\ "INT0" \notin requests'
  BY DEF TypeOK
<1>3. TypeOK'
  <2>1. /\ running' \in BOOLEAN /\ attached' \in BOOLEAN /\ impulsionFlag' \in BOOLEAN
        /\ disturbed' \in BOOLEAN
    BY DEF TypeOK
  <2> QED BY <1>1, <1>2, <2>1 DEF TypeOK
<1>4. Moving' /\ Silences' /\ PowerIsCurrent'
  BY DEF Moving, Silences, PowerIsCurrent
<1>5. Contacts'
  <2>1. "INT0" \in requests
    BY DEF Enabled
  <2> QED
    BY <1>1, <1>2, <2>1 DEF Contacts, OpenContact, OpeningContact, ClosingContact,
                            ClosedContact, TypeOK
<1> QED BY <1>3, <1>4, <1>5 DEF Contacts

LEMMA InvCompare ==
  ASSUME CounterInv, Compare
  PROVE  CounterInv'
<1> USE DEF CounterInv, Compare, Rejected, environment, timer, rate, power
<1>1. TypeOK'
  <2>1. /\ running' \in BOOLEAN /\ attached' \in BOOLEAN /\ impulsionFlag' \in BOOLEAN
        /\ disturbed' \in BOOLEAN
    BY DEF TypeOK
  <2>2. TCNT2' \in 0 .. TOP - 1 /\ requests' \subseteq {"INT0", "COMPA", "OVF"}
    BY DEF TypeOK
  <2> QED BY <2>1, <2>2 DEF TypeOK
<1>2. Moving' /\ Silences' /\ PowerIsCurrent'
  BY DEF Moving, Silences, PowerIsCurrent
<1>3. Contacts'
  <2>1. CASE disturbed
    BY <2>1 DEF Contacts
  <2> SUFFICES ASSUME ~disturbed PROVE Contacts'
    BY <2>1
  <2>2. /\ "INT0" \notin requests /\ "COMPA" \in requests /\ requests' = requests \ {"COMPA"}
        /\ UNCHANGED <<contact, pin, low, age, due, attached, disturbed>>
    BY DEF Enabled
  <2>3. CASE pin = "ON"
    BY <2>2, <2>3 DEF Contacts, OpenContact, OpeningContact, ClosingContact, ClosedContact, TypeOK
  <2>4. CASE pin = "OFF"
    BY <2>2, <2>4 DEF Contacts, OpenContact, OpeningContact, ClosingContact, ClosedContact, TypeOK
  <2> QED BY <2>3, <2>4 DEF TypeOK
<1> QED BY <1>1, <1>2, <1>3 DEF Contacts

\* The overflow of a quiet counter is the one of a closed contact.
LEMMA InvOverflow ==
  ASSUME CounterInv, Overflow
  PROVE  CounterInv'
<1> USE DEF CounterInv, Overflow, environment
<1>1. "OVF" \in requests /\ "INT0" \notin Enabled /\ "COMPA" \notin Enabled
  BY DEF Enabled
<1>2. ~disturbed => contact = "closed" /\ due = 1 /\ pin = "OFF" /\ requests = {"OVF"}
  BY <1>1 DEF OpenContact, OpeningContact, ClosingContact, ClosedContact, Enabled, TypeOK
<1>3. due' \in -1 .. 1 /\ (disturbed => due' = 0) /\ (~disturbed => due' = 0)
  BY <1>2 DEF Count, NoPulse, TypeOK
<1>4. Silences' /\ PowerIsCurrent'
  BY DEF Count, NoPulse, power, rate, Silences, PowerIsCurrent
<1>5. TypeOK'
  <2>1. /\ running' \in BOOLEAN /\ attached' \in BOOLEAN /\ impulsionFlag' \in BOOLEAN
        /\ disturbed' \in BOOLEAN
    BY DEF TypeOK, Count, NoPulse, power, rate
  <2>2. TCNT2' \in 0 .. TOP - 1 /\ requests' \subseteq {"INT0", "COMPA", "OVF"}
    BY DEF TypeOK
  <2>3. /\ {deltaTimeImpulsion', lastDeltaTimeImpulsion', lastMinuteDeltaTimeImpulsion', Pimpulsion'}
             \subseteq Intervals \cup {"none", "silence"}
        /\ silent' \in 0 .. 2
    BY DEF TypeOK, Count, NoPulse, power, rate
  <2> QED BY <1>3, <2>1, <2>2, <2>3 DEF TypeOK
<1>6. Moving'
  BY DEF Moving
<1>7. Contacts'
  BY <1>2, <1>3 DEF Contacts, OpenContact, OpeningContact, ClosingContact, ClosedContact
<1> QED BY <1>4, <1>5, <1>6, <1>7 DEF Contacts
--------------------------------------------------------------------------------
LEMMA InvPower ==
  ASSUME CounterInv, PVRScheduler
  PROVE  CounterInv'
<1>1. PICK minute \in BOOLEAN : PulsePower(minute)
  BY DEF PVRScheduler
<1> USE <1>1 DEF CounterInv, PulsePower, environment, timer, NoPower, Silence
<1> DEFINE over == minute /\ Silence
           new == deltaTimeImpulsion # lastDeltaTimeImpulsion
<1>2. Silences' /\ PowerIsCurrent'
  <2>1. /\ deltaTimeImpulsion' = deltaTimeImpulsion
        /\ lastDeltaTimeImpulsion' = deltaTimeImpulsion
        /\ silent' >= 1 => lastMinuteDeltaTimeImpulsion' = deltaTimeImpulsion
        /\ silent' = 2 => silent = 2 \/ (minute /\ silent = 1)
    BY DEF Silences, TypeOK
  <2>2. CASE silent' = 2
    <3>1. ~new /\ (silent = 2 \/ over)
      BY <2>1, <2>2 DEF Silences, TypeOK
    <3>2. ~impulsionFlag' /\ Pimpulsion' = "none"
      BY <3>1 DEF Silences, PowerIsCurrent
    <3> QED BY <2>1, <3>2 DEF Silences, PowerIsCurrent
  <2>3. CASE silent' # 2
    <3>1. Pimpulsion' # "silence"
      BY DEF Silences, PowerIsCurrent
    <3> QED BY <2>1, <2>3, <3>1 DEF Silences, PowerIsCurrent
  <2> QED BY <2>2, <2>3
<1>3. TypeOK'
  <2>1. /\ running' \in BOOLEAN /\ attached' \in BOOLEAN /\ impulsionFlag' \in BOOLEAN
        /\ disturbed' \in BOOLEAN
    BY DEF TypeOK
  <2>2. /\ {deltaTimeImpulsion', lastDeltaTimeImpulsion', lastMinuteDeltaTimeImpulsion', Pimpulsion'}
             \subseteq Intervals \cup {"none", "silence"}
        /\ silent' \in 0 .. 2
    BY DEF TypeOK
  <2> QED BY <2>1, <2>2 DEF TypeOK
<1>4. Moving' /\ Contacts'
  BY DEF Moving, Contacts, OpenContact, OpeningContact, ClosingContact, ClosedContact
<1> QED BY <1>2, <1>3, <1>4 DEF Contacts

LEMMA InvStopStart ==
  ASSUME CounterInv, Stop \/ Start \/ Quiet
  PROVE  CounterInv'
<1> USE DEF CounterInv, Stop, Start, Quiet, configTimer2, environment, timer, rate, power
<1>1. TypeOK'
  <2>1. /\ running' \in BOOLEAN /\ attached' \in BOOLEAN /\ impulsionFlag' \in BOOLEAN
        /\ disturbed' \in BOOLEAN
    BY DEF TypeOK
  <2>2. TCNT2' \in 0 .. TOP - 1 /\ due' \in -1 .. 1
    BY DEF TypeOK
  <2> QED BY <2>1, <2>2 DEF TypeOK
<1>2. Moving' /\ Silences' /\ PowerIsCurrent'
  BY DEF Moving, Silences, PowerIsCurrent
<1>3. Contacts'
  <2>1. CASE Stop \/ Start
    BY <2>1 DEF Contacts
  <2>2. CASE Quiet
    BY <2>2 DEF Contacts, Enabled, OpenContact, OpeningContact, ClosingContact, ClosedContact
  <2> QED BY <2>1, <2>2
<1> QED BY <1>1, <1>2, <1>3 DEF Contacts
--------------------------------------------------------------------------------
LEMMA InvStep == CounterInv /\ [Next]_vars => CounterInv'
<1> SUFFICES ASSUME CounterInv, [Next]_vars PROVE CounterInv'
  OBVIOUS
<1>1. CASE Meter \/ Tick
  <2>1. Silences' /\ PowerIsCurrent'
    BY <1>1 DEF Meter, Close, Release, Bounces, Settle, Noise, Tick, rate, power, CounterInv,
                Silences, PowerIsCurrent
  <2> QED BY <1>1, <2>1, MeterOK, ContactsMeter, TickOK, ContactsTick DEF CounterInv, Contacts
<1>2. CASE UNCHANGED vars
  <2> USE <1>2 DEF CounterInv, vars, environment, timer, rate, power
  <2>1. TypeOK' /\ Moving' /\ Silences' /\ PowerIsCurrent'
    BY DEF TypeOK, Moving, Silences, PowerIsCurrent
  <2>2. Contacts'
    BY DEF Contacts, OpenContact, OpeningContact, ClosingContact, ClosedContact
  <2> QED BY <2>1, <2>2 DEF Contacts
<1> QED
  BY <1>1, <1>2, InvINT0, InvCompare, InvOverflow, InvPower, InvStopStart DEF Next, Interrupt

\* Timer2 runs from the last falling edge, and is late enough for no bounce and no
\* noise, early enough for each pulse; types included.
THEOREM CounterInvariant == Spec => []CounterInv
  BY InvInit, InvStep, PTL DEF Spec

\* Each pulse is counted once, and nothing else is.
THEOREM PulsesCountedOnce == Spec => []CountedOnce
<1>1. CounterInv => CountedOnce
  BY DEF CounterInv, CountedOnce, TypeOK, OpenContact, OpeningContact, ClosingContact,
         ClosedContact
<1> QED BY <1>1, CounterInvariant, PTL

\* The power is that of pulses that keep coming.
THEOREM PowerStaysCurrent == Spec => []PowerIsCurrent
<1>1. CounterInv => PowerIsCurrent
  BY DEF CounterInv
<1> QED BY <1>1, CounterInvariant, PTL
--------------------------------------------------------------------------------
(* The decisions for the two loads *)

USE DiversionAssumption

\* The part of the invariant a second of the relay is about.
RelayInv ==
  /\ Div2_On_cnt \in 0 .. OnTime /\ Div2_Off_cnt \in 0 .. OffTime
  /\ relay \in {"ON", "OFF"}
  /\ switched \in [by : {"auto", "user", "restart"}, age : 0 .. AgeMax]
  /\ TimesExclusive
  /\ switched.by = "auto" =>
       /\ relay = "ON" => Div2_On_cnt + switched.age >= OnTime
       /\ relay = "OFF" => Div2_Off_cnt + switched.age >= OffTime

LEMMA DiversionInit == LoadsInit => DiversionInv
  BY DEF LoadsInit, DiversionInv, LoadsTypeOK, TimesExclusive, LastRequestWins, Modes

LEMMA RelaySecondOK ==
  ASSUME RelayInv, relayMode \in Modes, RelaySecond
  PROVE  RelayInv' /\ input' \subseteq {"surplus", "import"}
<1> USE DEF RelayInv, TimesExclusive
<1>1. input' \subseteq {"surplus", "import"}
  BY DEF RelaySecond, Inputs
<1>2. CASE relayMode = "AUTOM" /\ Automatic
  <2> DEFINE passed == IF switched.age = AgeMax THEN AgeMax ELSE switched.age + 1
  <2>1. passed \in 0 .. AgeMax /\ (passed = switched.age + 1 \/ passed = AgeMax)
    OBVIOUS
  <2>2. switched' = IF relay' # relay THEN [by |-> "auto", age |-> 0]
                                      ELSE [by |-> switched.by, age |-> passed]
    BY <1>2 DEF RelaySecond
  <2>3. CASE Activate
    BY <1>1, <2>2, <2>3 DEF Activate
  <2>4. CASE CountOn
    BY <1>1, <2>1, <2>2, <2>4 DEF CountOn
  <2>5. CASE Deactivate
    BY <1>1, <2>2, <2>5 DEF Deactivate
  <2>6. CASE CountOff
    BY <1>1, <2>1, <2>2, <2>6 DEF CountOff
  <2> QED BY <1>2, <2>3, <2>4, <2>5, <2>6 DEF Automatic
<1>3. CASE relayMode # "AUTOM" /\ Manual
  BY <1>1, <1>3 DEF RelaySecond, Manual
<1> QED BY <1>2, <1>3 DEF RelaySecond

LEMMA DiversionSecond ==
  ASSUME DiversionInv, Second
  PROVE  DiversionInv'
<1> USE DEF DiversionInv, LoadsTypeOK, Modes
<1>1. RelayInv' /\ input' \subseteq {"surplus", "import"}
  BY RelaySecondOK DEF Second, RelayInv
<1>2. /\ triacMode' \in Modes /\ boostTime' \in Nat \cup {-1}
      /\ burstCnt' \in 0 .. BOOST_BURST_PERIOD - 1
      /\ burstThreshold' \in Thresholds
  <2>1. (burstCnt + 1) % BOOST_BURST_PERIOD \in 0 .. BOOST_BURST_PERIOD - 1
    OBVIOUS
  <2> QED BY <2>1 DEF Second, BoostSecond, boost
<1>3. relayMode' \in Modes /\ relayplusTime' \in Nat \cup {-1}
  BY DEF Second, RelayPlusSecond
<1>4. /\ wanted' \in [ssr : Modes \cup {"BOOST"}, relay : Modes \cup {"PLUS"}]
      /\ wanted'.ssr = IF boostTime = 0 THEN "AUTOM" ELSE wanted.ssr
      /\ wanted'.relay = IF relayplusTime = 0 THEN "STOP" ELSE wanted.relay
  BY DEF Second
<1>5. /\ wanted'.ssr # "BOOST" => triacMode' = wanted'.ssr
      /\ boostTime' # -1 => wanted'.ssr = "BOOST"
  BY <1>4 DEF Second, BoostSecond, LastRequestWins, boost
<1>6. /\ wanted'.relay # "PLUS" => relayMode' = wanted'.relay
      /\ relayplusTime' # -1 => wanted'.relay = "PLUS"
  BY <1>4 DEF Second, RelayPlusSecond, LastRequestWins
<1> QED BY <1>1, <1>2, <1>3, <1>4, <1>5, <1>6 DEF RelayInv, LastRequestWins

LEMMA DiversionRequest ==
  ASSUME DiversionInv, SETRELAY \/ SETSSR \/ SETBOOST \/ SETRELPLUS \/ Restart
  PROVE  DiversionInv'
<1> USE DEF DiversionInv, LoadsTypeOK, Modes, TimesExclusive, LastRequestWins,
            counters, boost
<1>1. CASE SETRELAY
  BY <1>1 DEF SETRELAY
<1>2. CASE SETSSR
  BY <1>2 DEF SETSSR
<1>3. CASE SETBOOST
  BY <1>3 DEF SETBOOST
<1>4. CASE SETRELPLUS
  BY <1>4 DEF SETRELPLUS
<1>5. CASE Restart
  BY <1>5 DEF Restart
<1> QED BY <1>1, <1>2, <1>3, <1>4, <1>5

LEMMA DiversionStep == DiversionInv /\ [LoadsNext]_loadsVars => DiversionInv'
<1> SUFFICES ASSUME DiversionInv, [LoadsNext]_loadsVars PROVE DiversionInv'
  OBVIOUS
<1>1. CASE UNCHANGED loadsVars
  BY <1>1 DEF loadsVars, DiversionInv, LoadsTypeOK, TimesExclusive, LastRequestWins, Modes,
              counters, boost, history
<1> QED BY <1>1, DiversionSecond, DiversionRequest DEF LoadsNext

\* Types, the exclusion of the two minimum times and the priority of the last
\* request hold together.
THEOREM DiversionInvariant == LoadsSpec => []DiversionInv
  BY DiversionInit, DiversionStep, PTL DEF LoadsSpec

\* The minimum times never run together, whatever restarts and requests come.
THEOREM TimesNeverTogether == LoadsSpec => []TimesExclusive
<1>1. DiversionInv => TimesExclusive
  BY DEF DiversionInv
<1> QED BY <1>1, DiversionInvariant, PTL

\* No timer overrides a later request, whatever the durations.
THEOREM LastRequestDecides == LoadsSpec => []LastRequestWins
<1>1. DiversionInv => LastRequestWins
  BY DEF DiversionInv
<1> QED BY <1>1, DiversionInvariant, PTL

\* A relay switched on by the surplus is kept on for T_DIV2_ON.
LEMMA KeptOnLongEnough == LoadsSpec => MinimumOn
<1> DEFINE Early == Second /\ relayMode = "AUTOM" /\ switched.by = "auto"
                      /\ relay = "ON" /\ relay' = "OFF" => switched.age >= OnTime
<1>1. DiversionInv => Early
  BY DEF DiversionInv, LoadsTypeOK, Second, RelaySecond, Automatic, Activate, CountOn,
         Deactivate, CountOff
<1>2. DiversionInv /\ [LoadsNext]_loadsVars => [Early]_loadsVars
  BY <1>1
<1> QED BY <1>2, DiversionInvariant, PTL DEF LoadsSpec, MinimumOn

\* A relay switched off by an import is kept off for T_DIV2_OFF.
LEMMA KeptOffLongEnough == LoadsSpec => MinimumOff
<1> DEFINE Early == relay = "OFF" /\ relay' = "ON" /\ switched.by = "auto"
                      /\ relayMode = "AUTOM" => switched.age >= OffTime
<1>1. DiversionInv /\ LoadsNext => Early
  BY DEF DiversionInv, LoadsTypeOK, LoadsNext, Second, RelaySecond, Automatic, Activate, CountOn,
         Deactivate, CountOff, SETRELAY, SETSSR, SETBOOST, SETRELPLUS, Restart
<1>2. DiversionInv /\ [LoadsNext]_loadsVars => [Early]_loadsVars
  BY <1>1
<1> QED BY <1>2, DiversionInvariant, PTL DEF LoadsSpec, MinimumOff

\* The surplus and the imports keep to both minimum times, whatever they are.
THEOREM MinimumTimesKept == LoadsSpec => MinimumTimes
  BY KeptOnLongEnough, KeptOffLongEnough DEF MinimumTimes
================================================================================
