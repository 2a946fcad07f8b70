---------------------------- MODULE LifecycleProofs ----------------------------
(***************************************************************************)
(* For every timeout, length of the alarm, of FORMAT and of the serial     *)
(* buffer: the router stops in time when the mains are gone, for no other  *)
(* reason, and carries out no request that came while it was stopped.      *)
(***************************************************************************)
EXTENDS LifecycleProps, SequenceTheorems, TLAPS

\* A request as it is in the serial buffer.
Entry == [what : Requests, alarm : BOOLEAN]

Flags == /\ major \in BOOLEAN /\ hasRestarted \in BOOLEAN /\ live \in BOOLEAN
         /\ mains \in BOOLEAN /\ slow \in BOOLEAN /\ gap \in BOOLEAN /\ formatted \in BOOLEAN
Line == line \in Seq(Entry) /\ Len(line) <= MaxLine
Values ==
  /\ pc \in Steps \cup Blocked /\ back \in {"check", "serve", "bottom"}
  /\ busy \in 0 .. ALARM \cup 0 .. FORMAT
  /\ since \in 0 .. TIMEOUT + 1 /\ stats_ready_flag \in {0, 1}
  /\ i \in 0 .. SALVE
  /\ present \in {"all", "some", "none"}
  /\ dark \in 0 .. DarkMax

LEMMA TypeParts ==
  /\ TypeOK <=> Flags /\ Line /\ Values
  /\ TypeOK' <=> Flags' /\ Line' /\ Values'
  BY DEF TypeOK, Flags, Line, Values, Entry

LEMMA Numbers ==
  /\ TIMEOUT \in Nat \ {0} /\ ALARM \in Nat \ {0} /\ FORMAT \in Nat \ {0}
  /\ SALVE \in Nat \ {0} /\ MaxLine \in Nat \ {0}
  BY LifeAssumption

LEMMA LineInit == Init => Line
  BY Numbers, EmptySeq DEF Init, Line

LEMMA LineNext == Line /\ [Next]_vars => Line'
<1> SUFFICES ASSUME Line, [Next]_vars PROVE Line'
  OBVIOUS
<1> USE Numbers DEF Line
<1>1. CASE Send
  <2>1. PICK request \in Requests : line' = Append(line, [what |-> request, alarm |-> InAlarm])
    BY <1>1 DEF Send
  <2>2. InAlarm \in BOOLEAN
    BY DEF InAlarm
  <2>3. [what |-> request, alarm |-> InAlarm] \in Entry
    BY <2>2 DEF Entry
  <2> DEFINE e == [what |-> request, alarm |-> InAlarm]
  <2> HIDE DEF e
  <2>4. line' = Append(line, e) /\ e \in Entry
    BY <2>1, <2>3 DEF e
  <2> QED BY <1>1, <2>4 DEF Send
<1>2. CASE ServeQuick \/ ServeFormat \/ ServeReset
  <2>1. line # <<>> /\ line' = Tail(line)
    BY <1>2 DEF ServeQuick, ServeFormat, ServeReset, Serve
  <2> QED BY <2>1
<1>3. CASE NextPass
  <2>1. line' = line \/ line' = <<>>
    BY <1>3 DEF NextPass
  <2>2. CASE line' = line
    BY <2>2
  <2>3. CASE line' = <<>>
    <3>1. <<>> \in Seq(Entry) /\ Len(<<>>) = 0 /\ 0 <= MaxLine
      BY EmptySeq
    <3>2. line' \in Seq(Entry)
      BY <2>3, <3>1
    <3>3. Len(line') <= MaxLine
      BY <2>3, <3>1
    <3> QED BY <3>2, <3>3
  <2> QED BY <2>1, <2>2, <2>3
<1>4. CASE Lose \/ Return \/ Tick \/ Check \/ Stats \/ FormatDone \/ Served \/ FatalError
           \/ AlarmEnds \/ WarmedUp \/ UNCHANGED vars
  BY <1>4 DEF Lose, Return, Tick, Check, Stats, FormatDone, Served, FatalError, AlarmEnds,
              WarmedUp, vars, input
<1> QED BY <1>1, <1>2, <1>3, <1>4 DEF Next, LoopStep

LEMMA FlagsInit == Init => Flags
  BY DEF Init, Flags

LEMMA FlagsNext == Flags /\ [Next]_vars => Flags'
<1> SUFFICES ASSUME Flags, [Next]_vars PROVE Flags'
  OBVIOUS
<1> USE DEF Flags, loopVars, alarmVars, supply, history, input
<1>1. CASE Lose \/ Return
  BY <1>1 DEF Lose, Return
<1>2. CASE Tick
  BY <1>2 DEF Tick
<1>3. CASE Send
  BY <1>3 DEF Send
<1>4. CASE Check
  BY <1>4 DEF Check
<1>5. CASE Stats
  BY <1>5 DEF Stats
<1>6. CASE ServeQuick \/ ServeFormat \/ ServeReset
  BY <1>6 DEF ServeQuick, ServeFormat, ServeReset, StartPVR
<1>7. CASE FormatDone \/ Served \/ FatalError \/ AlarmEnds
  BY <1>7 DEF FormatDone, Served, FatalError, AlarmEnds, StartPVR
<1>8. CASE WarmedUp
  BY <1>8 DEF WarmedUp
<1>9. CASE NextPass
  BY <1>9 DEF NextPass
<1>10. CASE UNCHANGED vars
  BY <1>10 DEF vars
<1> QED BY <1>1, <1>2, <1>3, <1>4, <1>5, <1>6, <1>7, <1>8, <1>9, <1>10 DEF Next, LoopStep

LEMMA ValuesInit == Init => Values
  BY Numbers DEF Init, Values, Steps, Blocked, DarkMax

LEMMA ValuesNext == Flags /\ Values /\ [Next]_vars => Values'
<1> SUFFICES ASSUME Flags, Values, [Next]_vars PROVE Values'
  OBVIOUS
<1> USE Numbers DEF Values, Steps, Blocked, DarkMax, loopVars, alarmVars, supply, history, input
<1>1. CASE Lose \/ Return
  BY <1>1 DEF Lose, Return
<1>2. CASE Tick
  BY <1>2 DEF Tick, Window
<1>3. CASE Send
  BY <1>3 DEF Send
<1>4. CASE Check
  BY <1>4 DEF Check
<1>5. CASE Stats
  BY <1>5 DEF Stats
<1>6. CASE ServeQuick \/ ServeFormat \/ ServeReset
  BY <1>6 DEF ServeQuick, ServeFormat, ServeReset, Serve, StartPVR
<1>7. CASE FormatDone \/ Served \/ FatalError \/ AlarmEnds
  BY <1>7 DEF FormatDone, Served, FatalError, AlarmEnds, StartPVR
<1>8. CASE WarmedUp
  BY <1>8 DEF WarmedUp
<1>9. CASE NextPass
  BY <1>9 DEF NextPass
<1>10. CASE UNCHANGED vars
  BY <1>10 DEF vars
<1> QED BY <1>1, <1>2, <1>3, <1>4, <1>5, <1>6, <1>7, <1>8, <1>9, <1>10 DEF Next, LoopStep

LEMMA TypesInit == Init => TypeOK
  BY FlagsInit, LineInit, ValuesInit, TypeParts

LEMMA TypesNext == TypeOK /\ [Next]_vars => TypeOK'
  BY FlagsNext, LineNext, ValuesNext, TypeParts
--------------------------------------------------------------------------------
LEMMA LivesInit == Init => Lives
  BY DEF Init, Lives

LEMMA LivesNext == TypeOK /\ Lives /\ [Next]_vars => Lives'
<1> SUFFICES ASSUME TypeOK, Lives, [Next]_vars PROVE Lives'
  OBVIOUS
<1> Flags /\ Values
  BY TypeParts
<1> USE DEF Lives, Flags, loopVars, alarmVars
<1>1. CASE Lose \/ Return \/ Tick \/ Send
  BY <1>1 DEF Lose, Return, Tick, Send, history
<1>2. CASE Check
  BY <1>2 DEF Check
<1>3. CASE Stats
  BY <1>3 DEF Stats
<1>4. CASE ServeQuick \/ ServeFormat \/ ServeReset
  BY <1>4 DEF ServeQuick, ServeFormat, ServeReset, Serve, StartPVR
<1>5. CASE FormatDone \/ Served \/ FatalError \/ AlarmEnds
  BY <1>5 DEF FormatDone, Served, FatalError, AlarmEnds, StartPVR
<1>6. CASE WarmedUp
  BY <1>6 DEF WarmedUp, Values
<1>7. CASE NextPass
  BY <1>7 DEF NextPass
<1>8. CASE UNCHANGED vars
  BY <1>8 DEF vars, history
<1> QED BY <1>1, <1>2, <1>3, <1>4, <1>5, <1>6, <1>7, <1>8 DEF Next, LoopStep

LEMMA SuppliedInit == Init => Supplied
<1> SUFFICES ASSUME Init PROVE Supplied
  OBVIOUS
<1>1. ~gap => mains
  BY Zenon DEF Init
<1>2. present = "some" /\ dark = 0 /\ ~live
  BY DEF Init
<1> QED BY <1>1, <1>2 DEF Supplied

LEMMA SuppliedNext == TypeOK /\ Lives /\ Supplied /\ [Next]_vars => Supplied'
<1> SUFFICES ASSUME TypeOK, Lives, Supplied, [Next]_vars PROVE Supplied'
  OBVIOUS
<1> Flags /\ Values
  BY TypeParts
<1> USE DEF Supplied, Flags, loopVars, alarmVars, supply, history, input
<1>1. dark \in Nat
  BY Numbers DEF Values, DarkMax
<1>2. CASE Lose \/ Return
  BY <1>2 DEF Lose, Return
<1>3. CASE Tick
  BY <1>1, <1>3 DEF Tick
<1>4. CASE Send
  BY <1>4 DEF Send
<1>5. CASE Check
  BY <1>5 DEF Check, Lives
<1>6. CASE Stats
  BY <1>6 DEF Stats, Lives
<1>7. CASE ServeQuick \/ ServeFormat \/ ServeReset
  BY <1>7 DEF ServeQuick, ServeFormat, ServeReset, Serve, StartPVR
<1>8. CASE FormatDone \/ Served \/ FatalError \/ AlarmEnds
  BY <1>8 DEF FormatDone, Served, FatalError, AlarmEnds, StartPVR, Lives
<1>9. CASE WarmedUp
  BY <1>9 DEF WarmedUp, Lives
<1>10. CASE NextPass
  BY <1>10 DEF NextPass, Lives
<1>11. CASE UNCHANGED vars
  BY <1>11 DEF vars
<1> QED BY <1>2, <1>3, <1>4, <1>5, <1>6, <1>7, <1>8, <1>9, <1>10, <1>11 DEF Next, LoopStep
--------------------------------------------------------------------------------
\* The seconds without mains.

LEMMA DarkInit == Init => Dark
  BY DEF Init, Dark

LEMMA DarkNext ==
  TypeOK /\ Lives /\ Supplied /\ Dark /\ [Next]_vars => Dark'
<1> SUFFICES ASSUME TypeOK, Lives, Supplied, Dark, [Next]_vars PROVE Dark'
  OBVIOUS
<1>1. Flags /\ Values
  BY TypeParts
<1>2. /\ dark \in Nat /\ since \in Nat /\ since <= TIMEOUT + 1 /\ TIMEOUT \in Nat /\ TIMEOUT > 0
      /\ Now \in 0 .. 1 /\ Before \in 0 .. 1 /\ stats_ready_flag \in {0, 1}
  BY <1>1, Numbers DEF Values, DarkMax, Now, Before
<1>3. dark > 0 => present = "none"
  BY DEF Supplied
<1> USE DEF Dark, loopVars, alarmVars, supply, history, input
<1>4. CASE Lose
  BY <1>2, <1>4 DEF Lose, Now, Before
<1>5. CASE Return
  BY <1>2, <1>5 DEF Return, Now, Before
<1>6. CASE Tick
  <2> SUFFICES ASSUME live PROVE Dark'
    BY <1>6 DEF Tick
  <2> DEFINE n == IF slow THEN 1 ELSE 0
             m == IF slow' THEN 1 ELSE 0
  <2>1. /\ stats_ready_flag = 1 \/ hasRestarted => dark <= Before + n
        /\ major => dark <= TIMEOUT + 3 + n
        /\ ~major /\ pc = "check" =>
             dark <= TIMEOUT + 3 + n /\ (since <= TIMEOUT => dark <= since + 2)
        /\ ~major /\ pc # "check" => dark <= TIMEOUT + 2 + n /\ dark <= since + 2
    BY DEF Dark, Now
  <2>2. /\ UNCHANGED <<pc, hasRestarted, live, major>> /\ pc \notin {"alarm", "warm"}
        /\ Before' = Before
    BY <1>6 DEF Tick, Lives, Before
  <2> HIDE DEF Dark
  <2>3. /\ n \in 0 .. 1 /\ m \in 0 .. 1
        /\ (pc = "format" /\ m = n) \/ (pc # "format" /\ n = 0 /\ m = 1)
    <3>1. (~slow \/ pc \in Blocked) /\ slow' = (slow \/ pc \notin Blocked)
      BY <1>6 DEF Tick
    <3>2. pc = "format" => slow' = slow
      BY <1>1, <3>1, Zenon DEF Blocked, Flags
    <3>3. pc # "format" => ~slow /\ slow'
      BY <2>2, <3>1, Zenon DEF Blocked
    <3> QED BY <3>2, <3>3
  <2> HIDE DEF n, m
  <2>4. since' = IF since > TIMEOUT THEN since ELSE since + 1
    BY <1>6 DEF Tick
  <2>5. dark' = dark \/ (dark' = dark + 1 /\ present = "none" /\ pc # "format")
    BY <1>6 DEF Tick
  <2>6. present = "none" => stats_ready_flag' = stats_ready_flag
    BY <1>1, <1>6 DEF Tick, Window
  <2>7. present # "none" => dark' = 0
    BY <1>2, <1>3, <2>5
  <2>8. dark' + n <= dark + m /\ n <= m /\ dark' \in Nat /\ since' \in Nat
    BY <1>2, <2>3, <2>4, <2>5
  <2>9. (dark' = dark /\ n <= m) \/ (dark' = dark + 1 /\ m = n + 1)
    BY <2>3, <2>5
  <2>10. ASSUME stats_ready_flag' = 1 \/ hasRestarted PROVE dark' <= Before + m
    <3>1. CASE present = "none"
      <4>1. dark <= Before + n
        BY <2>1, <2>6, <2>10, <3>1
      <4> QED BY <1>2, <2>3, <2>8, <2>9, <4>1
    <3>2. CASE present # "none"
      BY <1>2, <2>3, <2>7, <3>2
    <3> QED BY <3>1, <3>2
  <2>11. ASSUME major PROVE dark' <= TIMEOUT + 3 + m
    <3>1. dark <= TIMEOUT + 3 + n
      BY <2>1, <2>11
    <3> QED BY <1>2, <2>3, <2>8, <2>9, <3>1
  <2>12. ASSUME ~major, pc = "check"
         PROVE  dark' <= TIMEOUT + 3 + m /\ (since' <= TIMEOUT => dark' <= since' + 2)
    BY <1>2, <2>1, <2>3, <2>4, <2>5, <2>8, <2>12
  <2>13. ASSUME ~major, pc # "check"
         PROVE  dark' <= TIMEOUT + 2 + m /\ dark' <= since' + 2
    BY <1>2, <2>1, <2>3, <2>4, <2>5, <2>8, <2>13
  <2> QED BY <2>2, <2>3, <2>10, <2>11, <2>12, <2>13 DEF Dark, Now, m
<1>7. CASE Send
  BY <1>7 DEF Send, Now, Before
<1>8. CASE Check
  BY <1>1, <1>2, <1>8 DEF Check, Now, Before, Lives
<1>9. CASE Stats
  BY <1>1, <1>2, <1>9 DEF Stats, Now, Before
<1>10. CASE ServeQuick
  BY <1>2, <1>10 DEF ServeQuick, Serve, Now, Before
<1>11. CASE ServeFormat
  BY <1>2, <1>11 DEF ServeFormat, Serve, Now, Before
<1>12. CASE FormatDone
  BY <1>2, <1>12 DEF FormatDone, Now, Before
<1>13. CASE Served
  BY <1>2, <1>13 DEF Served, Now, Before
<1>14. CASE ServeReset \/ FatalError \/ AlarmEnds
  BY <1>14 DEF ServeReset, FatalError, AlarmEnds, StartPVR
<1>15. CASE WarmedUp
  BY <1>2, <1>15 DEF WarmedUp, Now, Before, Lives, Supplied
<1>16. CASE NextPass
  BY <1>2, <1>16 DEF NextPass, Now, Before
<1>17. CASE UNCHANGED vars
  BY <1>17 DEF vars, Now, Before
<1> QED
  BY <1>4, <1>5, <1>6, <1>7, <1>8, <1>9, <1>10, <1>11, <1>12, <1>13, <1>14, <1>15, <1>16, <1>17 DEF Next, LoopStep
--------------------------------------------------------------------------------
\* The windows while the mains are there.

LEMMA FedInit == Init => Fed
  BY DEF Init, Fed

LEMMA FedNext ==
  TypeOK /\ Lives /\ Supplied /\ Fed /\ [Next]_vars => Fed'
<1> SUFFICES ASSUME TypeOK, Lives, Supplied, Fed, [Next]_vars PROVE Fed'
  OBVIOUS
<1>1. Flags /\ Values
  BY TypeParts
<1>2. /\ since \in Nat /\ TIMEOUT \in Nat /\ stats_ready_flag \in {0, 1}
      /\ Now \in 0 .. 1 /\ Before \in 0 .. 1
  BY <1>1, Numbers DEF Values, Now, Before
<1>3. live /\ ~gap => present = "all"
  BY DEF Supplied
<1> USE DEF Fed, loopVars, alarmVars, supply, history, input
<1>4. CASE Lose
  BY <1>2, <1>4 DEF Lose, Now, Before
<1>5. CASE Return
  BY <1>2, <1>5 DEF Return, Now, Before
<1>6. CASE Tick
  <2> SUFFICES ASSUME live, ~gap, hasRestarted => pc \in {"check", "stats"} PROVE Fed'
    BY <1>6 DEF Tick
  <2>1. /\ UNCHANGED <<pc, hasRestarted, live, gap, formatted>> /\ Before' = Before
    BY <1>6 DEF Tick, Before
  <2>2. stats_ready_flag' = 1
    BY <1>3, <1>6 DEF Tick, Window
  <2>3. pc = "format" => formatted
    BY DEF Lives
  <2> DEFINE n == IF slow THEN 1 ELSE 0
             m == IF slow' THEN 1 ELSE 0
  <2>4. n \in 0 .. 1 /\ m \in 0 .. 1 /\ (pc # "format" => n = 0 /\ m = 1)
    <3>1. (~slow \/ pc \in Blocked) /\ slow' = (slow \/ pc \notin Blocked)
      BY <1>6 DEF Tick
    <3>2. pc \notin {"alarm", "warm"}
      BY DEF Lives
    <3>3. pc # "format" => ~slow /\ slow'
      BY <3>1, <3>2, Zenon DEF Blocked
    <3> QED BY <3>3
  <2> HIDE DEF n, m
  <2>5. since' = IF since > TIMEOUT THEN since ELSE since + 1
    BY <1>6 DEF Tick
  <2>6. ~formatted /\ pc # "stats" => since <= Before + n
    BY DEF Now, n
  <2>7. ~formatted /\ pc # "stats" => since' <= Before + m
    BY <1>2, <2>3, <2>4, <2>5, <2>6
  <2> QED BY <2>1, <2>2, <2>7 DEF Now, m
<1>7. CASE Send
  BY <1>7 DEF Send, Now, Before
<1>8. CASE Check
  BY <1>1, <1>2, <1>8 DEF Check, Now, Before, Lives
<1>9. CASE Stats
  BY <1>1, <1>2, <1>9 DEF Stats, Now, Before
<1>10. CASE ServeQuick
  BY <1>2, <1>10 DEF ServeQuick, Serve, Now, Before
<1>11. CASE ServeFormat
  BY <1>2, <1>11 DEF ServeFormat, Serve, Now, Before
<1>12. CASE FormatDone
  BY <1>2, <1>12 DEF FormatDone, Now, Before
<1>13. CASE Served
  BY <1>2, <1>13 DEF Served, Now, Before
<1>14. CASE ServeReset \/ FatalError \/ AlarmEnds
  BY <1>14 DEF ServeReset, FatalError, AlarmEnds, StartPVR
<1>15. CASE WarmedUp
  BY <1>1, <1>2, <1>15 DEF WarmedUp, Now, Before, Values
<1>16. CASE NextPass
  BY <1>2, <1>16 DEF NextPass, Now, Before
<1>17. CASE UNCHANGED vars
  BY <1>17 DEF vars, Now, Before
<1> QED
  BY <1>4, <1>5, <1>6, <1>7, <1>8, <1>9, <1>10, <1>11, <1>12, <1>13, <1>14, <1>15, <1>16, <1>17 DEF Next, LoopStep
--------------------------------------------------------------------------------
\* The requests that came during an alarm.
Waiting == \E k \in 1 .. Len(line) : line[k].alarm

LEMMA AlarmsInit == Init => Alarms
<1> SUFFICES ASSUME Init PROVE Alarms
  OBVIOUS
<1>1. Len(line) = 0
  BY EmptySeq DEF Init
<1> QED BY <1>1 DEF Alarms

\* Requests are only taken from the front, but for the one of Send.
LEMMA WaitingNext ==
  ASSUME Line, [Next]_vars, Waiting'
  PROVE  Waiting \/ (Send /\ InAlarm)
<1>1. line \in Seq(Entry) /\ Len(line) \in Nat
  BY LenProperties DEF Line
<1>2. CASE Send
  <2>1. PICK request \in Requests : line' = Append(line, [what |-> request, alarm |-> InAlarm])
    BY <1>2 DEF Send
  <2>2. InAlarm \in BOOLEAN
    BY DEF InAlarm
  <2> DEFINE e == [what |-> request, alarm |-> InAlarm]
  <2>3. e \in Entry /\ e.alarm = InAlarm
    BY <2>2 DEF Entry
  <2>4. line' = Append(line, e)
    BY <2>1
  <2> HIDE DEF e
  <2>5. /\ Len(line') = Len(line) + 1
        /\ \A k \in 1 .. Len(line) : line'[k] = line[k]
        /\ line'[Len(line) + 1] = e
    BY <1>1, <2>3, <2>4
  <2>6. PICK k \in 1 .. Len(line') : line'[k].alarm
    BY DEF Waiting
  <2>7. k \in 1 .. Len(line) \/ k = Len(line) + 1
    BY <1>1, <2>5
  <2>8. CASE k \in 1 .. Len(line)
    BY <2>5, <2>6, <2>8 DEF Waiting
  <2>9. CASE k = Len(line) + 1
    BY <1>2, <2>3, <2>5, <2>6, <2>9
  <2> QED BY <2>7, <2>8, <2>9
<1>3. CASE ServeQuick \/ ServeFormat \/ ServeReset
  <2>1. line # <<>> /\ line' = Tail(line)
    BY <1>3 DEF ServeQuick, ServeFormat, ServeReset, Serve
  <2>2. /\ Len(line') = Len(line) - 1
        /\ \A k \in 1 .. Len(line) - 1 : line'[k] = line[k + 1]
    BY <1>1, <2>1
  <2>3. PICK k \in 1 .. Len(line') : line'[k].alarm
    BY DEF Waiting
  <2>4. line[k + 1].alarm /\ k + 1 \in 1 .. Len(line)
    BY <1>1, <2>2, <2>3
  <2> QED BY <2>4 DEF Waiting
<1>4. CASE NextPass
  <2>1. line' = line \/ line' = <<>>
    BY <1>4 DEF NextPass
  <2>2. Len(line') # 0
    BY DEF Waiting
  <2>3. line' = line
    BY <2>1, <2>2, EmptySeq
  <2> QED BY <2>3 DEF Waiting
<1>5. CASE Lose \/ Return \/ Tick \/ Check \/ Stats \/ FormatDone \/ Served \/ FatalError
           \/ AlarmEnds \/ WarmedUp \/ UNCHANGED vars
  <2>1. line' = line
    BY <1>5 DEF Lose, Return, Tick, Check, Stats, FormatDone, Served, FatalError, AlarmEnds,
                WarmedUp, vars, input
  <2> QED BY <2>1 DEF Waiting
<1> QED BY <1>2, <1>3, <1>4, <1>5 DEF Next, LoopStep

LEMMA AlarmsNext ==
  TypeOK /\ Lives /\ Alarms /\ [Next]_vars => Alarms'
<1> SUFFICES ASSUME TypeOK, Lives, Alarms, [Next]_vars, Waiting'
             PROVE  InAlarm' \/ (pc' = "bottom" /\ hasRestarted' /\ ~major')
  BY DEF Alarms, Waiting
<1>1. Line /\ Flags
  BY TypeParts
<1>2. CASE Send /\ InAlarm
  BY <1>2 DEF Send, InAlarm, loopVars
<1>3. CASE Waiting
  <2>1. InAlarm \/ (pc = "bottom" /\ hasRestarted /\ ~major)
    BY <1>3 DEF Alarms, Waiting
  <2> USE DEF InAlarm, loopVars, alarmVars
  <2>2. CASE Lose \/ Return \/ Tick \/ Send
    BY <2>1, <2>2 DEF Lose, Return, Tick, Send
  <2>3. CASE Check \/ Stats \/ FormatDone \/ Served \/ FatalError
    BY <2>1, <2>3 DEF Check, Stats, FormatDone, Served, FatalError
  <2>4. CASE ServeQuick \/ ServeFormat \/ ServeReset
    BY <2>1, <2>4 DEF ServeQuick, ServeFormat, ServeReset, Serve
  <2>5. CASE AlarmEnds
    BY <2>5 DEF AlarmEnds, StartPVR
  <2>6. CASE WarmedUp
    BY <2>1, <2>6 DEF WarmedUp, Lives
  <2>7. CASE NextPass
    <3>1. pc = "bottom" /\ hasRestarted
      BY <2>1, <2>7 DEF NextPass
    <3>2. line' = <<>>
      BY <2>7, <3>1 DEF NextPass
    <3> QED BY <3>2, EmptySeq DEF Waiting
  <2>8. CASE UNCHANGED vars
    BY <2>1, <2>8 DEF vars
  <2> QED BY <2>2, <2>3, <2>4, <2>5, <2>6, <2>7, <2>8 DEF Next, LoopStep
<1> QED BY <1>1, <1>2, <1>3, WaitingNext
--------------------------------------------------------------------------------
\* How far the loop is behind the mains, what it knows of them, and where the
\* requests of an alarm are.
THEOREM LifecycleInvariant == Spec => []LifecycleInv
<1>1. Init => LifecycleInv
  BY TypesInit, LivesInit, SuppliedInit, DarkInit, FedInit, AlarmsInit DEF LifecycleInv
<1>2. LifecycleInv /\ [Next]_vars => LifecycleInv'
  BY TypesNext, LivesNext, SuppliedNext, DarkNext, FedNext, AlarmsNext DEF LifecycleInv
<1> QED BY <1>1, <1>2, PTL DEF Spec

\* Once the mains are gone the loads are not left as they were for longer than the
\* timeout and four passes of the loop.
THEOREM LoadsStopInTime == Spec => []StopsInTime
<1>1. LifecycleInv => StopsInTime
  <2> SUFFICES ASSUME LifecycleInv, live PROVE dark <= TIMEOUT + 4
    BY DEF StopsInTime, LifecycleInv
  <2>1. /\ major => dark <= TIMEOUT + 3 + Now
        /\ ~major => dark <= TIMEOUT + 3 + Now \/ dark <= TIMEOUT + 2 + Now
    BY DEF LifecycleInv, Dark
  <2>2. dark \in Nat /\ TIMEOUT \in Nat
    BY Numbers DEF LifecycleInv, TypeOK, DarkMax
  <2> QED BY <2>1, <2>2 DEF Now
<1> QED BY <1>1, LifecycleInvariant, PTL

\* The router stops for a major error only if the mains were missing since the last
\* statistics.  A timeout of one second would be too short: a window may be that
\* late, and the check comes before it is processed.
THEOREM NoFalseMajor ==
  ASSUME TIMEOUT > 1
  PROVE  Spec => NoFalseAlarm
<1>1. LifecycleInv /\ [Next]_vars => [~major /\ major' /\ ~formatted => gap]_vars
  <2> SUFFICES ASSUME LifecycleInv, [Next]_vars, ~major, major', ~formatted, ~gap PROVE FALSE
    OBVIOUS
  <2>1. Check /\ since > TIMEOUT /\ pc = "check"
    <3>1. CASE Check
      BY <3>1 DEF Check
    <3>2. CASE Lose \/ Return \/ Tick \/ Send \/ Stats \/ ServeQuick \/ ServeFormat \/ FormatDone
               \/ Served \/ FatalError \/ WarmedUp \/ NextPass \/ UNCHANGED vars
      BY <3>2 DEF Lose, Return, Tick, Send, Stats, ServeQuick, ServeFormat, FormatDone,
                  Served, FatalError, WarmedUp, NextPass, vars, alarmVars
    <3>3. CASE ServeReset \/ AlarmEnds
      BY <3>3 DEF ServeReset, AlarmEnds, StartPVR
    <3> QED BY <3>1, <3>2, <3>3 DEF Next, LoopStep
  <2>2. live
    BY <2>1 DEF LifecycleInv, Lives
  <2>3. since <= Before + Now
    BY <2>1, <2>2 DEF LifecycleInv, Fed
  <2>4. since \in Nat /\ TIMEOUT \in Nat
    BY Numbers DEF LifecycleInv, TypeOK
  <2> QED BY <2>1, <2>3, <2>4 DEF Before, Now
<1> QED BY <1>1, LifecycleInvariant, PTL DEF NoFalseAlarm, Spec

\* A request that comes while the router is stopped by fatalError is never
\* carried out.
THEOREM AlarmRequestsDropped == Spec => AlarmDropsRequests
<1>1. LifecycleInv /\ [Next]_vars =>
        [pc = "serve" /\ Len(line') < Len(line) => ~Head(line).alarm]_vars
  <2> SUFFICES ASSUME LifecycleInv, pc = "serve", Len(line') < Len(line), Head(line).alarm,
                      [Next]_vars
               PROVE  FALSE
    OBVIOUS
  <2>1. line \in Seq(Entry)
    BY TypeParts DEF LifecycleInv, Line
  <2>2. Len(line) > 0
    <3>1. Line'
      BY <2>1, LineNext, TypeParts DEF LifecycleInv
    <3>2. Len(line') \in Nat /\ Len(line) \in Nat
      BY <2>1, <3>1, LenProperties DEF Line
    <3> QED BY <3>2
  <2>3. 1 \in 1 .. Len(line) /\ line[1].alarm
    BY <2>1, <2>2
  <2>4. Alarms
    BY DEF LifecycleInv
  <2> QED BY <2>3, <2>4 DEF Alarms, InAlarm
<1> QED BY <1>1, LifecycleInvariant, PTL DEF AlarmDropsRequests, Spec
================================================================================
