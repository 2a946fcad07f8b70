------------------------------- MODULE LinkProofs -------------------------------
(***************************************************************************)
(* For every duration, period and queue: once nothing happens any more,    *)
(* setup ends, the two boards agree on BOOST and on the parameters, and no *)
(* BOOST goes on above the limit of temperature.                           *)
(***************************************************************************)
EXTENDS LinkProps, SequenceTheorems, WellFoundedInduction, TLAPS

LEMMA Sizes ==
  /\ DURATION \in Nat /\ DURATION > 0 /\ REPORT \in Nat /\ REPORT > 0
  /\ REFRESH \in Nat /\ REFRESH > 1 /\ REFRESH % 2 = 1 /\ CYCLE = 2 * REFRESH
  /\ BUSY \in Nat /\ BUSY > 0 /\ QUEUE \in Nat /\ QUEUE > 1
  /\ EVENTS \in Nat /\ CALM \in Nat /\ ENDING \in Nat /\ SETUP = 2 + ENDING
  /\ Params \subseteq Nat \ {0}
  BY LinkAssumption DEF CYCLE, SETUP
--------------------------------------------------------------------------------
(* Sequences of messages *)

LEMMA AppendOK ==
  ASSUME NEW S, NEW box \in Seq(S), NEW m \in S
  PROVE  /\ box \o <<m>> \in Seq(S) /\ Len(box \o <<m>>) = Len(box) + 1
         /\ DOMAIN (box \o <<m>>) = 1 .. Len(box) + 1 /\ DOMAIN box = 1 .. Len(box)
         /\ \A k \in 1 .. Len(box) : (box \o <<m>>)[k] = box[k]
         /\ (box \o <<m>>)[Len(box) + 1] = m
         /\ box \o <<m>> # <<>>
         /\ Len(box) \in Nat
  OBVIOUS

LEMMA InAppend ==
  ASSUME NEW S, NEW box \in Seq(S), NEW m \in S, NEW x
  PROVE  In(x, box \o <<m>>) <=> In(x, box) \/ x = m
<1> DEFINE more == box \o <<m>>
<1>1. /\ DOMAIN more = 1 .. Len(box) + 1 /\ DOMAIN box = 1 .. Len(box) /\ Len(box) \in Nat
      /\ \A k \in 1 .. Len(box) : more[k] = box[k]
      /\ more[Len(box) + 1] = m
  BY AppendOK
<1> HIDE DEF more
<1>2. In(x, more) <=> In(x, box) \/ x = m
  BY <1>1 DEF In
<1> QED BY <1>2 DEF more

LEMMA OrderedAppend ==
  ASSUME NEW S, NEW box \in Seq(S), NEW m \in S, Ordered(box),
         m \in {Fresh, Done, Statistics, Over} \cup Reports,
         m = Statistics => \A k \in DOMAIN box : box[k] \in {Fresh, Done},
         m \in Reports => \A k \in DOMAIN box : box[k] \notin Reports \cup {Over},
         m = Over => \A k \in DOMAIN box : box[k] # Over
  PROVE  Ordered(box \o <<m>>)
<1> DEFINE more == box \o <<m>>
<1>1. /\ DOMAIN more = 1 .. Len(box) + 1 /\ DOMAIN box = 1 .. Len(box) /\ Len(box) \in Nat
      /\ \A k \in 1 .. Len(box) : more[k] = box[k]
      /\ more[Len(box) + 1] = m
  BY AppendOK
<1> HIDE DEF more
<1>2. Ordered(more)
  BY <1>1 DEF Ordered
<1> QED BY <1>2 DEF more

\* What is left after the first r messages.
LEMMA RestOK ==
  ASSUME NEW S, NEW box \in Seq(S), NEW r \in 1 .. Len(box)
  PROVE  LET rest == SubSeq(box, r + 1, Len(box)) IN
           /\ rest \in Seq(S) /\ Len(rest) = Len(box) - r
           /\ DOMAIN rest = 1 .. Len(box) - r
           /\ \A k \in 1 .. Len(box) - r : rest[k] = box[k + r]
<1>1. /\ Len(box) \in Nat /\ DOMAIN box = 1 .. Len(box)
      /\ \A k \in 1 .. Len(box) : box[k] \in S
  OBVIOUS
<1>2. \A k \in r + 1 .. Len(box) : box[k] \in S
  BY <1>1
<1> DEFINE rest == SubSeq(box, r + 1, Len(box))
<1>0. r \in Nat /\ r <= Len(box) /\ r + 1 \in Int /\ Len(box) - (r + 1) + 1 = Len(box) - r
  BY <1>1
<1>3. /\ rest \in Seq(S) /\ Len(rest) = IF r + 1 <= Len(box) THEN Len(box) - (r + 1) + 1 ELSE 0
      /\ \A k \in 1 .. Len(box) - (r + 1) + 1 : rest[k] = box[(r + 1) + k - 1]
  BY <1>0, <1>1, <1>2, SubSeqProperties
<1> HIDE DEF rest
<1>4. rest \in Seq(S) /\ Len(rest) = Len(box) - r
  <2>1. CASE r = Len(box)
    BY <1>0, <1>1, <1>3, <2>1
  <2>2. CASE r # Len(box)
    <3>1. \A a, b \in Nat : a <= b /\ a # b => a + 1 <= b
      OBVIOUS
    <3>2. r + 1 <= Len(box)
      BY <1>0, <1>1, <2>2, <3>1, Zenon
    <3> QED BY <1>0, <1>3, <3>2
  <2> QED BY <2>1, <2>2
<1>5. DOMAIN rest = 1 .. Len(box) - r
  BY <1>4
<1>6. \A k \in 1 .. Len(box) - r : rest[k] = box[k + r]
  <2> SUFFICES ASSUME NEW k \in 1 .. Len(box) - r PROVE rest[k] = box[k + r]
    OBVIOUS
  <2>1. rest[k] = box[(r + 1) + k - 1]
    BY <1>0, <1>3
  <2>2. (r + 1) + k - 1 = k + r
    BY <1>0, <1>1
  <2> QED BY <2>1, <2>2
<1> QED BY <1>4, <1>5, <1>6 DEF rest

LEMMA SomeLen ==
  ASSUME toEsp \in Seq(MessageTypes), toEsp # <<>>
  PROVE  /\ ReadLen \in 1 .. Len(toEsp)
         /\ toEsp[1].hash => ReadLen = 1
         /\ Len(toEsp) > 1 /\ ~toEsp[1].hash /\ toEsp[2].hash => ReadLen = 2
         /\ Len(toEsp) = 1 => ReadLen = 1
<1>1. /\ Len(toEsp) \in Nat /\ Len(toEsp) > 0 /\ DOMAIN toEsp = 1 .. Len(toEsp)
  OBVIOUS
<1>2. CASE Ends = {}
  BY <1>1, <1>2 DEF ReadLen, Ends
<1>3. CASE Ends # {}
  <2>1. Ends \subseteq Nat /\ Ends \subseteq 1 .. Len(toEsp)
    BY <1>1 DEF Ends
  <2>2. \E k \in Ends : \A j \in Ends : ~ (<<j, k>> \in OpToRel(<, Nat))
    BY <1>3, <2>1, NatLessThanWellFounded, WFMin
  <2>3. \E k \in Ends : \A j \in Ends : k <= j
    <3>1. PICK k \in Ends : \A j \in Ends : ~ (<<j, k>> \in OpToRel(<, Nat))
      BY <2>2
    <3>2. ASSUME NEW j \in Ends PROVE k <= j
      <4>1. ~ (<<j, k>> \in {ss \in Nat \X Nat : ss[1] < ss[2]})
        BY <3>1 DEF OpToRel
      <4>2. j \in Nat /\ k \in Nat
        BY <2>1
      <4>3. ~ (j < k)
        BY <4>1, <4>2
      <4> QED BY <4>2, <4>3
    <3> QED BY <3>2
  <2>4. ReadLen \in Ends /\ \A j \in Ends : ReadLen <= j
    BY <1>3, <2>3 DEF ReadLen
  <2>5. toEsp[1].hash => 1 \in Ends
    BY <1>1 DEF Ends
  <2>6. Len(toEsp) > 1 /\ ~toEsp[1].hash /\ toEsp[2].hash => 2 \in Ends /\ 1 \notin Ends
    BY <1>1 DEF Ends
  <2>7. ReadLen \in 1 .. Len(toEsp)
    BY <2>1, <2>4
  <2>8. toEsp[1].hash => ReadLen = 1
    BY <1>1, <2>4, <2>5, <2>7
  <2>9. Len(toEsp) > 1 /\ ~toEsp[1].hash /\ toEsp[2].hash => ReadLen = 2
    <3> SUFFICES ASSUME Len(toEsp) > 1, ~toEsp[1].hash, toEsp[2].hash PROVE ReadLen = 2
      OBVIOUS
    <3>1. 2 \in Ends /\ 1 \notin Ends
      BY <2>6
    <3>2. ReadLen <= 2 /\ ReadLen # 1
      BY <2>4, <3>1
    <3> QED BY <1>1, <2>7, <3>2
  <2> QED BY <1>1, <2>7, <2>8, <2>9
<1> QED BY <1>2, <1>3

LEMMA ConcatOK ==
  ASSUME NEW S, NEW box \in Seq(S), NEW more \in Seq(S)
  PROVE  /\ box \o more \in Seq(S) /\ Len(box \o more) = Len(box) + Len(more)
         /\ Len(box) \in Nat /\ Len(more) \in Nat
         /\ more # <<>> => box \o more # <<>>
         /\ more = <<>> => box \o more = box
         /\ \A x : In(x, box \o more) <=> In(x, box) \/ In(x, more)
<1> DEFINE both == box \o more
<1>1. /\ both \in Seq(S) /\ Len(both) = Len(box) + Len(more)
      /\ Len(box) \in Nat /\ Len(more) \in Nat
      /\ DOMAIN box = 1 .. Len(box) /\ DOMAIN more = 1 .. Len(more)
      /\ DOMAIN both = 1 .. Len(box) + Len(more)
  OBVIOUS
<1>2. /\ \A k \in 1 .. Len(box) : both[k] = box[k]
      /\ \A k \in 1 .. Len(more) : both[Len(box) + k] = more[k]
  OBVIOUS
<1>3. more # <<>> => Len(more) > 0
  OBVIOUS
<1>4. more = <<>> => both = box
  OBVIOUS
<1> HIDE DEF both
<1>5. more # <<>> => both # <<>>
  <2>1. both = <<>> => Len(both) = 0
    OBVIOUS
  <2> QED BY <1>1, <1>3, <2>1
<1>6. ASSUME NEW x PROVE In(x, both) <=> In(x, box) \/ In(x, more)
  <2>1. ASSUME In(x, box) PROVE In(x, both)
    BY <1>1, <1>2, <2>1 DEF In
  <2>2. ASSUME In(x, more) PROVE In(x, both)
    <3>1. PICK k \in 1 .. Len(more) : more[k] = x
      BY <1>1, <2>2 DEF In
    <3>2. Len(box) + k \in 1 .. Len(box) + Len(more)
      BY <1>1
    <3> QED BY <1>1, <1>2, <3>1, <3>2 DEF In
  <2>3. ASSUME In(x, both), ~In(x, box) PROVE In(x, more)
    <3>1. PICK k \in 1 .. Len(box) + Len(more) : both[k] = x
      BY <1>1, <2>3 DEF In
    <3>2. k \notin 1 .. Len(box)
      BY <1>1, <1>2, <2>3, <3>1 DEF In
    <3>3. k - Len(box) \in 1 .. Len(more) /\ Len(box) + (k - Len(box)) = k
      BY <1>1, <3>2
    <3>4. both[k] = more[k - Len(box)]
      BY <1>2, <3>3
    <3> QED BY <1>1, <3>1, <3>3, <3>4 DEF In
  <2> QED BY <2>1, <2>2, <2>3
<1> QED BY <1>1, <1>4, <1>5, <1>6 DEF both

LEMMA OneOK ==
  ASSUME NEW S, NEW m \in S
  PROVE  /\ <<m>> \in Seq(S) /\ <<m>> # <<>> /\ Len(<<m>>) = 1
         /\ \A x : In(x, <<m>>) <=> x = m
         /\ <<>> \in Seq(S) /\ \A x : ~In(x, <<>>)
         /\ <<m>> \o <<>> = <<m>> /\ <<>> \o <<m>> = <<m>>
<1>1. /\ <<m>> \in Seq(S) /\ <<m>> # <<>> /\ <<>> \in Seq(S) /\ Len(<<m>>) = 1
      /\ <<m>> \o <<>> = <<m>> /\ <<>> \o <<m>> = <<m>>
  OBVIOUS
<1>2. DOMAIN <<m>> = {1} /\ <<m>>[1] = m /\ DOMAIN <<>> = {}
  OBVIOUS
<1> QED BY <1>1, <1>2 DEF In

\* The requests that have room.
LEMMA SentOK ==
  ASSUME toNano \in Seq(RequestTypes), Len(toNano) <= QUEUE,
         NEW more \in Seq(RequestTypes), Len(more) <= 2
  PROVE  /\ Sent(more) \in Seq(RequestTypes) /\ Len(Sent(more)) <= QUEUE
         /\ more # <<>> => Sent(more) # <<>>
         /\ more = <<>> => Sent(more) = toNano
         /\ \A x : In(x, Sent(more)) => In(x, toNano) \/ In(x, more)
         /\ \A x : In(x, toNano) => In(x, Sent(more))
         /\ Len(toNano) + Len(more) <= QUEUE =>
              /\ Len(Sent(more)) = Len(toNano) + Len(more)
              /\ \A x : In(x, more) => In(x, Sent(more))
<1> DEFINE both == toNano \o more
<1>1. /\ both \in Seq(RequestTypes) /\ Len(both) = Len(toNano) + Len(more)
      /\ Len(toNano) \in Nat /\ Len(more) \in Nat
      /\ more # <<>> => both # <<>>
      /\ more = <<>> => both = toNano
      /\ \A x : In(x, both) <=> In(x, toNano) \/ In(x, more)
  BY ConcatOK
<1>2. /\ more = <<>> => Len(more) = 0
      /\ more # <<>> => Len(more) > 0
      /\ toNano = <<>> => Len(toNano) = 0
  OBVIOUS
<1>3. Sent(more) = IF Len(toNano) + Len(more) <= QUEUE THEN both ELSE toNano
  BY DEF Sent
<1> HIDE DEF both
<1>4. CASE Len(toNano) + Len(more) <= QUEUE
  BY <1>1, <1>2, <1>3, <1>4, Sizes
<1>5. CASE ~(Len(toNano) + Len(more) <= QUEUE)
  <2>1. Sent(more) = toNano /\ more # <<>>
    BY <1>1, <1>2, <1>3, <1>5
  <2>2. ASSUME toNano = <<>> PROVE FALSE
    BY <1>1, <1>2, <1>5, <2>2, Sizes
  <2> QED BY <2>1, <2>2, <1>5
<1> QED BY <1>4, <1>5
--------------------------------------------------------------------------------
(* Types, and the counter of the seconds *)

LEMMA InvInit == Init => LinkInv
<1> SUFFICES ASSUME Init PROVE LinkInv
  OBVIOUS
<1>1. <<>> \in Seq(RequestTypes) /\ <<>> \in Seq(MessageTypes) /\ Len(toNano) = 0
  BY DEF Init
<1>2. TypeOK /\ Counting
  BY <1>1, Sizes DEF Init, TypeOK, Counting, Booting, Unknown, Loop, Served
<1>3. ~(calm > 0) /\ ~(calm > SETUP)
  BY Sizes DEF Init
<1> QED BY <1>2, <1>3 DEF LinkInv

\* The kinds of messages.
LEMMA MessagesOK ==
  /\ \A t \in {-1, 0, 1} : [kind |-> "STATS", arg |-> t, hash |-> TRUE] \in MessageTypes
  /\ \A p \in Params : [kind |-> "PARAM", arg |-> p, hash |-> TRUE] \in MessageTypes
  /\ \A b \in -1 .. DURATION : Report(b) \in MessageTypes
  /\ Over \in MessageTypes /\ Done \in MessageTypes
  /\ [kind |-> "RELAYPLUSTIME", arg |-> -1, hash |-> FALSE] \in MessageTypes
<1>1. /\ \A t \in {-1, 0, 1} : [kind |-> "STATS", arg |-> t, hash |-> TRUE] \in MessageTypes
      /\ \A p \in Params : [kind |-> "PARAM", arg |-> p, hash |-> TRUE] \in MessageTypes
  BY DEF MessageTypes
<1>2. \A b \in -1 .. DURATION : Report(b) \in MessageTypes
  BY DEF MessageTypes, Report
<1>3. /\ Done \in MessageTypes
      /\ [kind |-> "RELAYPLUSTIME", arg |-> -1, hash |-> FALSE] \in MessageTypes
  BY DEF MessageTypes, Done
<1>4. Over \in MessageTypes
  <2>1. -1 \in -1 .. DURATION
    BY Sizes
  <2> QED BY <2>1 DEF MessageTypes, Over
<1> QED BY <1>1, <1>2, <1>3, <1>4

LEMMA ArgumentsOK ==
  ASSUME NEW m \in MessageTypes
  PROVE  /\ m.kind = "STATS" => m.arg \in {-1, 0, 1}
         /\ m.kind = "PARAM" => m.arg \in Params
         /\ m.kind = "BOOSTTIME" => m.arg \in -1 .. DURATION
  BY DEF MessageTypes

LEMMA RequestsOK ==
  /\ \A cmd \in {"PARAM", "VERSION", "SETSSR", "LOADCFG", "RESET", "FORMAT", "SAVECFG",
                 "damaged", "SETBOOST"} : Request(cmd, 0) \in RequestTypes
  /\ Request("SETBOOST", DURATION) \in RequestTypes
  /\ \A p \in Params : Request("SETPARAM", p) \in RequestTypes
  /\ \A r \in RequestTypes : /\ r.cmd = "SETBOOST" => r.arg \in {0, DURATION}
                             /\ r.cmd = "SETPARAM" => r.arg \in Params
  BY DEF RequestTypes, Request

LEMMA AnswerOK ==
  ASSUME TypeOK, NEW request \in RequestTypes
  PROVE  Answer(request) \in Seq(MessageTypes)
<1> USE DEF TypeOK
<1>1. nano.param \in Params
  OBVIOUS
<1>2. [kind |-> "PARAM", arg |-> nano.param, hash |-> TRUE] \in MessageTypes
  BY <1>1, MessagesOK
<1>3. Ended("PARAM", nano.param) \in Seq(MessageTypes)
  BY <1>2, OneOK DEF Ended
<1>4. Ended("DONE", 0) \in Seq(MessageTypes) /\ Unended("BOOSTTIME", -1) \in Seq(MessageTypes)
  BY MessagesOK, OneOK DEF Ended, Unended, Done, Over
<1>5. Unended("BOOSTTIME", -1) \o Ended("DONE", 0) \in Seq(MessageTypes)
  BY <1>4, ConcatOK
<1> QED BY <1>3, <1>4, <1>5 DEF Answer

LEMMA Remainder ==
  ASSUME NEW n \in Nat, NEW d \in Nat, d > 0
  PROVE  n % d \in 0 .. d - 1
OBVIOUS

LEMMA NanoSecondTypes ==
  ASSUME TypeOK, Counting, NanoSecond
  PROVE  TypeOK' /\ Counting'
<1> USE Sizes
<1>1. PICK relayplusEnds \in BOOLEAN :
        /\ IF relayplusEnds THEN Event ELSE NoEvent
        /\ toEsp' = toEsp \o Ended("STATS", temperature) \o Reported(nano.second)
                      \o (IF nano.boost = 0 THEN Unended("BOOSTTIME", -1) ELSE <<>>)
                      \o (IF relayplusEnds THEN Unended("RELAYPLUSTIME", -1) ELSE <<>>)
  BY DEF NanoSecond
<1>2. /\ Ended("STATS", temperature) \in Seq(MessageTypes)
      /\ Reported(nano.second) \in Seq(MessageTypes)
      /\ (IF nano.boost = 0 THEN Unended("BOOSTTIME", -1) ELSE <<>>) \in Seq(MessageTypes)
      /\ (IF relayplusEnds THEN Unended("RELAYPLUSTIME", -1) ELSE <<>>) \in Seq(MessageTypes)
  BY MessagesOK, OneOK DEF TypeOK, Ended, Unended, Reported, Over, Report
<1>3. toEsp' \in Seq(MessageTypes)
  BY <1>1, <1>2, ConcatOK DEF TypeOK
<1>4. events' \in 0 .. EVENTS /\ calm' \in 0 .. CALM
  <2>1. CASE Event
    BY <2>1 DEF Event, TypeOK
  <2>2. CASE NoEvent
    BY <2>2 DEF NoEvent, TypeOK
  <2> QED BY <1>1, <2>1, <2>2
<1>5. (nano.second + 1) % REPORT \in 0 .. REPORT - 1 /\ CountedDown(nano.boost) \in -1 .. DURATION
  <2>1. nano.second + 1 \in Nat /\ nano.boost \in -1 .. DURATION
    BY DEF TypeOK
  <2>2. (nano.second + 1) % REPORT \in 0 .. REPORT - 1
    BY <2>1, Remainder
  <2>3. CountedDown(nano.boost) \in -1 .. DURATION
    BY <2>1 DEF CountedDown
  <2> QED BY <2>2, <2>3
<1>6. nano' \in [boost : -1 .. DURATION, param : Params, second : 0 .. REPORT - 1]
  BY <1>5 DEF TypeOK, NanoSecond
<1> QED BY <1>3, <1>4, <1>6 DEF NanoSecond, TypeOK, Counting, Loop, Served

LEMMA SerialRequestTypes ==
  ASSUME TypeOK, Counting, serialRequest
  PROVE  TypeOK' /\ Counting'
<1> USE Sizes
<1> DEFINE request == Head(toNano)
<1>0. /\ toNano # <<>> /\ toNano' = Tail(toNano) /\ toEsp' = toEsp \o Answer(request)
      /\ task' = IF request.cmd \in {"RESET", "FORMAT"}
                   THEN [what |-> request.cmd, left |-> BUSY] ELSE task
      /\ UNCHANGED <<temperature, pc, ending, esp, setting, due, events, calm>>
  BY DEF serialRequest, NoEvent
<1>01. /\ request \in RequestTypes /\ Tail(toNano) \in Seq(RequestTypes)
       /\ Len(Tail(toNano)) = Len(toNano) - 1
  BY <1>0, HeadTailProperties DEF TypeOK
<1>1. request \in RequestTypes /\ Tail(toNano) \in Seq(RequestTypes) /\ Len(Tail(toNano)) <= QUEUE
  BY <1>01 DEF TypeOK
<1> HIDE DEF request
<1>2. Answer(request) \in Seq(MessageTypes)
  BY <1>1, AnswerOK
<1>3. toEsp' \in Seq(MessageTypes)
  BY <1>0, <1>2, ConcatOK DEF TypeOK
<1>4. task' \in [what : {"none", "RESET", "FORMAT", "restarted"}, left : 0 .. BUSY]
  BY <1>0 DEF TypeOK
<1>5. request.cmd = "SETBOOST" => Boosted(request.arg) \in -1 .. DURATION
  BY <1>1, RequestsOK DEF Boosted, TypeOK
<1>6. request.cmd = "SETPARAM" => request.arg \in Params
  BY <1>1, RequestsOK
<1>7. nano' \in [boost : -1 .. DURATION, param : Params, second : 0 .. REPORT - 1]
  <2>1. \/ request.cmd = "SETBOOST" /\ nano' = [nano EXCEPT !.boost = Boosted(request.arg)]
        \/ request.cmd = "SETSSR" /\ nano' = [nano EXCEPT !.boost = -1]
        \/ request.cmd = "SETPARAM" /\ nano' = [nano EXCEPT !.param = request.arg]
        \/ \E p \in Params : nano' = [nano EXCEPT !.param = p]
        \/ nano' = nano
    BY DEF serialRequest, request
  <2>2. CASE request.cmd = "SETBOOST" /\ nano' = [nano EXCEPT !.boost = Boosted(request.arg)]
    BY <1>5, <2>2 DEF TypeOK
  <2>3. CASE nano' = [nano EXCEPT !.boost = -1]
    <3>1. -1 \in -1 .. DURATION
      OBVIOUS
    <3> QED BY <2>3, <3>1 DEF TypeOK
  <2>4. ASSUME NEW p \in Params, nano' = [nano EXCEPT !.param = p]
        PROVE  nano' \in [boost : -1 .. DURATION, param : Params, second : 0 .. REPORT - 1]
    BY <2>4 DEF TypeOK
  <2>5. CASE nano' = nano
    BY <2>5 DEF TypeOK
  <2> QED BY <1>6, <2>1, <2>2, <2>3, <2>4, <2>5
<1> QED BY <1>0, <1>1, <1>3, <1>4, <1>7 DEF TypeOK, Counting, Loop, Served

LEMMA OtherNanoTypes ==
  ASSUME TypeOK, Counting, TaskEnds \/ ClearInput \/ NanoStarts
  PROVE  TypeOK' /\ Counting'
<1> USE Sizes
<1>1. CASE TaskEnds
  <2>1. Ended("DONE", 0) \in Seq(MessageTypes)
    BY MessagesOK, OneOK DEF Ended, Done
  <2>2. toEsp' \in Seq(MessageTypes)
    BY <1>1, <2>1, ConcatOK DEF TypeOK, TaskEnds
  <2> QED BY <1>1, <2>2 DEF TaskEnds, TypeOK, Counting, Loop, Served, NoEvent
<1>2. CASE ClearInput
  <2>1. toNano' \in Seq(RequestTypes) /\ Len(toNano') = 0
    BY <1>2 DEF ClearInput
  <2> QED BY <1>2, <2>1 DEF ClearInput, TypeOK, Counting, Loop, Served, NoEvent
<1>3. CASE NanoStarts
  BY <1>3 DEF NanoStarts, TypeOK, Counting, Loop, Served, Event
<1> QED BY <1>1, <1>2, <1>3

\* What serialProcess makes of the messages, in setup and in the loop.
LEMMA PhaseOK ==
  ASSUME NEW message, NEW phase \in {"contact", "param", "version", "stats"}
  PROVE  NextPhase(phase, message) = CASE phase = "contact" -> "param"
                                       [] phase = "param" -> "version"
                                       [] phase = "version" -> "stats"
                                       [] phase = "stats" -> "ending"
<1>1. /\ Phases[1] = "contact" /\ Phases[2] = "param" /\ Phases[3] = "version"
      /\ Phases[4] = "stats" /\ Phases[5] = "ending"
  BY DEF Phases
<1>2. ASSUME NEW n \in 1 .. 4, Phases[n] = phase
      PROVE  (CHOOSE k \in 1 .. 4 : Phases[k] = phase) = n
  <2>1. \A k \in 1 .. 4 : Phases[k] = phase => k = n
    BY <1>1, <1>2
  <2> QED BY <1>2, <2>1
<1>3. CASE phase = "contact"
  BY <1>1, <1>2, <1>3 DEF NextPhase
<1>4. CASE phase = "param"
  BY <1>1, <1>2, <1>4 DEF NextPhase
<1>5. CASE phase = "version"
  BY <1>1, <1>2, <1>5 DEF NextPhase
<1>6. CASE phase = "stats"
  BY <1>1, <1>2, <1>6 DEF NextPhase
<1> QED BY <1>3, <1>4, <1>5, <1>6

LEMMA ReceivedOK ==
  ASSUME TypeOK, serialProcess
  PROVE  LET message == toEsp[1] IN
           /\ message \in MessageTypes /\ toEsp # <<>> /\ pc # "boot"
           /\ esp' = [esp EXCEPT
                        !.temp = IF message.kind = "STATS" THEN message.arg ELSE @,
                        !.param = IF message.kind = "PARAM" THEN message.arg ELSE @,
                        !.boost = IF TooHot(message) THEN -1
                                  ELSE IF message.kind = "BOOSTTIME" THEN message.arg ELSE @]
           /\ UNCHANGED <<nano, task, temperature, setting, due, events, calm>>
           /\ pc # "ending" /\ Takes(pc')
           /\ Loop => /\ pc' = pc
                      /\ toNano' = Sent(IF TooHot(message) THEN <<OFF>> ELSE <<>>)
                      /\ toEsp' = SubSeq(toEsp, ReadLen + 1, Len(toEsp))
           /\ ~Loop => /\ pc \in {"contact", "param", "version", "stats"}
                       /\ pc' = NextPhase(pc, message) /\ pc' # pc
                       /\ toNano' = Sent((IF TooHot(message) THEN <<OFF>> ELSE <<>>) \o Asks(pc'))
                       /\ toEsp' = <<>>
<1> DEFINE message == toEsp[1]
           off == IF TooHot(message) THEN <<OFF>> ELSE <<>>
<1>1. /\ toEsp # <<>> /\ pc # "boot" /\ pc # "ending" /\ Takes(pc')
      /\ esp' = [Received(message) EXCEPT !.boost = IF TooHot(message) THEN -1 ELSE @]
      /\ pc' = IF Loop THEN pc ELSE NextPhase(pc, message)
      /\ toNano' = Sent(off \o IF pc' = pc THEN <<>> ELSE Asks(pc'))
      /\ toEsp' = IF pc' = pc THEN SubSeq(toEsp, ReadLen + 1, Len(toEsp)) ELSE <<>>
      /\ UNCHANGED <<nano, task, temperature, setting, due, events, calm>>
  BY DEF serialProcess, NoEvent, OFF
<1>2. message \in MessageTypes
  BY <1>1 DEF TypeOK
<1>3. esp' = [esp EXCEPT
                !.temp = IF message.kind = "STATS" THEN message.arg ELSE @,
                !.param = IF message.kind = "PARAM" THEN message.arg ELSE @,
                !.boost = IF TooHot(message) THEN -1
                          ELSE IF message.kind = "BOOSTTIME" THEN message.arg ELSE @]
  BY <1>1 DEF Received, TypeOK
<1>4. off \o <<>> = off
  BY DEF OFF
<1> HIDE DEF message, off
<1>5. ASSUME ~Loop
      PROVE  /\ pc \in {"contact", "param", "version", "stats"}
             /\ pc' = NextPhase(pc, message) /\ pc' # pc
  <2>1. pc \in {"contact", "param", "version", "stats"}
    BY <1>1, <1>5 DEF TypeOK, Loop
  <2> QED BY <1>1, <1>5, <2>1, PhaseOK
<1>6. Loop => pc' = pc
  BY <1>1
<1> QED BY <1>1, <1>2, <1>3, <1>4, <1>5, <1>6 DEF message, off

LEMMA SerialProcessTypes ==
  ASSUME TypeOK, Counting, serialProcess
  PROVE  TypeOK' /\ Counting'
<1> USE Sizes
<1> DEFINE message == toEsp[1]
           off == IF TooHot(message) THEN <<OFF>> ELSE <<>>
<1>0. /\ message \in MessageTypes /\ toEsp # <<>> /\ pc # "boot"
      /\ esp' = [esp EXCEPT
                   !.temp = IF message.kind = "STATS" THEN message.arg ELSE @,
                   !.param = IF message.kind = "PARAM" THEN message.arg ELSE @,
                   !.boost = IF TooHot(message) THEN -1
                             ELSE IF message.kind = "BOOSTTIME" THEN message.arg ELSE @]
      /\ UNCHANGED <<nano, task, temperature, setting, due, events, calm>>
      /\ pc # "ending" /\ Takes(pc')
      /\ Loop => /\ pc' = pc
                 /\ toNano' = Sent(off)
                 /\ toEsp' = SubSeq(toEsp, ReadLen + 1, Len(toEsp))
      /\ ~Loop => /\ pc \in {"contact", "param", "version", "stats"}
                  /\ pc' = NextPhase(pc, message)
                  /\ toNano' = Sent(off \o Asks(pc'))
                  /\ toEsp' = <<>>
  <2>1. esp'.counter = esp.counter /\ esp'.read = esp.read
    <3>1. esp \in [boost : -1 .. DURATION, temp : {-1, 0, 1}, param : Params \cup {Unknown},
                   read : BOOLEAN, counter : 0 .. 2 * REFRESH - 1]
      BY DEF TypeOK
    <3> QED BY <3>1, ReceivedOK
  <2> QED BY <2>1, ReceivedOK
<1>1. off \in Seq(RequestTypes) /\ Len(off) <= 1
  BY RequestsOK, OneOK DEF OFF
<1>2. Asks(pc') \in Seq(RequestTypes) /\ Len(Asks(pc')) <= 1
  BY RequestsOK, OneOK DEF Asks
<1> HIDE DEF message, off
<1>3. off \o Asks(pc') \in Seq(RequestTypes) /\ Len(off \o Asks(pc')) <= 2
  BY <1>1, <1>2, ConcatOK
<1>4. toNano' \in Seq(RequestTypes) /\ Len(toNano') <= QUEUE
  <2>0. toNano \in Seq(RequestTypes) /\ Len(toNano) <= QUEUE /\ Len(off) <= 2
    BY <1>1, ConcatOK DEF TypeOK
  <2>1. CASE Loop
    BY <1>0, <1>1, <2>0, <2>1, SentOK
  <2>2. CASE ~Loop
    BY <1>0, <1>3, <2>0, <2>2, SentOK
  <2> QED BY <2>1, <2>2
<1>5. toEsp' \in Seq(MessageTypes)
  <2>1. CASE Loop
    <3>1. toEsp \in Seq(MessageTypes) /\ ReadLen \in 1 .. Len(toEsp)
      BY <1>0, SomeLen DEF TypeOK
    <3>2. SubSeq(toEsp, ReadLen + 1, Len(toEsp)) \in Seq(MessageTypes)
      BY <3>1, RestOK
    <3> QED BY <1>0, <2>1, <3>2
  <2>2. CASE ~Loop
    BY <1>0, <2>2
  <2> QED BY <2>1, <2>2
<1>6. /\ esp' \in [boost : -1 .. DURATION, temp : {-1, 0, 1}, param : Params \cup {Unknown},
                   read : BOOLEAN, counter : 0 .. 2 * REFRESH - 1]
      /\ esp'.counter = esp.counter /\ esp'.read = esp.read
  <2>1. /\ message.kind = "STATS" => message.arg \in {-1, 0, 1}
        /\ message.kind = "PARAM" => message.arg \in Params
        /\ message.kind = "BOOSTTIME" => message.arg \in -1 .. DURATION
        /\ -1 \in -1 .. DURATION
    BY <1>0, ArgumentsOK, Sizes
  <2>2. esp \in [boost : -1 .. DURATION, temp : {-1, 0, 1}, param : Params \cup {Unknown},
                 read : BOOLEAN, counter : 0 .. 2 * REFRESH - 1]
    BY DEF TypeOK
  <2> QED BY <1>0, <2>1, <2>2
<1>7. /\ pc' \in {"contact", "param", "version", "stats", "ending", "loop"}
      /\ (Loop => pc' = pc) /\ (~Loop => ~Served)
      /\ ending' \in 0 .. ENDING /\ (pc' # "ending" => ending' = 0)
  <2>1. CASE Loop
    <3>1. pc' = "loop" /\ ending' = ending /\ ending = 0
      BY <1>0, <2>1 DEF Loop, Takes, TypeOK
    <3> QED BY <2>1, <3>1 DEF Loop
  <2>2. CASE ~Loop
    <3>1. pc' \in {"param", "version", "stats", "ending"}
      BY <1>0, <2>2, PhaseOK
    <3>2. pc \in {"contact", "param", "version", "stats"} /\ ending = 0
      BY <1>0, <2>2 DEF TypeOK
    <3> QED BY <1>0, <2>2, <3>1, <3>2 DEF Takes, Served
  <2> QED BY <2>1, <2>2
<1>8. TypeOK'
  BY <1>0, <1>4, <1>5, <1>6, <1>7 DEF TypeOK
<1> QED BY <1>6, <1>7, <1>8 DEF Counting, Loop, Served

LEMMA Wraps ==
  ASSUME NEW n \in Nat \ {0}, NEW x \in 0 .. n - 1
  PROVE  (x + 1) % n = IF x = n - 1 THEN 0 ELSE x + 1
<1>1. CASE x = n - 1
  <2>1. x + 1 = n /\ n % n = 0
    BY <1>1
  <2> QED BY <1>1, <2>1
<1>2. CASE x # n - 1
  <2>1. x + 1 \in 0 .. n - 1
    BY <1>2
  <2>2. \A y \in 0 .. n - 1 : y % n = y
    OBVIOUS
  <2> QED BY <1>2, <2>1, <2>2
<1> QED BY <1>1, <1>2

\* The counter of the seconds.
LEMMA CycleOK ==
  ASSUME NEW c \in 0 .. CYCLE - 1
  PROVE  /\ (c + 1) % (2 * REFRESH) = IF c = CYCLE - 1 THEN 0 ELSE c + 1
         /\ AsksAgain(c) <=> c = 1 \/ c = REFRESH + 1
<1> USE Sizes
<1>1. ASSUME NEW n \in Nat \ {0}, NEW x \in 0 .. n - 1 PROVE x % n = x
  BY <1>1
<1>2. ASSUME NEW n \in Nat \ {0}, NEW x \in 0 .. n - 1 PROVE (x + n) % n = x
  BY <1>2
<1>3. (c + 1) % CYCLE = IF c = CYCLE - 1 THEN 0 ELSE c + 1
  BY Wraps
<1>5. c % REFRESH = 1 <=> c = 1 \/ c = REFRESH + 1
  <2>1. CASE c < REFRESH
    <3>1. c \in 0 .. REFRESH - 1
      BY <2>1
    <3>2. c % REFRESH = c
      BY <1>1, <3>1
    <3> QED BY <2>1, <3>2
  <2>2. CASE c >= REFRESH
    <3>1. c - REFRESH \in 0 .. REFRESH - 1
      BY <2>2
    <3>2. ((c - REFRESH) + REFRESH) % REFRESH = c - REFRESH
      BY <1>2, <3>1
    <3>3. (c - REFRESH) + REFRESH = c
      OBVIOUS
    <3> QED BY <2>2, <3>2, <3>3
  <2> QED BY <2>1, <2>2
<1> QED BY <1>3, <1>5 DEF AsksAgain, CYCLE

LEMMA ParityOK ==
  /\ \A c \in Nat : c % 2 \in {0, 1} /\ (c + 1) % 2 = 1 - (c % 2)
  /\ 0 % 2 = 0 /\ 1 % 2 = 1 /\ 2 % 2 = 0
  /\ REFRESH % 2 = 1 /\ (REFRESH + 1) % 2 = 0 /\ (2 * REFRESH) % 2 = 0 /\ (2 * REFRESH - 1) % 2 = 1
  BY Sizes

LEMMA EachSecondTypes ==
  ASSUME TypeOK, Counting, eachSecondTasks
  PROVE  TypeOK' /\ Counting'
<1> USE Sizes
<1> DEFINE counter == (esp.counter + 1) % (2 * REFRESH)
           reads == counter % 2 = 0 /\ esp.read
<1>1. /\ Loop /\ due' = due \ {"esp"}
      /\ toNano' = IF reads THEN Sent(<<Request("PARAM", 0)>>) ELSE toNano
      /\ esp' = [esp EXCEPT !.counter = counter, !.read = (@ /\ ~reads) \/ AsksAgain(counter)]
      /\ UNCHANGED <<nano, task, temperature, toEsp, pc, ending, setting, events, calm>>
  BY DEF eachSecondTasks, NoEvent
<1>2. counter = IF esp.counter = CYCLE - 1 THEN 0 ELSE esp.counter + 1
  BY CycleOK DEF TypeOK
<1>3. counter \in 0 .. 2 * REFRESH - 1 /\ counter \in 0 .. CYCLE - 1
  <2>1. esp.counter \in 0 .. CYCLE - 1
    BY DEF TypeOK
  <2> HIDE DEF counter
  <2> QED BY <1>2, <2>1
<1> HIDE DEF counter
<1>4. counter \in {1, REFRESH + 1} => AsksAgain(counter)
  BY <1>3, CycleOK
<1>5. ((esp.read /\ ~reads) \/ AsksAgain(counter)) \in BOOLEAN
  BY Zenon
<1>6. toNano' \in Seq(RequestTypes) /\ Len(toNano') <= QUEUE
  <2>1. <<Request("PARAM", 0)>> \in Seq(RequestTypes) /\ Len(<<Request("PARAM", 0)>>) <= 2
    BY RequestsOK, OneOK
  <2> QED BY <1>1, <2>1, SentOK DEF TypeOK
<1> HIDE DEF reads
<1>7. esp' \in [boost : -1 .. DURATION, temp : {-1, 0, 1}, param : Params \cup {Unknown},
                read : BOOLEAN, counter : 0 .. 2 * REFRESH - 1]
  BY <1>1, <1>3 DEF TypeOK
<1>8. TypeOK'
  BY <1>1, <1>6, <1>7 DEF TypeOK
<1>9. esp'.counter = counter /\ (AsksAgain(counter) => esp'.read) /\ pc' = "loop"
  BY <1>1 DEF TypeOK, Loop
<1> QED BY <1>4, <1>8, <1>9 DEF Counting, Loop, Served

LEMMA EventOK ==
  ASSUME TypeOK, Event
  PROVE  events' \in 0 .. EVENTS /\ calm' = 0 /\ calm' \in 0 .. CALM
  BY Sizes DEF TypeOK, Event

LEMMA BoostModeOK ==
  ASSUME TypeOK, NEW time \in {0, DURATION}, NEW knows \in -1 .. DURATION,
         boostModeEcoPV(time, knows)
  PROVE  /\ toNano' \in Seq(RequestTypes) /\ Len(toNano') <= QUEUE
         /\ esp' \in [boost : -1 .. DURATION, temp : {-1, 0, 1}, param : Params \cup {Unknown},
                      read : BOOLEAN, counter : 0 .. 2 * REFRESH - 1]
         /\ esp'.counter = esp.counter /\ esp'.read = esp.read
<1>1. Request("SETBOOST", time) \in RequestTypes
  BY RequestsOK
<1>2. /\ <<Request("SETBOOST", time)>> \in Seq(RequestTypes)
      /\ Len(<<Request("SETBOOST", time)>>) <= 2
  BY <1>1, OneOK
<1>3. toNano' \in Seq(RequestTypes) /\ Len(toNano') <= QUEUE
  BY <1>2, SentOK DEF TypeOK, boostModeEcoPV
<1> QED BY <1>3, Sizes DEF TypeOK, boostModeEcoPV

LEMMA UserTypes ==
  ASSUME TypeOK, Counting, BoostRequest \/ WebRequest \/ Configure
  PROVE  TypeOK' /\ Counting' /\ calm' = 0
<1> USE Sizes
<1>1. CASE BoostRequest
  <2>1. /\ toNano' \in Seq(RequestTypes) /\ Len(toNano') <= QUEUE
        /\ esp' \in [boost : -1 .. DURATION, temp : {-1, 0, 1}, param : Params \cup {Unknown},
                     read : BOOLEAN, counter : 0 .. 2 * REFRESH - 1]
        /\ esp'.counter = esp.counter /\ esp'.read = esp.read
    <3>1. boostModeEcoPV(DURATION, DURATION) \/ boostModeEcoPV(0, -1)
      BY <1>1 DEF BoostRequest, boostON, boostOFF
    <3>2. DURATION \in -1 .. DURATION /\ -1 \in -1 .. DURATION
      OBVIOUS
    <3> QED BY <3>1, <3>2, BoostModeOK
  <2>2. /\ events' \in 0 .. EVENTS /\ calm' = 0 /\ calm' \in 0 .. CALM
        /\ UNCHANGED <<nano, task, temperature, toEsp, pc, ending, setting, due>>
    BY <1>1 DEF BoostRequest, Event, TypeOK
  <2> QED BY <2>1, <2>2 DEF TypeOK, Counting, Loop, Served
<1>2. CASE WebRequest
  <2> DEFINE asked ==
        (IF "param" \in Requests THEN {Request("SETPARAM", p) : p \in Params} ELSE {})
          \cup (IF "loadparam" \in Requests THEN {Request("LOADCFG", 0)} ELSE {})
          \cup (IF "restart" \in Requests THEN {Request("RESET", 0)} ELSE {})
          \cup (IF "format" \in Requests THEN {Request("FORMAT", 0)} ELSE {})
          \cup (IF "ssrmode" \in Requests THEN {Request("SETSSR", 0)} ELSE {})
          \cup (IF "other" \in Requests THEN {Request("SAVECFG", 0)} ELSE {})
  <2>1. PICK request \in asked : /\ toNano' = Sent(<<request>>)
                                 /\ esp' = [esp EXCEPT !.read = @ \/ request.cmd \in Rereads]
    BY <1>2 DEF WebRequest
  <2>2. request \in RequestTypes
    BY <2>1, RequestsOK
  <2>3. toNano' \in Seq(RequestTypes) /\ Len(toNano') <= QUEUE
    <3>1. <<request>> \in Seq(RequestTypes) /\ Len(<<request>>) <= 2
      BY <2>2, OneOK
    <3> QED BY <2>1, <3>1, SentOK DEF TypeOK
  <2>4. /\ Served /\ events' \in 0 .. EVENTS /\ calm' = 0 /\ calm' \in 0 .. CALM
        /\ UNCHANGED <<nano, task, temperature, toEsp, pc, ending, setting, due>>
    <3>1. /\ Served /\ Event
          /\ UNCHANGED <<nano, task, temperature, toEsp, pc, ending, setting, due>>
      BY <1>2 DEF WebRequest
    <3> QED BY <3>1, EventOK, Zenon
  <2>5. (esp.read \/ request.cmd \in Rereads) \in BOOLEAN
    BY Zenon
  <2>6. /\ esp' \in [boost : -1 .. DURATION, temp : {-1, 0, 1}, param : Params \cup {Unknown},
                     read : BOOLEAN, counter : 0 .. 2 * REFRESH - 1]
        /\ esp'.counter = esp.counter /\ (esp.read => esp'.read)
    BY <2>1 DEF TypeOK
  <2> QED BY <2>3, <2>4, <2>6 DEF TypeOK, Counting, Loop, Served
<1>3. CASE Configure
  BY <1>3 DEF Configure, Event, TypeOK, Counting, Loop, Served
<1> QED BY <1>1, <1>2, <1>3

LEMMA OtherEventTypes ==
  ASSUME TypeOK, Counting, EspStarts \/ Damage \/ Heat
  PROVE  TypeOK' /\ Counting' /\ calm' = 0
<1> USE Sizes
<1>1. CASE EspStarts
  <2>1. /\ pc' = "boot" /\ ending' = 0 /\ esp' = Booting /\ Event
        /\ UNCHANGED <<nano, task, temperature, toNano, toEsp, setting, due>>
    BY <1>1 DEF EspStarts
  <2>2. Booting \in [boost : -1 .. DURATION, temp : {-1, 0, 1}, param : Params \cup {Unknown},
                     read : BOOLEAN, counter : 0 .. 2 * REFRESH - 1]
        /\ Booting.counter = 0 /\ ~Booting.read
    BY DEF Booting, Unknown
  <2>3. TypeOK'
    <3>1. events' \in 0 .. EVENTS /\ calm' \in 0 .. CALM
      BY <2>1, EventOK
    <3>2. 0 \in 0 .. ENDING
      BY Sizes
    <3> HIDE DEF Booting
    <3> QED BY <2>1, <2>2, <3>1, <3>2 DEF TypeOK
  <2>4. Counting'
    BY <2>1, <2>2 DEF Counting, Loop, Served
  <2> QED BY <2>1, <2>3, <2>4, EventOK
<1>2. CASE Damage
  <2>1. /\ toNano # <<>> /\ Event
        /\ toNano' = [toNano EXCEPT ![Len(toNano)] = Request("damaged", 0)]
        /\ UNCHANGED <<nano, task, temperature, toEsp, pc, ending, esp, setting, due>>
    BY <1>2 DEF Damage
  <2>2. Request("damaged", 0) \in RequestTypes
    BY RequestsOK
  <2>3. toNano' \in Seq(RequestTypes) /\ Len(toNano') = Len(toNano)
    BY <2>1, <2>2 DEF TypeOK
  <2> QED BY <2>1, <2>3, EventOK DEF TypeOK, Counting, Loop, Served
<1>3. CASE Heat
  <2>1. /\ temperature' \in {-1, 0, 1} /\ Event
        /\ UNCHANGED <<nano, task, toNano, toEsp, pc, ending, esp, setting, due>>
    BY <1>3 DEF Heat, temperatureRead
  <2> QED BY <2>1, EventOK DEF TypeOK, Counting, Loop, Served
<1> QED BY <1>1, <1>2, <1>3

LEMMA SetupTypes ==
  ASSUME TypeOK, Counting, NoContact \/ SetupDone \/ OpenLine
  PROVE  TypeOK' /\ Counting'
<1>1. CASE NoContact
  BY <1>1 DEF NoContact, Takes, NoEvent, TypeOK, Counting, Loop, Served
<1>3. CASE SetupDone
  <2>1. <<>> \in Seq(MessageTypes)
    OBVIOUS
  <2> QED BY <1>3, <2>1 DEF SetupDone, NoEvent, TypeOK, Counting, Loop, Served
<1>2. CASE OpenLine
  <2>1. <<>> \in Seq(MessageTypes)
    OBVIOUS
  <2> QED BY <1>2, <2>1 DEF OpenLine, NoEvent, TypeOK, Counting, Loop, Served
<1> QED BY <1>1, <1>2, <1>3

LEMMA SecondTypes ==
  ASSUME TypeOK, Counting, Second
  PROVE  TypeOK' /\ Counting'
<1>1. <<>> \in Seq(MessageTypes)
  OBVIOUS
<1>2. task' \in [what : {"none", "RESET", "FORMAT", "restarted"}, left : 0 .. BUSY]
  <2>1. CASE Free
    <3>1. task' = [task EXCEPT !.left = 0] /\ 0 \in 0 .. BUSY
      BY <2>1, Sizes DEF Second
    <3> QED BY <3>1 DEF TypeOK
  <2>2. CASE ~Free
    <3>1. task.what \in {"RESET", "FORMAT"} /\ task.left > 0
      BY <2>2 DEF Second, Free, TypeOK
    <3>2. task.left - 1 \in 0 .. BUSY
      BY <3>1, Sizes DEF TypeOK
    <3> QED BY <2>2, <3>2 DEF Second, TypeOK
  <2> QED BY <2>1, <2>2
<1>3. calm' \in 0 .. CALM
  <2>1. calm' = calm \/ (calm < CALM /\ calm' = calm + 1)
    BY DEF Second
  <2>2. calm \in 0 .. CALM
    BY DEF TypeOK
  <2>3. CALM \in Nat
    BY Sizes
  <2> QED BY <2>1, <2>2, <2>3
<1>4. ending' \in 0 .. ENDING /\ (pc' # "ending" => ending' = 0)
  <2>1. CASE pc = "ending"
    <3>1. ending' = ending - 1 /\ ending > 0 /\ pc' = pc
      BY <2>1 DEF Second
    <3>2. ending \in 0 .. ENDING
      BY DEF TypeOK
    <3>3. ENDING \in Nat
      BY Sizes
    <3> QED BY <2>1, <3>1, <3>2, <3>3
  <2>2. CASE pc # "ending"
    BY <2>2 DEF Second, TypeOK
  <2> QED BY <2>1, <2>2
<1> QED BY <1>1, <1>2, <1>3, <1>4 DEF Second, TypeOK, Counting, Loop, Served

LEMMA TypesKept ==
  ASSUME TypeOK, Counting, Next
  PROVE  TypeOK' /\ Counting'
  BY NanoSecondTypes, SerialRequestTypes, OtherNanoTypes, SerialProcessTypes, EachSecondTypes,
     UserTypes, OtherEventTypes, SetupTypes, SecondTypes DEF Next, NanoSteps, EspSteps
--------------------------------------------------------------------------------
(* A second without events *)

LEMMA Kinds ==
  /\ Fresh.kind = "PARAM" /\ Done.kind = "DONE" /\ Statistics.kind = "STATS"
  /\ Over.kind = "BOOSTTIME" /\ \A x \in Reports : x.kind = "BOOSTTIME" /\ x.hash
  /\ Fresh.hash /\ Done.hash /\ Statistics.hash /\ ~Over.hash
  /\ Fresh.arg = nano.param /\ Statistics.arg = temperature /\ Over.arg = -1
  /\ \A time : Report(time).arg = time /\ Report(time).kind = "BOOSTTIME" /\ Report(time).hash
  /\ \A x \in Reports : \E time \in -1 .. DURATION : x = Report(time)
  /\ \A time \in -1 .. DURATION : Report(time) \in Reports
<1>1. /\ Fresh.kind = "PARAM" /\ Done.kind = "DONE" /\ Statistics.kind = "STATS"
      /\ Over.kind = "BOOSTTIME" /\ Over.arg = -1 /\ ~Over.hash
      /\ Fresh.hash /\ Done.hash /\ Statistics.hash
      /\ Fresh.arg = nano.param /\ Statistics.arg = temperature
  BY DEF Fresh, Done, Statistics, Over
<1>2. \A time : Report(time).arg = time /\ Report(time).kind = "BOOSTTIME" /\ Report(time).hash
  BY DEF Report
<1>3. Reports = {Report(time) : time \in -1 .. DURATION}
  BY DEF Reports
<1> QED BY <1>1, <1>2, <1>3

LEMMA Distinct ==
  /\ Fresh # Done /\ Fresh # Statistics /\ Fresh # Over /\ Fresh \notin Reports
  /\ Done # Statistics /\ Done # Over /\ Done \notin Reports
  /\ Statistics # Over /\ Statistics \notin Reports /\ Over \notin Reports
  /\ \A a, b : Report(a) = Report(b) => a = b
  /\ \A a : Report(a) # Over /\ Report(a) # Statistics /\ Report(a) # Fresh /\ Report(a) # Done
<1>1. \A a, b : Report(a) = Report(b) => a = b
  <2> SUFFICES ASSUME NEW a, NEW b, Report(a) = Report(b) PROVE a = b
    OBVIOUS
  <2>1. Report(a).arg = a /\ Report(b).arg = b
    BY Kinds
  <2> QED BY <2>1
<1>2. /\ Fresh # Done /\ Fresh # Statistics /\ Fresh # Over /\ Fresh \notin Reports
      /\ Done # Statistics /\ Done # Over /\ Done \notin Reports
      /\ Statistics # Over /\ Statistics \notin Reports /\ Over \notin Reports
      /\ \A a : Report(a) # Over /\ Report(a) # Statistics /\ Report(a) # Fresh /\ Report(a) # Done
  BY Kinds
<1> QED BY <1>1, <1>2

LEMMA CommandsOK ==
  /\ ASK # OFF /\ ASK # Request("VERSION", 0) /\ OFF # Request("VERSION", 0)
  /\ ASK.cmd = "PARAM" /\ OFF.cmd = "SETBOOST" /\ Request("VERSION", 0).cmd = "VERSION"
  /\ OFF.arg = 0
  /\ ASK \in RequestTypes /\ OFF \in RequestTypes /\ Request("VERSION", 0) \in RequestTypes
<1>1. /\ ASK.cmd = "PARAM" /\ OFF.cmd = "SETBOOST" /\ Request("VERSION", 0).cmd = "VERSION"
      /\ OFF.arg = 0
  BY DEF ASK, OFF, Request
<1> QED BY <1>1, RequestsOK DEF ASK, OFF

LEMMA OrderedTypes ==
  ASSUME TypeOK
  PROVE  {Fresh, Done, Statistics, Over} \cup Reports \subseteq MessageTypes
<1>1. nano.param \in Params /\ temperature \in {-1, 0, 1}
  BY DEF TypeOK
<1>2. Fresh \in MessageTypes /\ Statistics \in MessageTypes
  BY <1>1, MessagesOK DEF Fresh, Statistics
<1>3. Reports \subseteq MessageTypes
  BY MessagesOK DEF Reports
<1> QED BY <1>2, <1>3, MessagesOK

\* The messages of a second: statistics, a report that is due, and the end of BOOST.
LEMMA NanoSecondCalm ==
  ASSUME TypeOK, Quiet, NanoSecond, calm' > 0
  PROVE  /\ "nano" \in due /\ due' = due \ {"nano"}
         /\ UNCHANGED <<task, temperature, toNano, pc, ending, esp, setting, events, calm>>
         /\ nano'.boost = CountedDown(nano.boost) /\ nano'.param = nano.param
         /\ nano'.second = IF nano.second = REPORT - 1 THEN 0 ELSE nano.second + 1
         /\ Ordered(toEsp') /\ toEsp' # <<>>
         /\ \A x : In(x, toEsp') <=> \/ In(x, toEsp) \/ x = Statistics
                                     \/ nano.second = REPORT - 1 /\ x = Report(nano.boost)
                                     \/ nano.boost = 0 /\ x = Over
<1>1. PICK relayplusEnds \in BOOLEAN :
        /\ IF relayplusEnds THEN Event ELSE NoEvent
        /\ toEsp' = toEsp \o Ended("STATS", temperature) \o Reported(nano.second)
                      \o (IF nano.boost = 0 THEN Unended("BOOSTTIME", -1) ELSE <<>>)
                      \o (IF relayplusEnds THEN Unended("RELAYPLUSTIME", -1) ELSE <<>>)
  BY DEF NanoSecond
<1>2. relayplusEnds = FALSE /\ UNCHANGED <<events, calm>>
  BY <1>1 DEF Event, NoEvent
<1>3. /\ nano.boost \in -1 .. DURATION /\ nano.second \in 0 .. REPORT - 1
      /\ toEsp \in Seq(MessageTypes) /\ Ordered(toEsp)
      /\ \A k \in DOMAIN toEsp : toEsp[k] \in {Fresh, Done}
  BY DEF TypeOK, Quiet, NanoSecond
<1>4. Statistics \in MessageTypes /\ Over \in MessageTypes /\ Report(nano.boost) \in MessageTypes
  BY <1>3, OrderedTypes, Kinds
<1> DEFINE box1 == toEsp \o <<Statistics>>
           box2 == IF nano.second = REPORT - 1 THEN box1 \o <<Report(nano.boost)>> ELSE box1
           box3 == IF nano.boost = 0 THEN box2 \o <<Over>> ELSE box2
<1>5. /\ box1 \in Seq(MessageTypes) /\ Ordered(box1) /\ box1 # <<>>
      /\ \A x : In(x, box1) <=> In(x, toEsp) \/ x = Statistics
  BY <1>3, <1>4, Distinct, AppendOK, InAppend, OrderedAppend
<1>6. \A k \in DOMAIN box1 : box1[k] \in {Fresh, Done, Statistics}
  <2>1. \A k \in DOMAIN box1 : In(box1[k], box1)
    BY DEF In
  <2>2. \A x : In(x, toEsp) => x \in {Fresh, Done}
    BY <1>3 DEF In
  <2> QED BY <1>5, <2>1, <2>2
<1> HIDE DEF box1
<1>7. /\ box2 \in Seq(MessageTypes) /\ Ordered(box2) /\ box2 # <<>>
      /\ \A x : In(x, box2) <=> In(x, box1) \/ (nano.second = REPORT - 1 /\ x = Report(nano.boost))
  <2>1. CASE nano.second = REPORT - 1
    <3>1. Report(nano.boost) \in Reports
      BY <1>3, Kinds
    <3>2. Ordered(box1 \o <<Report(nano.boost)>>)
      BY <1>4, <1>5, <1>6, <3>1, Distinct, OrderedAppend
    <3> QED BY <1>4, <1>5, <2>1, <3>2, AppendOK, InAppend
  <2>2. CASE nano.second # REPORT - 1
    BY <1>5, <2>2
  <2> QED BY <2>1, <2>2
<1>8. \A k \in DOMAIN box2 : box2[k] # Over
  <2>1. \A k \in DOMAIN box2 : In(box2[k], box2)
    BY DEF In
  <2>2. \A x : In(x, box1) => x \in {Fresh, Done, Statistics}
    BY <1>6 DEF In
  <2> QED BY <1>7, <2>1, <2>2, Distinct
<1> HIDE DEF box2
<1>9. /\ Ordered(box3) /\ box3 # <<>>
      /\ \A x : In(x, box3) <=> In(x, box2) \/ (nano.boost = 0 /\ x = Over)
  <2>1. CASE nano.boost = 0
    <3>1. Ordered(box2 \o <<Over>>)
      BY <1>4, <1>7, <1>8, Distinct, OrderedAppend
    <3> QED BY <1>4, <1>7, <2>1, <3>1, AppendOK, InAppend
  <2>2. CASE nano.boost # 0
    BY <1>7, <2>2
  <2> QED BY <2>1, <2>2
<1>10. toEsp' = box3
  <2>1. box1 = toEsp \o Ended("STATS", temperature)
    BY DEF box1, Ended, Statistics
  <2>2. box2 = box1 \o Reported(nano.second)
    BY <1>5 DEF box2, Reported, Ended, Report
  <2>3. box3 = box2 \o (IF nano.boost = 0 THEN Unended("BOOSTTIME", -1) ELSE <<>>)
    <3>1. box2 \o <<>> = box2
      BY <1>7
    <3> QED BY <3>1 DEF Unended, Over
  <2>4. toEsp' = box3 \o <<>>
    BY <1>1, <1>2, <2>1, <2>2, <2>3
  <2>5. box3 \in Seq(MessageTypes)
    BY <1>4, <1>7, AppendOK
  <2> QED BY <2>4, <2>5
<1> HIDE DEF box3
<1>11. /\ nano'.boost = CountedDown(nano.boost) /\ nano'.param = nano.param
       /\ nano'.second = IF nano.second = REPORT - 1 THEN 0 ELSE nano.second + 1
  <2>1. (nano.second + 1) % REPORT = IF nano.second = REPORT - 1 THEN 0 ELSE nano.second + 1
    BY <1>3, Sizes, Wraps
  <2>2. nano' = [nano EXCEPT !.second = (nano.second + 1) % REPORT,
                             !.boost = CountedDown(nano.boost)]
    BY DEF NanoSecond
  <2> QED BY <2>1, <2>2 DEF TypeOK
<1> QED BY <1>2, <1>5, <1>7, <1>9, <1>10, <1>11 DEF NanoSecond

LEMMA TailOK ==
  ASSUME NEW S, NEW box \in Seq(S), box # <<>>
  PROVE  /\ Head(box) \in S /\ Tail(box) \in Seq(S) /\ Len(Tail(box)) = Len(box) - 1
         /\ Len(box) \in Nat /\ Len(box) > 0
         /\ \A x : In(x, box) <=> x = Head(box) \/ In(x, Tail(box))
<1> DEFINE rest == Tail(box)
<1>1. /\ Head(box) \in S /\ rest \in Seq(S) /\ Len(rest) = Len(box) - 1
      /\ Len(box) \in Nat /\ Len(box) > 0 /\ Head(box) = box[1]
      /\ \A k \in 1 .. Len(rest) : rest[k] = box[k + 1]
  OBVIOUS
<1>2. DOMAIN box = 1 .. Len(box) /\ DOMAIN rest = 1 .. Len(box) - 1
  BY <1>1
<1> HIDE DEF rest
<1>3. ASSUME NEW x, In(x, box), x # Head(box) PROVE In(x, rest)
  <2>1. PICK k \in 1 .. Len(box) : box[k] = x
    BY <1>2, <1>3 DEF In
  <2>2. k - 1 \in 1 .. Len(box) - 1
    BY <1>1, <1>3, <2>1
  <2>3. rest[k - 1] = box[(k - 1) + 1]
    BY <1>1, <1>2, <2>2
  <2>4. (k - 1) + 1 = k
    OBVIOUS
  <2> QED BY <1>2, <2>1, <2>2, <2>3, <2>4 DEF In
<1>4. ASSUME NEW x, x = Head(box) \/ In(x, rest) PROVE In(x, box)
  <2>1. CASE x = Head(box)
    BY <1>1, <1>2, <2>1 DEF In
  <2>2. CASE In(x, rest)
    <3>1. PICK k \in 1 .. Len(box) - 1 : rest[k] = x
      BY <1>2, <2>2 DEF In
    <3>2. k + 1 \in 1 .. Len(box) /\ rest[k] = box[k + 1]
      BY <1>1, <3>1
    <3> QED BY <1>2, <3>1, <3>2 DEF In
  <2> QED BY <1>4, <2>1, <2>2
<1> QED BY <1>1, <1>3, <1>4 DEF rest

LEMMA SerialRequestCalm ==
  ASSUME TypeOK, Quiet, serialRequest
  PROVE  /\ toNano # <<>> /\ toNano' = Tail(toNano)
         /\ Head(toNano) \in {ASK, Request("VERSION", 0), OFF}
         /\ UNCHANGED <<task, temperature, pc, ending, esp, setting, due, events, calm>>
         /\ nano'.boost = IF Head(toNano) = OFF /\ nano.boost # -1 THEN 0 ELSE nano.boost
         /\ nano'.param = nano.param /\ nano'.second = nano.second
         /\ Ordered(toEsp') /\ toEsp' # <<>>
         /\ \A x : In(x, toEsp') <=> \/ In(x, toEsp)
                                     \/ x = IF Head(toNano) = ASK THEN Fresh ELSE Done
<1> DEFINE request == Head(toNano)
           m == IF request = ASK THEN Fresh ELSE Done
<1>1. /\ toNano # <<>> /\ toNano' = Tail(toNano) /\ toEsp' = toEsp \o Answer(request)
      /\ task' = IF request.cmd \in {"RESET", "FORMAT"}
                   THEN [what |-> request.cmd, left |-> BUSY] ELSE task
      /\ UNCHANGED <<temperature, pc, ending, esp, setting, due, events, calm>>
  BY DEF serialRequest, NoEvent
<1>2. request \in {ASK, Request("VERSION", 0), OFF}
  <2>1. 1 \in DOMAIN toNano /\ request = toNano[1]
    BY <1>1 DEF TypeOK
  <2> QED BY <2>1 DEF Quiet
<1>3. Answer(request) = <<m>>
  BY <1>2, CommandsOK DEF Answer, Ended, Fresh, Done
<1>4. nano' = IF request = OFF THEN [nano EXCEPT !.boost = Boosted(request.arg)] ELSE nano
  <2> HIDE DEF request
  <2>1. /\ request.cmd = "SETBOOST" => nano' = [nano EXCEPT !.boost = Boosted(request.arg)]
        /\ request.cmd \notin {"SETBOOST", "SETSSR", "SETPARAM", "LOADCFG"} => nano' = nano
    BY DEF serialRequest, request
  <2> QED BY <1>2, <2>1, CommandsOK
<1>5. /\ nano'.boost = IF request = OFF /\ nano.boost # -1 THEN 0 ELSE nano.boost
      /\ nano'.param = nano.param /\ nano'.second = nano.second
  <2>1. CASE request = OFF
    <3>1. Boosted(request.arg) = IF nano.boost # -1 THEN 0 ELSE nano.boost
      BY <2>1, CommandsOK DEF Boosted
    <3> QED BY <1>4, <2>1, <3>1 DEF TypeOK
  <2>2. CASE request # OFF
    BY <1>4, <2>2
  <2> QED BY <2>1, <2>2
<1>6. m \in MessageTypes /\ m \in {Fresh, Done}
  BY OrderedTypes
<1> HIDE DEF m
<1>7. toEsp' = toEsp \o <<m>> /\ toEsp \in Seq(MessageTypes) /\ Ordered(toEsp)
  BY <1>1, <1>3 DEF TypeOK, Quiet
<1>8. /\ Ordered(toEsp') /\ toEsp' # <<>>
      /\ \A x : In(x, toEsp') <=> In(x, toEsp) \/ x = m
  BY <1>6, <1>7, Distinct, AppendOK, InAppend, OrderedAppend
<1>9. task' = task
  BY <1>1, <1>2, CommandsOK
<1> QED BY <1>1, <1>2, <1>5, <1>8, <1>9 DEF m

\* What is read in the loop: a message, and with the end of BOOST the next one.
LEMMA SerialProcessCalm ==
  ASSUME TypeOK, Quiet, Loop, serialProcess
  PROVE  LET m == toEsp[1] IN
         /\ toEsp # <<>> /\ In(m, toEsp) /\ m \in {Fresh, Done, Statistics, Over} \cup Reports
         /\ UNCHANGED <<nano, task, temperature, pc, setting, due, events, calm>>
         /\ esp'.counter = esp.counter /\ esp'.read = esp.read
         /\ esp'.param = IF m = Fresh THEN nano.param ELSE esp.param
         /\ esp'.boost = IF m = Statistics /\ Hot /\ esp.boost > 0 THEN -1
                         ELSE IF m \in Reports \cup {Over} THEN m.arg ELSE esp.boost
         /\ toNano' = IF m = Statistics /\ Hot /\ esp.boost > 0 THEN Sent(<<OFF>>) ELSE toNano
         /\ Ordered(toEsp')
         /\ \A x : In(x, toEsp') => In(x, toEsp)
         /\ \A x : In(x, toEsp) /\ x # m => In(x, toEsp') \/ (m = Over /\ x \in {Fresh, Done})
         /\ m = Statistics => ~In(Statistics, toEsp')
         /\ m \in Reports => \A x \in Reports \cup {Statistics} : ~In(x, toEsp')
         /\ m = Over => \A x \in Reports \cup {Statistics, Over} : ~In(x, toEsp')
<1> DEFINE m == toEsp[1]
           n == Len(toEsp)
           r == ReadLen
           rest == SubSeq(toEsp, r + 1, n)
<1>1. /\ toEsp # <<>> /\ m \in MessageTypes
      /\ esp' = [esp EXCEPT
                   !.temp = IF m.kind = "STATS" THEN m.arg ELSE @,
                   !.param = IF m.kind = "PARAM" THEN m.arg ELSE @,
                   !.boost = IF TooHot(m) THEN -1
                             ELSE IF m.kind = "BOOSTTIME" THEN m.arg ELSE @]
      /\ UNCHANGED <<nano, task, temperature, pc, setting, due, events, calm>>
      /\ toNano' = Sent(IF TooHot(m) THEN <<OFF>> ELSE <<>>)
      /\ toEsp' = rest
  BY ReceivedOK DEF Loop
<1>2. /\ n \in Nat /\ n > 0 /\ DOMAIN toEsp = 1 .. n /\ Ordered(toEsp)
      /\ \A k \in 1 .. n : toEsp[k] \in {Fresh, Done, Statistics, Over} \cup Reports
  BY <1>1 DEF TypeOK, Quiet, Ordered
<1>3. m \in {Fresh, Done, Statistics, Over} \cup Reports /\ In(m, toEsp)
  BY <1>2 DEF In
<1>4. r \in 1 .. n /\ (m # Over => r = 1) /\ (m = Over => r = 1 \/ r = 2)
  <2>1. m # Over => m.hash
    BY <1>3, Kinds
  <2>2. m = Over /\ n > 1 => toEsp[2].hash
    <3> SUFFICES ASSUME m = Over, n > 1 PROVE toEsp[2].hash
      OBVIOUS
    <3>1. 1 \in 1 .. n /\ 2 \in 1 .. n
      BY <1>2
    <3>2. toEsp[2] # Over
      BY <1>2, <3>1 DEF Ordered
    <3> QED BY <1>2, <3>1, <3>2, Kinds
  <2>3. m = Over => ~m.hash
    BY Kinds
  <2>4. /\ r \in 1 .. n
        /\ m.hash => r = 1
        /\ n > 1 /\ ~m.hash /\ toEsp[2].hash => r = 2
        /\ n = 1 => r = 1
    BY <1>1, SomeLen DEF TypeOK
  <2> QED BY <1>2, <2>1, <2>2, <2>3, <2>4
<1>5. /\ DOMAIN rest = 1 .. n - r
      /\ \A k \in 1 .. n - r : rest[k] = toEsp[k + r]
  BY <1>4, RestOK DEF TypeOK
<1> HIDE DEF r, n, rest, m
<1>6. \A k \in 1 .. n - r : k + r \in 1 .. n /\ 1 < k + r
  BY <1>2, <1>4
<1>7. Ordered(rest)
  <2>1. \A k \in DOMAIN rest : rest[k] \in {Fresh, Done, Statistics, Over} \cup Reports
    BY <1>2, <1>5, <1>6
  <2>2. ASSUME NEW k \in 1 .. n - r, NEW l \in 1 .. n - r, k < l
        PROVE  /\ rest[l] = Statistics => rest[k] \in {Fresh, Done}
               /\ rest[l] \in Reports => rest[k] \notin Reports \cup {Over}
               /\ rest[l] = Over => rest[k] # Over
    <3>1. k + r \in 1 .. n /\ l + r \in 1 .. n /\ k + r < l + r
      BY <1>2, <1>4, <1>6, <2>2
    <3>2. rest[k] = toEsp[k + r] /\ rest[l] = toEsp[l + r]
      BY <1>5
    <3> QED BY <1>2, <3>1, <3>2 DEF Ordered
  <2> QED BY <1>5, <2>1, <2>2 DEF Ordered
<1>8. \A x : In(x, rest) => In(x, toEsp)
  BY <1>2, <1>5, <1>6 DEF In
<1>9. ASSUME NEW x, In(x, rest)
      PROVE  /\ x = Statistics => m \in {Fresh, Done}
             /\ x \in Reports => m \notin Reports \cup {Over}
             /\ x = Over => m # Over
  <2>1. PICK k \in 1 .. n - r : rest[k] = x
    BY <1>5, <1>9 DEF In
  <2>2. k + r \in 1 .. n /\ 1 < k + r /\ toEsp[k + r] = x /\ 1 \in 1 .. n
    BY <1>2, <1>5, <1>6, <2>1
  <2> QED BY <1>2, <2>2 DEF Ordered, m
<1>10. ASSUME NEW x, In(x, toEsp), x # m
       PROVE  In(x, rest) \/ (m = Over /\ x \in {Fresh, Done})
  <2>1. PICK k \in 1 .. n : toEsp[k] = x
    BY <1>2, <1>10 DEF In
  <2>2. k # 1
    BY <1>10, <2>1 DEF m
  <2>3. CASE k > r
    <3>1. k - r \in 1 .. n - r /\ (k - r) + r = k
      BY <1>2, <1>4, <2>3
    <3>2. rest[k - r] = toEsp[(k - r) + r]
      BY <1>5, <3>1
    <3> QED BY <1>5, <2>1, <3>1, <3>2 DEF In
  <2>4. CASE ~(k > r)
    <3>1. m = Over /\ k = 2 /\ 1 \in 1 .. n /\ 1 < 2
      BY <1>2, <1>4, <2>2, <2>4
    <3>2. x \notin Reports /\ x # Statistics /\ x # Over
      BY <1>2, <2>1, <3>1, Distinct DEF Ordered, m
    <3> QED BY <1>2, <2>1, <3>1, <3>2
  <2> QED BY <2>3, <2>4
<1>11. TooHot(m) <=> m = Statistics /\ Hot /\ esp.boost > 0
  <2>1. m.kind = "STATS" <=> m = Statistics
    BY <1>3, Kinds
  <2>2. temperature > 0 <=> temperature = 1
    BY DEF TypeOK
  <2> QED BY <2>1, <2>2, Kinds DEF TooHot, Hot
<1>12. /\ m.kind = "PARAM" <=> m = Fresh
       /\ m.kind = "BOOSTTIME" <=> m \in Reports \cup {Over}
  BY <1>3, Kinds
<1>13. /\ esp'.counter = esp.counter /\ esp'.read = esp.read
       /\ esp'.param = IF m = Fresh THEN nano.param ELSE esp.param
       /\ esp'.boost = IF m = Statistics /\ Hot /\ esp.boost > 0 THEN -1
                       ELSE IF m \in Reports \cup {Over} THEN m.arg ELSE esp.boost
  BY <1>1, <1>11, <1>12, Kinds DEF TypeOK
<1>14. toNano' = IF m = Statistics /\ Hot /\ esp.boost > 0 THEN Sent(<<OFF>>) ELSE toNano
  <2>1. Sent(<<>>) = toNano
    <3>1. <<>> \in Seq(RequestTypes) /\ Len(<<>>) <= 2
      OBVIOUS
    <3> QED BY <3>1, SentOK DEF TypeOK
  <2> QED BY <1>1, <1>11, <2>1
<1>15. /\ m = Statistics => ~In(Statistics, rest)
       /\ m \in Reports => \A x \in Reports \cup {Statistics} : ~In(x, rest)
       /\ m = Over => \A x \in Reports \cup {Statistics, Over} : ~In(x, rest)
  BY <1>9, Distinct
<1> QED BY <1>1, <1>3, <1>7, <1>8, <1>10, <1>13, <1>14, <1>15 DEF m
--------------------------------------------------------------------------------
(* What a step leaves of the invariant *)

LEMMA EachElement ==
  ASSUME NEW S, NEW box
  PROVE  (\A k \in DOMAIN box : box[k] \in S) <=> (\A x : In(x, box) => x \in S)
  BY DEF In

LEMMA EmptyBox ==
  ASSUME NEW box, box = <<>>
  PROVE  /\ \A x : ~In(x, box)
         /\ Len(box) = 0 /\ Ordered(box)
         /\ \A S : \A k \in DOMAIN box : box[k] \in S
<1>1. DOMAIN box = {}
  OBVIOUS
<1> QED BY <1>1 DEF In, Ordered

LEMMA StillOK ==
  ASSUME temperature' = temperature, nano'.param = nano.param
  PROVE  /\ Statistics' = Statistics /\ Fresh' = Fresh
         /\ Ordered(toEsp') => Ordered(toEsp)'
<1>1. Statistics' = Statistics /\ Fresh' = Fresh
  BY DEF Statistics, Fresh
<1> QED BY <1>1 DEF Ordered

\* What holds of BOOST once setup must have ended.
BoostInv == calm > SETUP => IF Hot THEN Heated ELSE Cold
CalmInv == Quiet /\ Truthful /\ Advancing /\ (Loop => Room /\ Refreshing)

LEMMA NanoSecondFacts ==
  ASSUME TypeOK, Quiet, NanoSecond, calm' > 0
  PROVE  /\ "nano" \in due /\ due' = due \ {"nano"}
         /\ UNCHANGED <<task, temperature, toNano, pc, ending, esp, setting, events, calm>>
         /\ nano'.param = nano.param
         /\ nano'.second = IF nano.second = REPORT - 1 THEN 0 ELSE nano.second + 1
         /\ Ordered(toEsp)' /\ toEsp' # <<>>
         /\ Statistics' = Statistics /\ Fresh' = Fresh /\ Hot' = Hot
         /\ ~In(Over, toEsp) /\ ~In(Statistics, toEsp) /\ \A t : ~In(Report(t), toEsp)
         /\ In(Over, toEsp') <=> nano.boost = 0
         /\ In(Statistics, toEsp')
         /\ In(Fresh, toEsp') <=> In(Fresh, toEsp)
         /\ \A t : In(Report(t), toEsp') <=> nano.second = REPORT - 1 /\ t = nano.boost
         /\ nano.boost \in -1 .. DURATION /\ nano.second \in 0 .. REPORT - 1 /\ calm \in Nat
         /\ nano.boost > 0 => nano'.boost = nano.boost - 1 /\ nano'.boost # -1
         /\ nano.boost = 0 => nano'.boost = -1
         /\ nano.boost = -1 => nano'.boost = -1
<1> USE Sizes
<1>1. /\ "nano" \in due /\ due' = due \ {"nano"}
      /\ UNCHANGED <<task, temperature, toNano, pc, ending, esp, setting, events, calm>>
      /\ nano'.boost = CountedDown(nano.boost) /\ nano'.param = nano.param
      /\ nano'.second = IF nano.second = REPORT - 1 THEN 0 ELSE nano.second + 1
      /\ Ordered(toEsp') /\ toEsp' # <<>>
      /\ \A x : In(x, toEsp') <=> \/ In(x, toEsp) \/ x = Statistics
                                  \/ nano.second = REPORT - 1 /\ x = Report(nano.boost)
                                  \/ nano.boost = 0 /\ x = Over
  BY NanoSecondCalm
<1>2. \A x : In(x, toEsp) => x \in {Fresh, Done}
  BY <1>1, EachElement DEF Quiet
<1>3. /\ Statistics' = Statistics /\ Fresh' = Fresh /\ Ordered(toEsp)'
      /\ Hot' = Hot
  BY <1>1, StillOK DEF Hot
<1>4. /\ ~In(Over, toEsp) /\ ~In(Statistics, toEsp) /\ \A t : ~In(Report(t), toEsp)
      /\ In(Over, toEsp') <=> nano.boost = 0
      /\ In(Statistics, toEsp')
      /\ In(Fresh, toEsp') <=> In(Fresh, toEsp)
      /\ \A t : In(Report(t), toEsp') <=> nano.second = REPORT - 1 /\ t = nano.boost
  BY <1>1, <1>2, Distinct
<1>5. nano.boost \in -1 .. DURATION /\ nano.second \in 0 .. REPORT - 1 /\ calm \in Nat
  BY DEF TypeOK
<1>6. /\ nano.boost > 0 => nano'.boost = nano.boost - 1 /\ nano'.boost # -1
      /\ nano.boost = 0 => nano'.boost = -1
      /\ nano.boost = -1 => nano'.boost = -1
  BY <1>1, <1>5 DEF CountedDown
<1> QED BY <1>1, <1>3, <1>4, <1>5, <1>6

LEMMA NanoSecondKept ==
  ASSUME TypeOK, CalmInv, NanoSecond, calm' > 0
  PROVE  CalmInv'
<1>0. Quiet /\ Truthful /\ Advancing
  BY DEF CalmInv
<1>1. Quiet'
  BY <1>0, NanoSecondFacts DEF Quiet, Free
<1>2. Truthful'
  BY <1>0, NanoSecondFacts, Sizes DEF Truthful
<1>3. Advancing'
  <2>1. /\ UNCHANGED <<pc, ending, calm, toNano>> /\ toEsp' # <<>>
        /\ due' = due \ {"nano"}
    BY <1>0, NanoSecondFacts
  <2>2. Pending' /\ ("esp" \in due' <=> "esp" \in due)
    BY <2>1 DEF Pending
  <2>3. "nano" \in due => Pending
    BY DEF Pending
  <2>4. "nano" \in due
    BY <1>0, NanoSecondFacts
  <2> QED BY <1>0, <2>1, <2>2, <2>3, <2>4 DEF Advancing, Loop
<1>4. ASSUME Loop' PROVE Room' /\ Refreshing'
  <2>1. Room /\ Refreshing
    BY <1>0, <1>4, NanoSecondFacts DEF CalmInv, Loop
  <2>2. Room'
    BY <1>0, <2>1, NanoSecondFacts DEF Room, Reporting, One
  <2>3. MayLose' <=> MayLose
    BY <1>0, NanoSecondFacts, Sizes DEF MayLose
  <2>4. Coming' <=> Coming
    BY <1>0, NanoSecondFacts DEF Coming
  <2>5. Origin' = Origin /\ Ask' = Ask /\ AskAgain' = AskAgain
    BY <1>0, NanoSecondFacts DEF Origin, Ask, AskAgain, One
  <2>6. nano'.param = nano.param /\ esp' = esp /\ due' = due \ {"nano"}
    BY <1>0, NanoSecondFacts
  <2> QED BY <2>1, <2>2, <2>3, <2>4, <2>5, <2>6 DEF Refreshing
<1> QED BY <1>1, <1>2, <1>3, <1>4 DEF CalmInv

LEMMA NanoSecondBoost ==
  ASSUME TypeOK, CalmInv, BoostInv, NanoSecond, calm' > 0
  PROVE  BoostInv'
<1> USE Sizes
<1> SUFFICES ASSUME calm' > SETUP PROVE BoostInv'
  BY DEF BoostInv
<1>0. Quiet /\ calm > SETUP /\ calm' = calm
  BY NanoSecondFacts DEF CalmInv
<1>1. /\ "nano" \in due /\ "nano" \notin due' /\ esp' = esp /\ Hot' = Hot
      /\ nano'.second = IF nano.second = REPORT - 1 THEN 0 ELSE nano.second + 1
      /\ nano.boost \in -1 .. DURATION /\ nano.second \in 0 .. REPORT - 1 /\ calm \in Nat
      /\ nano.boost > 0 => nano'.boost = nano.boost - 1 /\ nano'.boost # -1
      /\ nano.boost = 0 => nano'.boost = -1
      /\ nano.boost = -1 => nano'.boost = -1
      /\ nano.boost > 0 \/ nano.boost = 0 \/ nano.boost = -1
  BY <1>0, NanoSecondFacts
<1>2. /\ ~Told /\ In(Statistics, toEsp)'
      /\ In(Over, toEsp)' <=> nano.boost = 0
      /\ Told' <=> nano.boost = 0 \/ nano.second = REPORT - 1
      /\ In(Report(-1), toEsp)' <=> nano.second = REPORT - 1 /\ nano.boost = -1
  BY <1>0, <1>1, NanoSecondFacts DEF Told
<1>3. ASSUME NoReportYet, nano.second # REPORT - 1 PROVE NoReportYet'
  BY <1>0, <1>1, <1>3 DEF NoReportYet, One
<1>4. ASSUME NoReportYet, nano.second = REPORT - 1 PROVE calm <= REPORT + SETUP /\ Told'
  BY <1>1, <1>2, <1>4 DEF NoReportYet, One
<1>5. CASE ~Hot
  <2>1. Cold
    BY <1>0, <1>5 DEF BoostInv
  <2>2. Cold'
    BY <1>1, <1>2, <1>3, <1>4, <2>1 DEF Cold
  <2> QED BY <1>1, <1>5, <2>2 DEF BoostInv
<1>6. CASE Hot
  <2>1. Heated
    BY <1>0, <1>6 DEF BoostInv
  <2>2. Heated'
    <3>1. CASE NoReportYet
      <4>1. CASE nano.second # REPORT - 1
        BY <1>3, <3>1, <4>1 DEF Heated
      <4>2. CASE nano.second = REPORT - 1
        BY <1>0, <1>1, <1>2, <1>4, <3>1, <4>2 DEF Heated, SaysOn, Stopped
      <4> QED BY <4>1, <4>2
    <3>2. CASE calm <= REPORT + SETUP + 1 /\ esp.boost > 0
      BY <1>0, <1>1, <1>2, <3>2 DEF Heated, Stopping, Stopped
    <3>3. CASE nano.boost = 0
      BY <1>1, <1>2, <3>3 DEF Heated, Stopped
    <3>4. CASE nano.boost = -1 /\ esp.boost = -1
      BY <1>1, <1>2, <3>4 DEF Heated, Stopped
    <3> QED BY <1>1, <2>1, <3>1, <3>2, <3>3, <3>4 DEF Heated
  <2> QED BY <1>1, <1>6, <2>2 DEF BoostInv
<1> QED BY <1>5, <1>6

LEMMA SerialRequestFacts ==
  ASSUME TypeOK, Quiet, serialRequest
  PROVE  /\ UNCHANGED <<task, temperature, pc, ending, esp, setting, due, events, calm>>
         /\ nano'.param = nano.param /\ nano'.second = nano.second
         /\ nano'.boost = -1 <=> nano.boost = -1
         /\ ~In(OFF, toNano) => nano'.boost = nano.boost
         /\ nano.boost = 0 => nano'.boost = 0
         /\ In(OFF, toNano) => \/ In(OFF, toNano')
                               \/ nano'.boost = IF nano.boost # -1 THEN 0 ELSE nano.boost
         /\ \A x : In(x, toNano') => In(x, toNano)
         /\ In(ASK, toNano) => In(ASK, toNano') \/ In(Fresh, toEsp')
         /\ Len(toNano') = Len(toNano) - 1 /\ Len(toNano) \in Nat
         /\ Ordered(toEsp)' /\ toEsp' # <<>>
         /\ Statistics' = Statistics /\ Fresh' = Fresh /\ Hot' = Hot
         /\ \A x : In(x, toEsp) => In(x, toEsp')
         /\ \A x : In(x, toEsp') => In(x, toEsp) \/ x \in {Fresh, Done}
         /\ In(Over, toEsp') <=> In(Over, toEsp)
         /\ In(Statistics, toEsp') <=> In(Statistics, toEsp)
         /\ \A t : In(Report(t), toEsp') <=> In(Report(t), toEsp)
<1> DEFINE request == Head(toNano)
           m == IF request = ASK THEN Fresh ELSE Done
<1>1. /\ toNano # <<>> /\ toNano' = Tail(toNano)
      /\ request \in {ASK, Request("VERSION", 0), OFF}
      /\ UNCHANGED <<task, temperature, pc, ending, esp, setting, due, events, calm>>
      /\ nano'.boost = IF request = OFF /\ nano.boost # -1 THEN 0 ELSE nano.boost
      /\ nano'.param = nano.param /\ nano'.second = nano.second
      /\ Ordered(toEsp') /\ toEsp' # <<>>
      /\ \A x : In(x, toEsp') <=> In(x, toEsp) \/ x = m
  BY SerialRequestCalm
<1>2. /\ Len(toNano') = Len(toNano) - 1 /\ Len(toNano) \in Nat
      /\ \A x : In(x, toNano) <=> x = request \/ In(x, toNano')
  BY <1>1, TailOK DEF TypeOK
<1>3. m \in {Fresh, Done} /\ (request = ASK => m = Fresh)
  OBVIOUS
<1> HIDE DEF request, m
<1>4. Statistics' = Statistics /\ Fresh' = Fresh /\ Hot' = Hot /\ Ordered(toEsp)'
  BY <1>1, StillOK DEF Hot
<1>5. /\ nano'.boost = -1 <=> nano.boost = -1
      /\ ~In(OFF, toNano) => nano'.boost = nano.boost
      /\ nano.boost = 0 => nano'.boost = 0
      /\ In(OFF, toNano) => \/ In(OFF, toNano')
                            \/ nano'.boost = IF nano.boost # -1 THEN 0 ELSE nano.boost
  BY <1>1, <1>2
<1>6. /\ \A x : In(x, toNano') => In(x, toNano)
      /\ In(ASK, toNano) => In(ASK, toNano') \/ In(Fresh, toEsp')
  BY <1>1, <1>2, <1>3
<1>7. /\ \A x : In(x, toEsp) => In(x, toEsp')
      /\ \A x : In(x, toEsp') => In(x, toEsp) \/ x \in {Fresh, Done}
      /\ In(Over, toEsp') <=> In(Over, toEsp)
      /\ In(Statistics, toEsp') <=> In(Statistics, toEsp)
      /\ \A t : In(Report(t), toEsp') <=> In(Report(t), toEsp)
  BY <1>1, <1>3, Distinct
<1> QED BY <1>1, <1>2, <1>4, <1>5, <1>6, <1>7

LEMMA SerialRequestKept ==
  ASSUME TypeOK, CalmInv, serialRequest
  PROVE  CalmInv'
<1>0. Quiet /\ Truthful /\ Advancing
  BY DEF CalmInv
<1>1. Quiet'
  <2>1. \A k \in DOMAIN toNano' : toNano'[k] \in {ASK, Request("VERSION", 0), OFF}
    <3>1. \A x : In(x, toNano) => x \in {ASK, Request("VERSION", 0), OFF}
      BY <1>0, EachElement DEF Quiet
    <3> QED BY <1>0, <3>1, SerialRequestFacts, EachElement
  <2>2. "nano" \in due => \A k \in DOMAIN toEsp' : toEsp'[k] \in {Fresh, Done}
    <3>1. "nano" \in due => \A x : In(x, toEsp) => x \in {Fresh, Done}
      BY <1>0, EachElement DEF Quiet
    <3> QED BY <1>0, <3>1, SerialRequestFacts, EachElement
  <2>3. In(OFF, toNano') => "nano" \notin due /\ Hot
    BY <1>0, SerialRequestFacts DEF Quiet
  <2>4. Free' /\ pc' # "boot" /\ Ordered(toEsp)'
    BY <1>0, SerialRequestFacts DEF Quiet, Free
  <2> QED BY <1>0, <2>1, <2>2, <2>3, <2>4, SerialRequestFacts DEF Quiet
<1>2. Truthful'
  BY <1>0, SerialRequestFacts DEF Truthful
<1>3. Advancing'
  <2>1. /\ UNCHANGED <<pc, ending, calm, due>> /\ toEsp' # <<>> /\ toNano # <<>>
    BY <1>0, SerialRequestFacts, SerialRequestCalm
  <2>2. Pending' /\ Pending
    BY <2>1 DEF Pending
  <2> QED BY <1>0, <2>1, <2>2 DEF Advancing, Loop
<1>4. ASSUME Loop' PROVE Room' /\ Refreshing'
  <2>1. Room /\ Refreshing
    BY <1>0, <1>4, SerialRequestFacts DEF CalmInv, Loop
  <2>2. Room'
    <3>1. /\ Len(toNano') = Len(toNano) - 1 /\ Len(toNano) \in Nat
          /\ esp' = esp /\ due' = due /\ calm' = calm
      BY <1>0, SerialRequestFacts
    <3>2. Reporting' <=> Reporting
      BY <1>0, SerialRequestFacts DEF Reporting
    <3>3. One(Reporting)' = One(Reporting) /\ One(Reporting) \in {0, 1}
      BY <3>2 DEF One
    <3>4. One("esp" \in due)' = One("esp" \in due) /\ One("esp" \in due) \in {0, 1}
      BY <3>1 DEF One
    <3> QED BY <2>1, <3>1, <3>3, <3>4 DEF Room
  <2>3. MayLose' <=> MayLose
    BY <1>0, SerialRequestFacts DEF MayLose
  <2>4. Coming => Coming'
    BY <1>0, SerialRequestFacts DEF Coming
  <2>5. Origin' = Origin /\ Ask' = Ask /\ AskAgain' = AskAgain
    BY <1>0, SerialRequestFacts DEF Origin, Ask, AskAgain, One
  <2>6. nano'.param = nano.param /\ esp' = esp /\ due' = due
    BY <1>0, SerialRequestFacts
  <2> QED BY <2>1, <2>2, <2>3, <2>4, <2>5, <2>6 DEF Refreshing
<1> QED BY <1>1, <1>2, <1>3, <1>4 DEF CalmInv

LEMMA SerialRequestBoost ==
  ASSUME TypeOK, CalmInv, BoostInv, serialRequest
  PROVE  BoostInv'
<1> USE Sizes
<1> SUFFICES ASSUME calm' > SETUP PROVE BoostInv'
  BY DEF BoostInv
<1>0. Quiet /\ calm > SETUP /\ calm' = calm
  BY SerialRequestFacts DEF CalmInv
<1>1. /\ due' = due /\ esp' = esp /\ Hot' = Hot /\ nano'.second = nano.second
      /\ nano'.boost = -1 <=> nano.boost = -1
      /\ ~In(OFF, toNano) => nano'.boost = nano.boost
      /\ nano.boost = 0 => nano'.boost = 0
      /\ In(OFF, toNano) => \/ In(OFF, toNano')
                            \/ nano'.boost = IF nano.boost # -1 THEN 0 ELSE nano.boost
      /\ In(OFF, toNano) => "nano" \notin due
  BY <1>0, SerialRequestFacts DEF Quiet
<1>2. /\ Told' <=> Told
      /\ In(Over, toEsp)' <=> In(Over, toEsp)
      /\ In(Statistics, toEsp)' <=> In(Statistics, toEsp)
      /\ In(Report(-1), toEsp)' <=> In(Report(-1), toEsp)
  BY <1>0, SerialRequestFacts DEF Told
<1>3. NoReportYet' <=> NoReportYet
  BY <1>0, <1>1 DEF NoReportYet
<1>4. Cold => Cold'
  BY <1>1, <1>2, <1>3 DEF Cold
<1>5. Heated => Heated'
  <2>1. SaysOn' <=> SaysOn
    BY <1>1, <1>2 DEF SaysOn
  <2>2. Stopping => Stopping'
    BY <1>1, <1>2 DEF Stopping
  <2>3. Stopped => Stopped'
    BY <1>1, <1>2 DEF Stopped
  <2> QED BY <1>0, <1>1, <1>3, <2>1, <2>2, <2>3 DEF Heated
<1> QED BY <1>0, <1>1, <1>4, <1>5 DEF BoostInv

\* What is asked when the water is too hot has room, from the third second on.
LEMMA SerialProcessFacts ==
  ASSUME TypeOK, CalmInv, Loop, serialProcess
  PROVE  LET m == toEsp[1] IN
         /\ toEsp # <<>> /\ In(m, toEsp) /\ m \in {Fresh, Done, Statistics, Over} \cup Reports
         /\ UNCHANGED <<nano, task, temperature, pc, setting, due, events, calm>>
         /\ esp'.counter = esp.counter /\ esp'.read = esp.read
         /\ esp'.param = IF m = Fresh THEN nano.param ELSE esp.param
         /\ esp'.boost = IF m = Statistics /\ Hot /\ esp.boost > 0 THEN -1
                         ELSE IF m \in Reports \cup {Over} THEN m.arg ELSE esp.boost
         /\ m = Statistics => "nano" \notin due
         /\ \A x : In(x, toNano) => In(x, toNano')
         /\ \A x : In(x, toNano') => In(x, toNano) \/ (x = OFF /\ Hot /\ m = Statistics)
         /\ Len(toNano) \in Nat
         /\ m # Statistics => Len(toNano') = Len(toNano)
         /\ Len(toNano') \in {Len(toNano), Len(toNano) + 1}
         /\ m = Statistics /\ Hot /\ esp.boost > 0 /\ calm > 2 => In(OFF, toNano')
         /\ Ordered(toEsp)'
         /\ Statistics' = Statistics /\ Fresh' = Fresh /\ Hot' = Hot
         /\ \A x : In(x, toEsp') => In(x, toEsp)
         /\ \A x : In(x, toEsp) /\ x # m => In(x, toEsp') \/ (m = Over /\ x \in {Fresh, Done})
         /\ m = Statistics => ~In(Statistics, toEsp')
         /\ m \in Reports => \A x \in Reports \cup {Statistics} : ~In(x, toEsp')
         /\ m = Over => \A x \in Reports \cup {Statistics, Over} : ~In(x, toEsp')
<1> DEFINE m == toEsp[1]
           hot == m = Statistics /\ Hot /\ esp.boost > 0
<1>0. Quiet /\ Room
  BY DEF CalmInv
<1>1. /\ toEsp # <<>> /\ In(m, toEsp) /\ m \in {Fresh, Done, Statistics, Over} \cup Reports
      /\ UNCHANGED <<nano, task, temperature, pc, setting, due, events, calm>>
      /\ esp'.counter = esp.counter /\ esp'.read = esp.read
      /\ esp'.param = IF m = Fresh THEN nano.param ELSE esp.param
      /\ esp'.boost = IF hot THEN -1 ELSE IF m \in Reports \cup {Over} THEN m.arg ELSE esp.boost
      /\ toNano' = IF hot THEN Sent(<<OFF>>) ELSE toNano
      /\ Ordered(toEsp')
      /\ \A x : In(x, toEsp') => In(x, toEsp)
      /\ \A x : In(x, toEsp) /\ x # m => In(x, toEsp') \/ (m = Over /\ x \in {Fresh, Done})
      /\ m = Statistics => ~In(Statistics, toEsp')
      /\ m \in Reports => \A x \in Reports \cup {Statistics} : ~In(x, toEsp')
      /\ m = Over => \A x \in Reports \cup {Statistics, Over} : ~In(x, toEsp')
  BY <1>0, SerialProcessCalm
<1> HIDE DEF m
<1>2. Statistics' = Statistics /\ Fresh' = Fresh /\ Hot' = Hot /\ Ordered(toEsp)'
  BY <1>1, StillOK DEF Hot
<1>3. m = Statistics => "nano" \notin due
  <2>1. "nano" \in due => \A x : In(x, toEsp) => x \in {Fresh, Done}
    BY <1>0, EachElement DEF Quiet
  <2> QED BY <1>1, <2>1, Distinct
<1>4. /\ <<OFF>> \in Seq(RequestTypes) /\ Len(<<OFF>>) = 1 /\ Len(<<OFF>>) <= 2
      /\ \A x : In(x, <<OFF>>) <=> x = OFF
  <2>1. /\ <<OFF>> \in Seq(RequestTypes) /\ Len(<<OFF>>) = 1
        /\ \A x : In(x, <<OFF>>) <=> x = OFF
    BY CommandsOK, OneOK
  <2> QED BY <2>1
<1>5. toNano \in Seq(RequestTypes) /\ Len(toNano) <= QUEUE /\ Len(toNano) \in Nat
  BY DEF TypeOK
<1>6. /\ \A x : In(x, Sent(<<OFF>>)) => In(x, toNano) \/ x = OFF
      /\ \A x : In(x, toNano) => In(x, Sent(<<OFF>>))
      /\ Len(toNano) + 1 <= QUEUE => In(OFF, Sent(<<OFF>>))
  BY <1>4, <1>5, SentOK
<1>7. Len(Sent(<<OFF>>)) \in {Len(toNano), Len(toNano) + 1}
  <2>1. Len(toNano) + 1 <= QUEUE => Len(Sent(<<OFF>>)) = Len(toNano) + 1
    BY <1>4, <1>5, SentOK
  <2>2. ~(Len(toNano) + 1 <= QUEUE) => Sent(<<OFF>>) = toNano
    BY <1>4 DEF Sent
  <2> QED BY <2>1, <2>2
<1>8. m = Statistics /\ calm > 2 => Len(toNano) + 1 <= QUEUE
  <2>1. ASSUME m = Statistics, calm > 2 PROVE Len(toNano) <= 1
    <3>1. Reporting
      BY <1>1, <2>1 DEF Reporting
    <3>2. One(Reporting) = 1 /\ One("esp" \in due) \in {0, 1}
      BY <3>1 DEF One
    <3> QED BY <1>0, <1>5, <2>1, <3>2 DEF Room
  <2> QED BY <1>5, <2>1, Sizes
<1>9. /\ \A x : In(x, toNano) => In(x, toNano')
      /\ \A x : In(x, toNano') => In(x, toNano) \/ (x = OFF /\ Hot /\ m = Statistics)
      /\ m # Statistics => Len(toNano') = Len(toNano)
      /\ Len(toNano') \in {Len(toNano), Len(toNano) + 1}
      /\ hot /\ calm > 2 => In(OFF, toNano')
  BY <1>1, <1>6, <1>7, <1>8
<1> QED BY <1>1, <1>2, <1>3, <1>5, <1>9 DEF m

LEMMA SerialProcessKept ==
  ASSUME TypeOK, CalmInv, Loop, serialProcess
  PROVE  CalmInv'
<1> DEFINE m == toEsp[1]
<1>0. Quiet /\ Truthful /\ Room /\ Refreshing
  BY DEF CalmInv
<1>1. /\ UNCHANGED <<nano, task, temperature, pc, setting, due, events, calm>>
      /\ m \in {Fresh, Done, Statistics, Over} \cup Reports /\ In(m, toEsp)
      /\ Statistics' = Statistics /\ Fresh' = Fresh /\ Hot' = Hot
      /\ \A x : In(x, toEsp') => In(x, toEsp)
      /\ \A x : In(x, toEsp) /\ x # m => In(x, toEsp') \/ (m = Over /\ x \in {Fresh, Done})
      /\ m = Statistics => ~In(Statistics, toEsp')
      /\ m = Over => \A x \in Reports \cup {Statistics, Over} : ~In(x, toEsp')
      /\ m = Statistics => "nano" \notin due
      /\ \A x : In(x, toNano) => In(x, toNano')
      /\ \A x : In(x, toNano') => In(x, toNano) \/ (x = OFF /\ Hot /\ m = Statistics)
  BY SerialProcessFacts
<1>2. Quiet'
  <2>1. \A k \in DOMAIN toNano' : toNano'[k] \in {ASK, Request("VERSION", 0), OFF}
    <3>1. \A x : In(x, toNano) => x \in {ASK, Request("VERSION", 0), OFF}
      BY <1>0, EachElement DEF Quiet
    <3> QED BY <1>1, <3>1, EachElement
  <2>2. "nano" \in due => \A k \in DOMAIN toEsp' : toEsp'[k] \in {Fresh, Done}
    <3>1. "nano" \in due => \A x : In(x, toEsp) => x \in {Fresh, Done}
      BY <1>0, EachElement DEF Quiet
    <3> QED BY <1>1, <3>1, EachElement
  <2>3. In(OFF, toNano') => "nano" \notin due /\ Hot
    BY <1>0, <1>1 DEF Quiet
  <2>4. Free' /\ pc' # "boot" /\ Ordered(toEsp)'
    BY <1>0, <1>1, SerialProcessFacts DEF Quiet, Free
  <2> QED BY <1>1, <2>1, <2>2, <2>3, <2>4 DEF Quiet
<1> HIDE DEF m
<1>3. Truthful'
  <2>1. In(Over, toEsp') \/ In(Report(-1), toEsp') => nano'.boost = -1
    BY <1>0, <1>1 DEF Truthful
  <2>2. ASSUME NEW t \in -1 .. DURATION, In(Report(t), toEsp'), In(Over, toEsp)
        PROVE  In(Over, toEsp')
    <3>1. m # Over
      BY <1>1, <2>2, Kinds
    <3> QED BY <1>1, <2>2, <3>1, Distinct
  <2>3. -1 \in -1 .. DURATION /\ 0 \in -1 .. DURATION /\ 0 .. DURATION \subseteq -1 .. DURATION
    BY Sizes
  <2> QED BY <1>0, <1>1, <2>1, <2>2, <2>3 DEF Truthful
<1>4. Advancing'
  BY <1>1 DEF Advancing, Loop
<1>5. Room'
  <2>1. /\ Len(toNano) \in Nat
        /\ m # Statistics => Len(toNano') = Len(toNano)
        /\ Len(toNano') \in {Len(toNano), Len(toNano) + 1}
        /\ esp'.counter = esp.counter /\ esp'.read = esp.read
    BY SerialProcessFacts DEF m
  <2>2. One("esp" \in due)' = One("esp" \in due) /\ One("esp" \in due) \in {0, 1}
    BY <1>1 DEF One
  <2>3. Len(toNano') + One(Reporting)' <= Len(toNano) + One(Reporting)
    <3>1. CASE m = Statistics
      <4>1. ~Reporting' /\ Reporting
        BY <1>1, <3>1 DEF Reporting
      <4>2. One(Reporting)' = 0 /\ One(Reporting) = 1
        BY <4>1 DEF One
      <4> QED BY <2>1, <4>2
    <3>2. CASE m # Statistics
      <4>1. Reporting' => Reporting
        BY <1>1 DEF Reporting
      <4>2. One(Reporting)' <= One(Reporting)
        BY <4>1 DEF One
      <4>3. One(Reporting) \in {0, 1} /\ One(Reporting)' \in {0, 1}
        BY DEF One
      <4> QED BY <2>1, <3>2, <4>2, <4>3
    <3> QED BY <3>1, <3>2
  <2>4. Len(toNano') \in Nat /\ One(Reporting) \in {0, 1} /\ One(Reporting)' \in {0, 1}
    BY <2>1 DEF One
  <2> QED BY <1>0, <1>1, <2>1, <2>2, <2>3, <2>4 DEF Room
<1>6. Refreshing'
  <2>1. esp'.counter = esp.counter /\ esp'.read = esp.read
    BY SerialProcessFacts
  <2>2. Origin' = Origin /\ Ask' = Ask /\ AskAgain' = AskAgain
    BY <1>1, <2>1 DEF Origin, Ask, AskAgain, One
  <2>3. CASE m = Fresh
    <3>1. esp'.param = nano'.param
      BY <1>1, <2>3, SerialProcessFacts DEF m
    <3> QED BY <3>1 DEF Refreshing
  <2>4. CASE m # Fresh
    <3>1. esp'.param = esp.param
      BY <2>4, SerialProcessFacts DEF m
    <3>2. MayLose' => MayLose
      BY <1>1 DEF MayLose
    <3>3. Coming => Coming' \/ m = Over
      BY <1>1, <2>4 DEF Coming
    <3>4. m = Over => MayLose /\ ~MayLose'
      BY <1>0, <1>1 DEF MayLose, Truthful
    <3> QED BY <1>0, <1>1, <2>2, <3>1, <3>2, <3>3, <3>4 DEF Refreshing
  <2> QED BY <2>3, <2>4
<1> QED BY <1>2, <1>3, <1>4, <1>5, <1>6 DEF CalmInv

LEMMA SerialProcessBoost ==
  ASSUME TypeOK, CalmInv, BoostInv, Loop, serialProcess
  PROVE  BoostInv'
<1> USE Sizes
<1> DEFINE m == toEsp[1]
<1> SUFFICES ASSUME calm' > SETUP PROVE BoostInv'
  BY DEF BoostInv
<1>0. Quiet /\ Truthful
  BY DEF CalmInv
<1>1. /\ UNCHANGED <<nano, task, temperature, pc, setting, due, events, calm>>
      /\ m \in {Fresh, Done, Statistics, Over} \cup Reports /\ In(m, toEsp)
      /\ esp'.boost = IF m = Statistics /\ Hot /\ esp.boost > 0 THEN -1
                      ELSE IF m \in Reports \cup {Over} THEN m.arg ELSE esp.boost
      /\ Statistics' = Statistics /\ Hot' = Hot
      /\ \A x : In(x, toEsp') => In(x, toEsp)
      /\ \A x : In(x, toEsp) /\ x # m => In(x, toEsp') \/ (m = Over /\ x \in {Fresh, Done})
      /\ m = Statistics => "nano" \notin due /\ ~In(Statistics, toEsp')
      /\ m \in Reports => \A x \in Reports \cup {Statistics} : ~In(x, toEsp')
      /\ m = Over => \A x \in Reports \cup {Statistics, Over} : ~In(x, toEsp')
      /\ \A x : In(x, toNano) => In(x, toNano')
      /\ m = Statistics /\ Hot /\ esp.boost > 0 /\ calm > 2 => In(OFF, toNano')
  BY SerialProcessFacts
<1>2. "nano" \in due => m \in {Fresh, Done}
  <2>1. "nano" \in due => \A x : In(x, toEsp) => x \in {Fresh, Done}
    BY <1>0, EachElement DEF Quiet
  <2> QED BY <1>1, <2>1
<1>3. esp.boost \in -1 .. DURATION /\ nano.boost \in -1 .. DURATION /\ calm \in Nat
  BY DEF TypeOK
<1> HIDE DEF m
<1>4. NoReportYet' <=> NoReportYet
  BY <1>1 DEF NoReportYet
<1>5. CASE m \in {Fresh, Done}
  <2>1. /\ esp'.boost = esp.boost
        /\ In(Over, toEsp') <=> In(Over, toEsp)
        /\ In(Statistics, toEsp') <=> In(Statistics, toEsp)
        /\ \A t : In(Report(t), toEsp') <=> In(Report(t), toEsp)
    BY <1>1, <1>5, Distinct
  <2>2. Told' <=> Told
    BY <2>1 DEF Told
  <2>3. Cold => Cold'
    BY <1>1, <1>4, <2>1, <2>2 DEF Cold
  <2>4. SaysOn' <=> SaysOn
    BY <1>1, <2>1, <2>2 DEF SaysOn
  <2>5. Stopping => Stopping'
    BY <1>1, <2>1 DEF Stopping
  <2>6. Stopped => Stopped'
    BY <1>1, <2>1, <2>2 DEF Stopped
  <2> QED BY <1>1, <1>4, <2>1, <2>3, <2>4, <2>5, <2>6 DEF BoostInv, Heated
<1>6. CASE m = Statistics
  <2>1. /\ "nano" \notin due /\ ~In(Statistics, toEsp')
        /\ In(Over, toEsp') <=> In(Over, toEsp)
        /\ \A t : In(Report(t), toEsp') <=> In(Report(t), toEsp)
    BY <1>1, <1>6, Distinct
  <2>2. Told' <=> Told
    BY <2>1 DEF Told
  <2>3. ASSUME ~Hot, Cold PROVE Cold'
    <3>1. esp'.boost = esp.boost
      BY <1>1, <1>6, <2>3, Distinct
    <3> QED BY <1>1, <1>4, <2>2, <2>3, <3>1 DEF Cold
  <2>4. ASSUME Hot, Heated PROVE Heated'
    <3>0. calm > 2
      BY <1>1, <1>3
    <3>1. /\ esp'.boost = IF esp.boost > 0 THEN -1 ELSE esp.boost
          /\ esp.boost > 0 => In(OFF, toNano')
      <4>1. m \notin Reports \cup {Over}
        BY <1>6, Distinct
      <4> QED BY <1>1, <1>6, <2>4, <3>0, <4>1
    <3>2. SaysOn => SaysOn'
      BY <1>1, <1>6, <2>1, <2>2 DEF SaysOn
    <3>3. Stopping => Stopping'
      BY <1>1, <3>1 DEF Stopping
    <3>4. Stopped => Stopped'
      BY <1>1, <2>1, <2>2, <3>1 DEF Stopped
    <3> QED BY <1>1, <1>4, <2>1, <2>4, <3>2, <3>3, <3>4 DEF Heated
  <2> QED BY <1>1, <2>3, <2>4 DEF BoostInv
<1>7. CASE m = Over
  <2>1. /\ "nano" \notin due /\ nano.boost = -1 /\ esp'.boost = -1
        /\ ~In(Over, toEsp') /\ ~In(Statistics, toEsp')
        /\ \A t \in -1 .. DURATION : ~In(Report(t), toEsp')
    BY <1>0, <1>1, <1>2, <1>7, Kinds, Distinct DEF Truthful
  <2>2. ~Told'
    BY <2>1 DEF Told
  <2> QED BY <1>1, <2>1, <2>2 DEF BoostInv, Cold, Heated, Stopped
<1>8. CASE m \in Reports
  <2>1. PICK time \in -1 .. DURATION : m = Report(time)
    BY <1>8, Kinds
  <2>2. /\ "nano" \notin due /\ esp'.boost = time /\ In(Report(time), toEsp)
        /\ In(Over, toEsp') <=> In(Over, toEsp)
        /\ ~In(Statistics, toEsp')
        /\ \A t \in -1 .. DURATION : ~In(Report(t), toEsp')
    BY <1>1, <1>2, <1>8, <2>1, Kinds, Distinct
  <2>3. Told /\ (Told' <=> In(Over, toEsp))
    BY <2>2 DEF Told
  <2>4. /\ In(Over, toEsp) => nano.boost = -1
        /\ ~In(Over, toEsp) => (time = -1 <=> nano.boost = -1) /\ time # 0
    BY <1>0, <2>2 DEF Truthful
  <2>5. Cold'
    BY <1>1, <2>2, <2>3, <2>4 DEF Cold
  <2>6. ASSUME Heated PROVE Heated'
    <3>1. CASE NoReportYet
      BY <1>4, <3>1 DEF Heated
    <3>2. CASE calm <= REPORT + SETUP /\ SaysOn
      <4>1. ~In(Over, toEsp) /\ time # -1
        BY <2>2, <2>3, <3>2 DEF SaysOn
      <4>2. esp'.boost > 0 /\ ~Told'
        BY <2>2, <2>3, <2>4, <4>1
      <4>3. SaysOn'
        BY <1>1, <2>2, <4>2 DEF SaysOn
      <4> QED BY <1>1, <2>2, <3>2, <4>3 DEF Heated
    <3>3. ~In(Statistics, toEsp)
      BY <1>1, <1>8, <2>2, Distinct
    <3>4. CASE calm <= REPORT + SETUP + 1 /\ Stopping
      <4>1. Stopping'
        BY <1>1, <3>3, <3>4 DEF Stopping
      <4> QED BY <1>1, <2>2, <3>4, <4>1 DEF Heated
    <3>5. CASE Stopped
      <4>1. Stopped'
        <5>1. CASE In(Over, toEsp)
          BY <1>1, <2>2, <3>5, <5>1 DEF Stopped
        <5>2. CASE ~In(Over, toEsp)
          <6>1. ~Told' /\ esp'.boost = -1
            BY <2>2, <2>3, <2>4, <3>5, <5>2 DEF Stopped
          <6> QED BY <1>1, <3>5, <6>1 DEF Stopped
        <5> QED BY <5>1, <5>2
      <4> QED BY <1>1, <2>2, <4>1 DEF Heated
    <3> QED BY <2>2, <2>6, <3>1, <3>2, <3>4, <3>5 DEF Heated
  <2> QED BY <1>1, <2>5, <2>6 DEF BoostInv
<1> QED BY <1>1, <1>5, <1>6, <1>7, <1>8

\* The first two readings of a counter that starts.
LEMMA FirstReadings ==
  ASSUME esp.counter = 0
  PROVE  Ask = 2 /\ AskAgain = REFRESH + 3 /\ REFRESH >= 3
<1> USE Sizes
<1>1. REFRESH >= 3
  <2>1. REFRESH # 2
    BY ParityOK
  <2> QED BY <2>1
<1>2. Ask = 2
  BY ParityOK DEF Ask, Soon, Later
<1>3. AskAgain = Later(2)
  BY <1>1, <1>2 DEF AskAgain, After
<1>4. Later(2) = REFRESH + 3
  BY <1>1 DEF Later
<1> QED BY <1>1, <1>2, <1>3, <1>4

\* The setup reads a message and asks the next one.
LEMMA SetupProcessKept ==
  ASSUME TypeOK, Counting, CalmInv, calm > 0, ~Loop, serialProcess
  PROVE  CalmInv' /\ BoostInv'
<1> USE Sizes
<1> DEFINE m == toEsp[1]
           off == IF TooHot(m) THEN <<OFF>> ELSE <<>>
           more == off \o Asks(pc')
<1>0. Quiet /\ Advancing
  BY DEF CalmInv
<1>1. /\ m \in MessageTypes /\ toEsp # <<>>
      /\ esp'.counter = esp.counter /\ esp'.read = esp.read
      /\ UNCHANGED <<nano, task, temperature, setting, due, events, calm>>
      /\ pc \in {"contact", "param", "version", "stats"} /\ Takes(pc')
      /\ pc' = NextPhase(pc, m)
      /\ toNano' = Sent(more)
      /\ toEsp' = <<>>
  <2>1. esp'.counter = esp.counter /\ esp'.read = esp.read
    <3>1. esp \in [boost : -1 .. DURATION, temp : {-1, 0, 1}, param : Params \cup {Unknown},
                   read : BOOLEAN, counter : 0 .. 2 * REFRESH - 1]
      BY DEF TypeOK
    <3> QED BY <3>1, ReceivedOK
  <2> QED BY <2>1, ReceivedOK
<1>2. /\ pc = "contact" => pc' = "param"
      /\ pc = "param" => pc' = "version"
      /\ pc = "version" => pc' = "stats"
      /\ pc = "stats" => pc' = "ending"
  BY <1>1, PhaseOK
<1>3. TooHot(m) => "nano" \notin due /\ Hot
  <2>1. m \in {Fresh, Done, Statistics, Over} \cup Reports /\ 1 \in DOMAIN toEsp
    BY <1>0, <1>1 DEF Quiet, Ordered, TypeOK
  <2>2. m.kind = "STATS" => m = Statistics
    BY <2>1, Kinds
  <2>3. ASSUME TooHot(m) PROVE "nano" \notin due /\ Hot
    <3>1. m = Statistics /\ m.arg = temperature
      BY <2>2, <2>3, Kinds DEF TooHot
    <3>2. "nano" \notin due
      BY <1>0, <2>1, <3>1, Distinct DEF Quiet
    <3> QED BY <2>3, <3>1, <3>2 DEF TooHot, Hot, TypeOK
  <2> QED BY <2>3
<1>4. /\ off \in Seq(RequestTypes) /\ Len(off) <= 1
      /\ \A x : In(x, off) => x = OFF /\ TooHot(m)
  <2>1. CASE TooHot(m)
    BY <2>1, CommandsOK, OneOK
  <2>2. CASE ~TooHot(m)
    <3>1. <<>> \in Seq(RequestTypes) /\ Len(<<>>) <= 1 /\ \A x : ~In(x, <<>>)
      BY EmptyBox
    <3> QED BY <2>2, <3>1
  <2> QED BY <2>1, <2>2
<1>5. /\ Asks(pc') \in Seq(RequestTypes) /\ Len(Asks(pc')) <= 1
      /\ \A x : In(x, Asks(pc')) => x \in {ASK, Request("VERSION", 0)}
      /\ pc' \in {"param", "version"} => Asks(pc') # <<>>
  BY CommandsOK, OneOK DEF Asks, ASK
<1>6. toNano \in Seq(RequestTypes) /\ Len(toNano) <= QUEUE
  BY DEF TypeOK
<1> HIDE DEF off, m
<1>7. /\ more \in Seq(RequestTypes) /\ Len(more) <= 2
      /\ \A x : In(x, more) <=> In(x, off) \/ In(x, Asks(pc'))
      /\ Asks(pc') # <<>> => more # <<>>
  BY <1>4, <1>5, ConcatOK
<1> HIDE DEF more
<1>8. /\ \A x : In(x, toNano') => \/ In(x, toNano) \/ x \in {ASK, Request("VERSION", 0)}
                                  \/ (x = OFF /\ TooHot(m))
      /\ pc' \in {"param", "version"} => toNano' # <<>>
  BY <1>1, <1>4, <1>5, <1>6, <1>7, SentOK
<1>9. /\ \A x : ~In(x, toEsp')
      /\ Ordered(toEsp') /\ \A S : \A k \in DOMAIN toEsp' : toEsp'[k] \in S
  BY <1>1, EmptyBox
<1>10. Quiet'
  <2>1. \A k \in DOMAIN toNano' : toNano'[k] \in {ASK, Request("VERSION", 0), OFF}
    <3>1. \A x : In(x, toNano) => x \in {ASK, Request("VERSION", 0), OFF}
      BY <1>0, EachElement DEF Quiet
    <3> QED BY <1>8, <3>1, EachElement
  <2>2. In(OFF, toNano') => "nano" \notin due /\ Hot
    BY <1>0, <1>3, <1>8, CommandsOK DEF Quiet
  <2>3. Free' /\ pc' # "boot" /\ Ordered(toEsp)'
    BY <1>0, <1>1, <1>2, <1>9, StillOK DEF Quiet, Free
  <2> QED BY <1>1, <1>9, <2>1, <2>2, <2>3 DEF Quiet, Hot
<1>11. Truthful'
  BY <1>9 DEF Truthful
<1>12. calm \in Nat /\ calm <= 2 /\ pc' # "loop"
  BY <1>0, <1>1, <1>2 DEF Advancing, TypeOK
<1>13. Advancing'
  <2>1. pc' = "ending" => ending' \in 0 .. ENDING
    BY <1>1 DEF Takes
  <2>2. pc' = "ending" => calm + ending' <= SETUP
    BY <1>12, <2>1
  <2>3. pc' \in {"param", "version"} => calm = 1 /\ Pending'
    BY <1>0, <1>1, <1>2, <1>8 DEF Advancing, Pending
  <2>4. pc' = "stats" => calm = 1
    BY <1>0, <1>1, <1>2 DEF Advancing
  <2>5. "esp" \in due' /\ calm' = calm
    BY <1>0, <1>1 DEF Advancing
  <2>6. pc' \in {"param", "version", "stats", "ending"}
    BY <1>1, <1>2
  <2> QED BY <1>12, <2>2, <2>3, <2>4, <2>5, <2>6 DEF Advancing, Loop
<1>14. CalmInv'
  BY <1>10, <1>11, <1>12, <1>13 DEF CalmInv, Loop
<1>15. BoostInv'
  BY <1>1, <1>12 DEF BoostInv
<1> QED BY <1>14, <1>15

\* Setup ends, and the loop begins with an empty line.
LEMMA SetupDoneKept ==
  ASSUME TypeOK, Counting, CalmInv, calm > 0, SetupDone
  PROVE  CalmInv' /\ BoostInv'
<1> USE Sizes
<1>0. Quiet /\ Advancing /\ pc = "ending" /\ esp.counter = 0
  BY DEF CalmInv, Counting, SetupDone, Loop
<1>1. /\ pc' = "loop" /\ toEsp' = <<>>
      /\ UNCHANGED <<nano, task, temperature, toNano, esp, setting, due, events, calm>>
  BY DEF SetupDone, NoEvent
<1>2. calm \in Nat /\ calm <= SETUP /\ (calm > 2 => Len(toNano) = 0) /\ "esp" \in due
  <2>1. ending = 0 /\ calm + ending <= SETUP /\ (calm > 2 => toNano = <<>>) /\ "esp" \in due
    BY <1>0 DEF Advancing, SetupDone, Loop
  <2>2. toNano = <<>> => Len(toNano) = 0
    OBVIOUS
  <2> QED BY <2>1, <2>2 DEF TypeOK
<1>3. /\ \A x : ~In(x, toEsp')
      /\ Ordered(toEsp') /\ \A S : \A k \in DOMAIN toEsp' : toEsp'[k] \in S
  BY <1>1, EmptyBox
<1>4. Ordered(toEsp)' /\ Hot' = Hot
  BY <1>1, <1>3, StillOK DEF Hot
<1>5. Quiet'
  BY <1>0, <1>1, <1>3, <1>4 DEF Quiet, Free
<1>6. Truthful'
  BY <1>3 DEF Truthful
<1>7. Advancing'
  BY <1>1 DEF Advancing, Loop
<1>8. Room'
  <2>1. One(Reporting)' \in {0, 1} /\ One("esp" \in due)' \in {0, 1}
    BY DEF One
  <2>2. calm' > 2 => Len(toNano') = 0
    BY <1>1, <1>2
  <2> QED BY <1>0, <1>1, <2>1, <2>2 DEF Room
<1>9. Refreshing'
  <2>1. Ask' = 2 /\ AskAgain' = REFRESH + 3 /\ REFRESH >= 3
    <3>1. Ask = 2 /\ AskAgain = REFRESH + 3 /\ REFRESH >= 3
      BY <1>0, FirstReadings
    <3>2. Ask' = Ask /\ AskAgain' = AskAgain
      BY <1>1 DEF Ask, AskAgain
    <3> QED BY <3>1, <3>2
  <2>2. Origin' = calm - 1
    <3>1. One("esp" \in due)' = 1
      BY <1>1, <1>2 DEF One
    <3>2. Origin' = (calm - 0) - 1
      BY <1>0, <1>1, <3>1 DEF Origin
    <3> QED BY <1>2, <3>2
  <2>3. Origin' + AskAgain' <= CYCLE + SETUP - 1
    BY <1>2, <2>1, <2>2
  <2> QED BY <2>3 DEF Refreshing
<1>10. BoostInv'
  BY <1>1, <1>2 DEF BoostInv
<1> QED BY <1>5, <1>6, <1>7, <1>8, <1>9, <1>10 DEF CalmInv

\* A second later the next readings are the same, or the first of them is now.
LEMMA ReadingsOK ==
  ASSUME NEW c \in 0 .. CYCLE - 1, NEW read \in BOOLEAN, c \in {1, REFRESH + 1} => read
  PROVE  LET back == IF c = CYCLE - 1 THEN CYCLE ELSE 0
             d == (c + 1) - back
             reads == d % 2 = 0 /\ read
             again == (read /\ ~reads) \/ d = 1 \/ d = REFRESH + 1
             first == IF read THEN Soon(c) ELSE Later(c)
             next == IF again THEN Soon(d) ELSE Later(d)
         IN /\ ~reads => next = first - back /\ After(next) = After(first) - back
            /\ reads => next = After(first) - back
<1> USE Sizes
<1> DEFINE back == IF c = CYCLE - 1 THEN CYCLE ELSE 0
           d == (c + 1) - back
           reads == d % 2 = 0 /\ read
           again == (read /\ ~reads) \/ d = 1 \/ d = REFRESH + 1
           first == IF read THEN Soon(c) ELSE Later(c)
           next == IF again THEN Soon(d) ELSE Later(d)
<1>1. REFRESH >= 3 /\ CYCLE \in Nat
  <2>1. REFRESH # 2
    BY ParityOK
  <2> QED BY <2>1
<1>2. /\ c % 2 \in {0, 1} /\ d % 2 = 1 - (c % 2)
      /\ c = CYCLE - 1 => c % 2 = 1
      /\ c = 0 => c % 2 = 0
      /\ d = 1 => d % 2 = 1 /\ c = 0
      /\ d = REFRESH + 1 => d % 2 = 0 /\ c = REFRESH
  <2>1. CASE c = CYCLE - 1
    <3>1. d = 0 /\ back = CYCLE
      BY <1>1, <2>1
    <3> QED BY <1>1, <2>1, <3>1, ParityOK
  <2>2. CASE c # CYCLE - 1
    <3>1. d = c + 1 /\ back = 0
      BY <1>1, <2>2
    <3> QED BY <1>1, <2>2, <3>1, ParityOK
  <2> QED BY <2>1, <2>2
<1>3. d \in 0 .. CYCLE - 1 /\ (c = CYCLE - 1 => d = 0 /\ back = CYCLE)
      /\ (c # CYCLE - 1 => d = c + 1 /\ back = 0)
  BY <1>1
<1>4. /\ Later(0) = 2 /\ Later(2) = REFRESH + 3
      /\ c \in 1 .. REFRESH => Later(c) = REFRESH + 3
      /\ c > REFRESH => Later(c) = CYCLE + 2
      /\ d \in 1 .. REFRESH => Later(d) = REFRESH + 3
      /\ d > REFRESH => Later(d) = CYCLE + 2
      /\ Soon(c) = c + 2 - (c % 2) /\ Soon(d) = d + 2 - (d % 2)
  BY <1>1, <1>3 DEF Later, Soon
<1>5. /\ After(2) = REFRESH + 3 /\ After(CYCLE + 2) = CYCLE + (REFRESH + 3)
      /\ After(CYCLE) = CYCLE + 2
      /\ \A n \in 0 .. CYCLE - 1 : After(n) = IF n = REFRESH + 1 THEN Soon(n) ELSE Later(n)
  BY <1>1, <1>4 DEF After
<1> HIDE DEF d, back
<1>6. ASSUME ~reads
      PROVE  next = first - back
  <2>1. CASE read
    <3>1. d % 2 = 1 /\ c % 2 = 0 /\ again
      BY <1>2, <1>6, <2>1
    <3> QED BY <1>2, <1>3, <1>4, <2>1, <3>1
  <2>2. CASE ~read /\ d = 1
    BY <1>2, <1>3, <1>4, <2>2
  <2>3. CASE ~read /\ d = REFRESH + 1
    <3>1. c = REFRESH /\ d % 2 = 0 /\ c \in 1 .. REFRESH
      BY <1>1, <1>2, <2>3
    <3> QED BY <1>1, <1>3, <1>4, <2>3, <3>1
  <2>4. CASE ~read /\ d # 1 /\ d # REFRESH + 1
    <3>1. CASE c = CYCLE - 1
      BY <1>1, <1>3, <1>4, <2>4, <3>1
    <3>2. CASE c # CYCLE - 1
      BY <1>1, <1>3, <1>4, <2>4, <3>2
    <3> QED BY <3>1, <3>2
  <2> QED BY <2>1, <2>2, <2>3, <2>4
<1>7. ASSUME ~reads
      PROVE  After(next) = After(first) - back
  <2>1. CASE c = CYCLE - 1
    <3>1. ~read /\ back = CYCLE
      BY <1>2, <1>3, <1>7, <2>1
    <3>2. first = CYCLE + 2
      BY <1>1, <1>4, <2>1, <3>1
    <3>3. next = 2
      BY <1>1, <1>6, <1>7, <3>1, <3>2
    <3> HIDE DEF next, first
    <3> QED BY <1>1, <1>5, <3>1, <3>2, <3>3
  <2>2. CASE c # CYCLE - 1
    <3>1. back = 0 /\ first \in Int
      BY <1>1, <1>2, <1>3, <1>4, <2>2
    <3>2. next = first
      BY <1>6, <1>7, <3>1
    <3> HIDE DEF next, first
    <3>3. After(first) \in Int
      BY <1>1, <3>1 DEF After, Soon, Later
    <3> QED BY <3>1, <3>2, <3>3
  <2> QED BY <2>1, <2>2
<1>8. ASSUME reads
      PROVE  next = After(first) - back
  <2>1. c % 2 = 1 /\ first = c + 1
    BY <1>2, <1>4, <1>8
  <2>2. CASE c = CYCLE - 1
    <3>1. ~again /\ d = 0 /\ back = CYCLE /\ first = CYCLE
      BY <1>1, <1>3, <1>8, <2>1, <2>2
    <3>2. next = 2
      BY <1>4, <3>1
    <3> HIDE DEF next, first
    <3> QED BY <1>1, <1>5, <3>1, <3>2
  <2>3. CASE c # CYCLE - 1
    <3>1. first = d /\ back = 0 /\ (again <=> d = REFRESH + 1)
      BY <1>2, <1>3, <1>8, <2>1, <2>3
    <3>2. next = IF d = REFRESH + 1 THEN Soon(d) ELSE Later(d)
      BY <3>1
    <3>3. After(first) = next /\ next \in Int
      <4>1. After(d) = IF d = REFRESH + 1 THEN Soon(d) ELSE Later(d)
        BY <1>3, <1>5
      <4>2. Soon(d) \in Int /\ Later(d) \in Int
        BY <1>1, <1>3 DEF Soon, Later
      <4> HIDE DEF next, first
      <4> QED BY <3>1, <3>2, <4>1, <4>2
    <3> HIDE DEF next, first
    <3> QED BY <3>1, <3>3
  <2> QED BY <2>2, <2>3
<1> QED BY <1>6, <1>7, <1>8 DEF d, back

LEMMA EachSecondFacts ==
  ASSUME TypeOK, Counting, CalmInv, eachSecondTasks
  PROVE  /\ "esp" \in due /\ due' = due \ {"esp"} /\ Loop
         /\ UNCHANGED <<nano, task, temperature, toEsp, pc, ending, setting, events, calm>>
         /\ esp'.boost = esp.boost /\ esp'.param = esp.param
         /\ \A x : In(x, toNano) => In(x, toNano')
         /\ \A x : In(x, toNano') => In(x, toNano) \/ x = ASK
         /\ \E back \in {0, CYCLE}, asks \in {0, 1} :
              /\ esp'.counter = (esp.counter + 1) - back
              /\ Len(toNano') = Len(toNano) + asks
              /\ asks = 0 => Ask' = Ask - back /\ AskAgain' = AskAgain - back
              /\ asks = 1 => /\ Ask' = AskAgain - back
                             /\ In(ASK, toNano') /\ Len(toNano) + One(Reporting) <= 1
<1> USE Sizes
<1> DEFINE counter == (esp.counter + 1) % (2 * REFRESH)
           back == IF esp.counter = CYCLE - 1 THEN CYCLE ELSE 0
           d == (esp.counter + 1) - back
           reads == counter % 2 = 0 /\ esp.read
           again == (esp.read /\ ~reads) \/ AsksAgain(counter)
<1>0. Room
  BY DEF CalmInv, eachSecondTasks
<1>1. /\ "esp" \in due /\ due' = due \ {"esp"} /\ Loop
      /\ UNCHANGED <<nano, task, temperature, toEsp, pc, ending, setting, events, calm>>
      /\ toNano' = IF reads THEN Sent(<<ASK>>) ELSE toNano
      /\ esp' = [esp EXCEPT !.counter = counter, !.read = again]
  BY DEF eachSecondTasks, NoEvent, ASK
<1>2. esp.counter \in 0 .. CYCLE - 1 /\ esp.read \in BOOLEAN
  BY DEF TypeOK
<1>3. counter = d /\ counter \in 0 .. CYCLE - 1
  <2>1. counter = IF esp.counter = CYCLE - 1 THEN 0 ELSE esp.counter + 1
    BY <1>2, CycleOK
  <2> HIDE DEF counter
  <2> QED BY <1>2, <2>1
<1>4. AsksAgain(counter) <=> d = 1 \/ d = REFRESH + 1
  <2> HIDE DEF counter, d
  <2> QED BY <1>3, CycleOK
<1> HIDE DEF counter
<1>5. again \in BOOLEAN
  BY Zenon
<1> HIDE DEF again, reads
<1>6. /\ esp'.boost = esp.boost /\ esp'.param = esp.param
      /\ esp'.counter = counter /\ esp'.read = again
  BY <1>1 DEF TypeOK
<1> USE DEF again, reads
<1>7. /\ ~reads => Ask' = Ask - back /\ AskAgain' = AskAgain - back
      /\ reads => Ask' = AskAgain - back
  <2> DEFINE first == IF esp.read THEN Soon(esp.counter) ELSE Later(esp.counter)
             next == IF again THEN Soon(d) ELSE Later(d)
  <2>1. /\ ~reads => next = first - back /\ After(next) = After(first) - back
        /\ reads => next = After(first) - back
    BY <1>2, <1>3, <1>4, ReadingsOK DEF Counting
  <2>2. Ask = first /\ AskAgain = After(first)
    BY DEF Ask, AskAgain
  <2>3. Ask' = next
    <3> HIDE DEF again
    <3>1. Ask' = IF esp'.read THEN Soon(esp'.counter) ELSE Later(esp'.counter)
      BY DEF Ask
    <3> HIDE DEF d
    <3> QED BY <1>3, <1>6, <3>1
  <2>4. AskAgain' = After(Ask')
    BY DEF AskAgain
  <2> HIDE DEF next, first, reads, back
  <2> QED BY <2>1, <2>2, <2>3, <2>4
<1>8. /\ <<ASK>> \in Seq(RequestTypes) /\ Len(<<ASK>>) = 1 /\ Len(<<ASK>>) <= 2
      /\ \A x : In(x, <<ASK>>) <=> x = ASK
  <2>1. /\ <<ASK>> \in Seq(RequestTypes) /\ Len(<<ASK>>) = 1
        /\ \A x : In(x, <<ASK>>) <=> x = ASK
    BY CommandsOK, OneOK
  <2> QED BY <2>1
<1>9. toNano \in Seq(RequestTypes) /\ Len(toNano) <= QUEUE /\ Len(toNano) \in Nat
  BY DEF TypeOK
<1>10. /\ \A x : In(x, Sent(<<ASK>>)) => In(x, toNano) \/ x = ASK
       /\ \A x : In(x, toNano) => In(x, Sent(<<ASK>>))
       /\ Len(toNano) + 1 <= QUEUE => /\ In(ASK, Sent(<<ASK>>))
                                      /\ Len(Sent(<<ASK>>)) = Len(toNano) + 1
  BY <1>8, <1>9, SentOK
<1>11. ASSUME reads PROVE Len(toNano) + One(Reporting) <= 1 /\ Len(toNano) + 1 <= QUEUE
  <2>0. esp.counter # 0
    <3>1. esp.counter = 0 => d = 1
      <4> SUFFICES ASSUME esp.counter = 0 PROVE d = 1
        OBVIOUS
      <4>1. back = 0
        BY <1>2
      <4> HIDE DEF back
      <4> QED BY <4>1
    <3>2. d % 2 = 0
      BY <1>3, <1>11
    <3> HIDE DEF d
    <3> QED BY <3>1, <3>2, ParityOK
  <2>1. Len(toNano) + One(Reporting) <= 1
    BY <1>0, <1>1, <2>0 DEF Room
  <2>2. One(Reporting) \in {0, 1}
    BY DEF One
  <2> QED BY <1>9, <2>1, <2>2
<1> HIDE DEF again, reads
<1>12. /\ \A x : In(x, toNano) => In(x, toNano')
       /\ \A x : In(x, toNano') => In(x, toNano) \/ x = ASK
       /\ reads => Len(toNano') = Len(toNano) + 1 /\ In(ASK, toNano')
       /\ ~reads => Len(toNano') = Len(toNano)
  BY <1>1, <1>9, <1>10, <1>11
<1>13. back \in {0, CYCLE}
  OBVIOUS
<1>14. esp'.counter = d
  BY <1>3, <1>6
<1> HIDE DEF back
<1>15. CASE reads
  <2>1. 1 \in {0, 1} /\ 1 # 0 /\ Len(toNano') = Len(toNano) + 1
    BY <1>12, <1>15
  <2>2. Ask' = AskAgain - back /\ In(ASK, toNano') /\ Len(toNano) + One(Reporting) <= 1
    BY <1>7, <1>11, <1>12, <1>15
  <2> QED BY <1>1, <1>6, <1>12, <1>13, <1>14, <2>1, <2>2
<1>16. CASE ~reads
  <2>1. 0 \in {0, 1} /\ 0 # 1 /\ Len(toNano') = Len(toNano) + 0
    BY <1>9, <1>12, <1>16
  <2>2. Ask' = Ask - back /\ AskAgain' = AskAgain - back
    BY <1>7, <1>16
  <2> QED BY <1>1, <1>6, <1>12, <1>13, <1>14, <2>1, <2>2
<1> QED BY <1>15, <1>16

LEMMA EachSecondKept ==
  ASSUME TypeOK, Counting, CalmInv, eachSecondTasks
  PROVE  CalmInv'
<1> USE Sizes
<1>0. Loop /\ Quiet /\ Truthful /\ Advancing /\ Room /\ Refreshing
  BY EachSecondFacts DEF CalmInv
<1>1. /\ "esp" \in due /\ due' = due \ {"esp"}
      /\ UNCHANGED <<nano, task, temperature, toEsp, pc, ending, setting, events, calm>>
      /\ esp'.boost = esp.boost /\ esp'.param = esp.param
      /\ \A x : In(x, toNano) => In(x, toNano')
      /\ \A x : In(x, toNano') => In(x, toNano) \/ x = ASK
  BY EachSecondFacts
<1>2. PICK back \in {0, CYCLE}, asks \in {0, 1} :
        /\ esp'.counter = (esp.counter + 1) - back
        /\ Len(toNano') = Len(toNano) + asks
        /\ asks = 0 => Ask' = Ask - back /\ AskAgain' = AskAgain - back
        /\ asks = 1 => /\ Ask' = AskAgain - back
                       /\ In(ASK, toNano') /\ Len(toNano) + One(Reporting) <= 1
  BY EachSecondFacts
<1>3. /\ Statistics' = Statistics /\ Fresh' = Fresh /\ Hot' = Hot
      /\ Ordered(toEsp)' <=> Ordered(toEsp)
  BY <1>1 DEF Hot, Statistics, Fresh, Ordered
<1>4. Quiet'
  <2>1. \A k \in DOMAIN toNano' : toNano'[k] \in {ASK, Request("VERSION", 0), OFF}
    <3>1. \A x : In(x, toNano) => x \in {ASK, Request("VERSION", 0), OFF}
      BY <1>0, EachElement DEF Quiet
    <3> QED BY <1>1, <3>1, EachElement
  <2>2. In(OFF, toNano') => "nano" \notin due /\ Hot
    BY <1>0, <1>1, CommandsOK DEF Quiet
  <2>3. Free' /\ pc' # "boot"
    BY <1>0, <1>1 DEF Quiet, Free
  <2>4. "nano" \in due' => \A k \in DOMAIN toEsp' : toEsp'[k] \in {Fresh, Done}
    BY <1>0, <1>1 DEF Quiet
  <2> QED BY <1>0, <1>1, <1>3, <2>1, <2>2, <2>3, <2>4 DEF Quiet
<1>5. Truthful'
  BY <1>0, <1>1 DEF Truthful
<1>6. Advancing'
  BY <1>0, <1>1 DEF Advancing, Loop
<1>7. calm \in Nat /\ Len(toNano) \in Nat /\ esp.counter \in Nat
  BY DEF TypeOK
<1>8. Room'
  <2>1. "esp" \notin due' /\ One("esp" \in due) = 1 /\ One("esp" \in due)' = 0
    BY <1>1 DEF One
  <2>2. One(Reporting)' = One(Reporting) /\ One(Reporting) \in {0, 1}
    BY <1>1, <1>3 DEF Reporting, One
  <2>3. calm' > 2 => Len(toNano') + One(Reporting)' + One("esp" \in due)' <= 2
    BY <1>0, <1>1, <1>2, <1>7, <2>1, <2>2 DEF Room
  <2> QED BY <2>1, <2>3 DEF Room
<1>9. Refreshing'
  <2>1. /\ MayLose' <=> MayLose
        /\ Coming => Coming'
        /\ esp'.param = esp.param /\ nano'.param = nano.param
    BY <1>1, <1>3 DEF MayLose, Coming
  <2>2. Origin' = Origin + back /\ Origin \in Int
    <3>1. One("esp" \in due) = 1 /\ One("esp" \in due)' = 0
      BY <1>1 DEF One
    <3>2. Origin = (calm - esp.counter) - 1
      BY <3>1 DEF Origin
    <3>3. Origin' = (calm' - esp'.counter) - 0
      BY <3>1 DEF Origin
    <3>4. back \in Int /\ calm' = calm
      BY <1>1, <1>2
    <3>5. Origin' = (calm - ((esp.counter + 1) - back)) - 0
      BY <1>2, <3>3, <3>4
    <3> QED BY <1>7, <3>2, <3>4, <3>5
  <2>3. Ask \in Int /\ AskAgain \in Int
    BY <1>7 DEF Ask, AskAgain, Soon, Later, After
  <2>4. CASE asks = 0
    <3>1. Origin' + Ask' = Origin + Ask /\ Origin' + AskAgain' = Origin + AskAgain
      BY <1>2, <2>2, <2>3, <2>4
    <3> QED BY <1>0, <1>1, <2>1, <3>1 DEF Refreshing
  <2>5. CASE asks = 1
    <3>1. Origin' + Ask' = Origin + AskAgain /\ Coming'
      BY <1>2, <2>2, <2>3, <2>5 DEF Coming
    <3> QED BY <1>0, <1>1, <2>1, <3>1 DEF Refreshing
  <2> QED BY <2>4, <2>5
<1> QED BY <1>4, <1>5, <1>6, <1>8, <1>9 DEF CalmInv

LEMMA EachSecondBoost ==
  ASSUME TypeOK, Counting, CalmInv, BoostInv, eachSecondTasks
  PROVE  BoostInv'
<1>1. /\ due' = due \ {"esp"} /\ esp'.boost = esp.boost
      /\ UNCHANGED <<nano, task, temperature, toEsp, pc, ending, setting, events, calm>>
      /\ \A x : In(x, toNano) => In(x, toNano')
  BY EachSecondFacts
<1>2. Statistics' = Statistics /\ Hot' = Hot
  BY <1>1 DEF Hot, Statistics
<1>3. (Told' <=> Told) /\ (NoReportYet' <=> NoReportYet)
  BY <1>1 DEF Told, NoReportYet, One
<1>4. Cold => Cold'
  BY <1>1, <1>3 DEF Cold
<1>5. Heated => Heated'
  <2>1. SaysOn' <=> SaysOn
    BY <1>1, <1>2, <1>3 DEF SaysOn
  <2>2. Stopping => Stopping'
    BY <1>1, <1>2 DEF Stopping
  <2>3. Stopped => Stopped'
    BY <1>1, <1>2, <1>3 DEF Stopped
  <2> QED BY <1>1, <1>3, <2>1, <2>2, <2>3 DEF Heated
<1> QED BY <1>1, <1>2, <1>4, <1>5 DEF BoostInv

\* Two readings take a cycle at most.
LEMMA SecondReading ==
  ASSUME TypeOK, Counting
  PROVE  Ask \in Int /\ AskAgain \in Int /\ AskAgain - esp.counter <= CYCLE + 1
<1> USE Sizes
<1> DEFINE c == esp.counter
<1>1. REFRESH >= 3 /\ CYCLE \in Nat
  <2>1. REFRESH # 2
    BY ParityOK
  <2> QED BY <2>1
<1>2. /\ c \in 0 .. CYCLE - 1 /\ (c \in {1, REFRESH + 1} => esp.read)
      /\ c % 2 \in {0, 1} /\ Ask = IF esp.read THEN c + 2 - (c % 2) ELSE Later(c)
      /\ AskAgain = After(Ask)
  BY ParityOK DEF TypeOK, Counting, Ask, AskAgain, Soon
<1> HIDE DEF c
<1>3. /\ Later(0) = 2
      /\ \A n \in 1 .. REFRESH : Later(n) = REFRESH + 3
      /\ \A n \in Nat : n > REFRESH => Later(n) = CYCLE + 2
  BY <1>1 DEF Later
<1>4. /\ \A n \in 2 .. REFRESH : After(n) = REFRESH + 3
      /\ After(REFRESH + 1) = REFRESH + 3
      /\ \A n \in REFRESH + 2 .. CYCLE : After(n) = CYCLE + 2
      /\ After(CYCLE + 1) = CYCLE + (REFRESH + 3) /\ After(CYCLE + 2) = CYCLE + (REFRESH + 3)
  <2>1. \A n \in 2 .. REFRESH : After(n) = REFRESH + 3
    BY <1>1, <1>3 DEF After
  <2>2. After(REFRESH + 1) = REFRESH + 3
    <3>1. Soon(REFRESH + 1) = REFRESH + 3
      BY <1>1, ParityOK DEF Soon
    <3> QED BY <1>1, <3>1 DEF After
  <2>3. ASSUME NEW n \in REFRESH + 2 .. CYCLE PROVE After(n) = CYCLE + 2
    <3>1. CASE n = CYCLE
      BY <1>1, <1>3, <3>1 DEF After
    <3>2. CASE n # CYCLE
      BY <1>1, <1>3, <3>2 DEF After
    <3> QED BY <3>1, <3>2
  <2>4. After(CYCLE + 1) = CYCLE + (REFRESH + 3) /\ After(CYCLE + 2) = CYCLE + (REFRESH + 3)
    BY <1>1, <1>3 DEF After
  <2> QED BY <2>1, <2>2, <2>3, <2>4
<1>5. CASE esp.read
  <2>1. /\ Ask \in {c + 1, c + 2} /\ Ask \in Int
        /\ (c = 0 => Ask = 2) /\ (c = CYCLE - 1 => Ask = CYCLE)
    <3>1. c = 0 => c % 2 = 0
      BY ParityOK
    <3>2. c = CYCLE - 1 => c % 2 = 1
      BY ParityOK
    <3> QED BY <1>1, <1>2, <1>5, <3>1, <3>2
  <2>2. CASE Ask <= REFRESH + 1
    <3>1. After(Ask) = REFRESH + 3
      BY <1>1, <1>2, <1>4, <2>1, <2>2
    <3> QED BY <1>1, <1>2, <2>1, <3>1 DEF c
  <2>3. CASE Ask > REFRESH + 1
    <3>1. After(Ask) = CYCLE + 2 /\ c >= 1
      BY <1>1, <1>2, <1>4, <2>1, <2>3
    <3> QED BY <1>1, <1>2, <2>1, <3>1 DEF c
  <2> QED BY <1>2, <2>1, <2>2, <2>3
<1>6. CASE ~esp.read
  <2>1. CASE c = 0
    BY <1>1, <1>2, <1>3, <1>4, <1>6, <2>1 DEF c
  <2>2. CASE c \in 2 .. REFRESH
    <3>1. Ask = REFRESH + 3 /\ REFRESH + 3 \in REFRESH + 2 .. CYCLE
      BY <1>1, <1>2, <1>3, <1>6, <2>2
    <3>2. After(Ask) = CYCLE + 2
      BY <1>4, <3>1
    <3> QED BY <1>1, <1>2, <2>2, <3>1, <3>2 DEF c
  <2>3. CASE c > REFRESH
    <3>1. Ask = CYCLE + 2 /\ c >= REFRESH + 2
      BY <1>1, <1>2, <1>3, <1>6, <2>3
    <3> QED BY <1>1, <1>2, <1>4, <3>1 DEF c
  <2> QED BY <1>2, <1>6, <2>1, <2>2, <2>3
<1> QED BY <1>5, <1>6

LEMMA ReadingsAhead ==
  ASSUME TypeOK, Counting
  PROVE  /\ Ask \in Int /\ AskAgain \in Int
         /\ Ask >= esp.counter + 1 /\ AskAgain >= esp.counter + 1
<1> USE Sizes
<1>1. CYCLE \in Nat /\ CYCLE >= REFRESH
  OBVIOUS
<1>2. /\ esp.counter \in 0 .. CYCLE - 1 /\ esp.counter % 2 \in {0, 1}
      /\ (REFRESH + 1) % 2 = 0
      /\ \A n \in Nat : n % 2 \in {0, 1}
  BY ParityOK DEF TypeOK
<1>3. /\ \A n \in Nat : n < CYCLE => Later(n) >= n + 1 /\ Later(n) \in Int
      /\ \A n \in Nat : Soon(n) >= n + 1 /\ Soon(n) \in Int
  BY <1>1, <1>2 DEF Later, Soon
<1>4. Ask \in Int /\ Ask >= esp.counter + 1 /\ Ask <= CYCLE + 2
  <2>1. Later(esp.counter) <= CYCLE + 2
    BY <1>1, <1>2 DEF Later
  <2>2. Soon(esp.counter) <= CYCLE + 2
    BY <1>1, <1>2 DEF Soon
  <2> QED BY <1>2, <1>3, <2>1, <2>2 DEF Ask
<1>5. AskAgain \in Int /\ AskAgain >= Ask
  <2>1. CASE Ask >= CYCLE
    <3>1. Ask - CYCLE \in Nat /\ Ask - CYCLE < CYCLE
      BY <1>1, <1>4, <2>1
    <3>2. Later(Ask - CYCLE) >= (Ask - CYCLE) + 1 /\ Later(Ask - CYCLE) \in Int
      BY <1>3, <3>1
    <3>3. AskAgain = CYCLE + Later(Ask - CYCLE)
      BY <2>1 DEF AskAgain, After
    <3> QED BY <1>1, <1>4, <3>2, <3>3
  <2>2. CASE ~(Ask >= CYCLE)
    <3>1. Ask \in Nat /\ Ask < CYCLE
      BY <1>1, <1>2, <1>4, <2>2
    <3>2. AskAgain = IF Ask = REFRESH + 1 THEN Soon(Ask) ELSE Later(Ask)
      BY <2>2 DEF AskAgain, After
    <3> QED BY <1>3, <1>4, <3>1, <3>2
  <2> QED BY <2>1, <2>2
<1> QED BY <1>2, <1>4, <1>5

LEMMA SecondKept ==
  ASSUME TypeOK, Counting, calm > 0 => CalmInv, Second, calm' > 0
  PROVE  CalmInv'
<1> USE Sizes
<1>1. Free /\ pc # "boot" /\ (calm = 0 => calm' = 1)
  <2>1. calm > 0 => Free /\ pc # "boot"
    BY DEF CalmInv, Quiet
  <2>2. calm \in Nat
    BY DEF TypeOK
  <2> QED BY <2>1, <2>2 DEF Second
<1>2. /\ pc # "ending" => toEsp = <<>> /\ ending' = ending
      /\ pc = "ending" => ending' = ending - 1 /\ ending > 0
      /\ toNano = <<>> /\ "nano" \notin due
      /\ due' = {"nano", "esp"} /\ toEsp' = <<>> /\ task'.what = task.what
      /\ calm' \in {calm, calm + 1} /\ (Loop => "esp" \notin due)
      /\ UNCHANGED <<nano, temperature, toNano, pc, esp, setting, events>>
  BY <1>1 DEF Second, TypeOK
<1>3. /\ \A x : ~In(x, toEsp') /\ ~In(x, toNano) /\ ~In(x, toNano')
      /\ pc # "ending" => \A x : ~In(x, toEsp)
      /\ Ordered(toEsp') /\ Len(toNano') = 0
      /\ \A S : \A k \in DOMAIN toEsp' : toEsp'[k] \in S
      /\ \A S : \A k \in DOMAIN toNano' : toNano'[k] \in S
  BY <1>2, EmptyBox
<1>4. Ordered(toEsp)' /\ Hot' = Hot
  BY <1>2, <1>3, StillOK DEF Hot
<1>5. calm \in Nat /\ calm' \in Nat
  BY <1>2 DEF TypeOK
<1>6. Quiet'
  BY <1>1, <1>2, <1>3, <1>4 DEF Quiet, Free
<1>7. Truthful'
  BY <1>3 DEF Truthful
<1>8. Advancing'
  <2>1. Pending' /\ (pc # "ending" => ~Pending)
    BY <1>2 DEF Pending
  <2>2. ending \in 0 .. ENDING
    BY DEF TypeOK
  <2>3. pc = "ending" => calm' + ending' <= SETUP
    <3>1. ASSUME pc = "ending", calm > 0 PROVE calm + ending <= SETUP
      BY <3>1 DEF CalmInv, Advancing
    <3>2. CASE calm = 0
      BY <1>1, <1>2, <2>2, <3>2
    <3>3. CASE calm > 0
      BY <1>2, <1>5, <2>2, <3>1, <3>3
    <3> QED BY <1>5, <3>2, <3>3
  <2>4. CASE calm = 0
    BY <1>1, <1>2, <2>1, <2>3, <2>4 DEF Advancing
  <2>5. CASE calm > 0
    <3>1. pc \notin {"contact", "param", "version"} /\ (pc = "stats" => calm = 1)
      BY <1>5, <2>1, <2>5 DEF CalmInv, Advancing
    <3> QED BY <1>2, <1>5, <2>1, <2>3, <3>1 DEF Advancing
  <2> QED BY <1>5, <2>4, <2>5
<1>9. Room'
  <2>1. One(Reporting)' = 1 /\ One("esp" \in due)' = 1
    BY <1>2 DEF One, Reporting
  <2> QED BY <1>3, <2>1 DEF Room
<1>10. ASSUME Loop' PROVE Refreshing'
  <2>1. /\ Ask' = Ask /\ AskAgain' = AskAgain /\ Loop
        /\ esp'.param = esp.param /\ nano'.param = nano.param
        /\ MayLose' <=> MayLose
        /\ ~Coming
    BY <1>2, <1>3, <1>10 DEF Ask, AskAgain, MayLose, Coming, Loop
  <2>2. /\ esp.counter \in Nat /\ Ask \in Int /\ AskAgain \in Int
        /\ AskAgain - esp.counter <= CYCLE + 1
    BY SecondReading DEF TypeOK
  <2>3. Origin' = (calm' - esp.counter) - 1
    <3>1. One("esp" \in due)' = 1
      BY <1>2 DEF One
    <3> QED BY <1>2, <3>1 DEF Origin
  <2>4. CASE calm = 0
    <3>1. Origin' + AskAgain' <= CYCLE + SETUP - 1
      BY <1>1, <2>1, <2>2, <2>3, <2>4
    <3> QED BY <3>1 DEF Refreshing
  <2>5. CASE calm > 0
    <3>1. Refreshing
      BY <2>1, <2>5 DEF CalmInv
    <3>2. Origin = (calm - esp.counter) - 0
      <4>1. One("esp" \in due) = 0
        BY <1>2, <2>1 DEF One
      <4> QED BY <4>1 DEF Origin
    <3>3. Origin' + Ask' <= Origin + Ask /\ Origin' + AskAgain' <= Origin + AskAgain
      BY <1>2, <1>5, <2>1, <2>2, <2>3, <3>2
    <3>4. Origin \in Int /\ Origin' \in Int
      BY <1>5, <2>2, <2>3, <3>2
    <3>5. /\ Origin + Ask <= CYCLE + SETUP - 1 => Origin' + Ask' <= CYCLE + SETUP - 1
          /\ Origin + AskAgain <= CYCLE + SETUP - 1
               => Origin' + AskAgain' <= CYCLE + SETUP - 1
      <4>1. CYCLE + SETUP - 1 \in Int /\ Origin + Ask \in Int /\ Origin + AskAgain \in Int
        BY <2>2, <3>4
      <4>2. Origin' + Ask' \in Int /\ Origin' + AskAgain' \in Int
        BY <2>1, <2>2, <3>4
      <4> QED BY <3>3, <4>1, <4>2
    <3> QED BY <2>1, <3>1, <3>5 DEF Refreshing
  <2> QED BY <1>5, <2>4, <2>5
<1> QED BY <1>6, <1>7, <1>8, <1>9, <1>10 DEF CalmInv

LEMMA SecondBoost ==
  ASSUME TypeOK, calm > 0 => CalmInv, BoostInv, Second
  PROVE  BoostInv'
<1> USE Sizes
<1> SUFFICES ASSUME calm' > SETUP PROVE BoostInv'
  BY DEF BoostInv
<1>0. calm \in Nat
  BY DEF TypeOK
<1>1. calm > 0 /\ calm' \in {calm, calm + 1}
  BY <1>0 DEF Second
<1>2. Free /\ pc # "boot"
  BY <1>1 DEF CalmInv, Quiet
<1>20. pc # "ending"
  <2> SUFFICES ASSUME pc = "ending" PROVE FALSE
    OBVIOUS
  <2>1. calm + ending <= SETUP /\ ending > 0 /\ ending \in Nat
    BY <1>1 DEF CalmInv, Advancing, Second, TypeOK
  <2> QED BY <1>0, <1>1, <2>1
<1>3. /\ toEsp = <<>> /\ toNano = <<>> /\ "nano" \notin due
      /\ due' = {"nano", "esp"}
      /\ UNCHANGED <<nano, temperature, pc, esp, setting>>
  BY <1>2, <1>20 DEF Second
<1>4. nano.second \in Nat
  BY DEF TypeOK
<1>5. One("nano" \in due) = 0 /\ One("nano" \in due)' = 1
  BY <1>3 DEF One
<1>6. NoReportYet \/ calm = SETUP => NoReportYet'
  BY <1>0, <1>1, <1>3, <1>4, <1>5 DEF NoReportYet
<1>7. /\ \A x : ~In(x, toEsp) /\ ~In(x, toNano)
      /\ ~Told /\ Hot' = Hot
  <2>1. \A x : ~In(x, toEsp) /\ ~In(x, toNano)
    BY <1>3, EmptyBox
  <2> QED BY <1>3, <2>1 DEF Told, Hot
<1>8. CASE calm = SETUP
  BY <1>6, <1>8 DEF BoostInv, Cold, Heated
<1>9. CASE calm # SETUP
  <2>1. calm > SETUP
    BY <1>0, <1>1, <1>9
  <2>2. Cold => Cold'
    BY <1>3, <1>6, <1>7 DEF Cold
  <2>3. Heated => Heated'
    <3>1. SaysOn => esp.boost > 0
      BY <1>7 DEF SaysOn
    <3>2. Stopping => nano.boost = 0
      BY <1>7 DEF Stopping
    <3>3. Stopped => nano.boost = -1 /\ esp.boost = -1
      BY <1>7 DEF Stopped
    <3>4. /\ calm <= REPORT + SETUP => calm' <= REPORT + SETUP + 1
          /\ calm <= REPORT + SETUP + 1 => calm' <= REPORT + SETUP + 2
      BY <1>0, <1>1
    <3> QED BY <1>3, <1>6, <3>1, <3>2, <3>3, <3>4 DEF Heated
  <2> QED BY <1>7, <2>1, <2>2, <2>3 DEF BoostInv
<1> QED BY <1>8, <1>9

\* What a step that changes nothing keeps.
LEMMA StutterKept ==
  ASSUME UNCHANGED vars
  PROVE  (CalmInv <=> CalmInv') /\ (BoostInv <=> BoostInv')
<1>1. UNCHANGED <<nano, task, temperature, toNano, toEsp, pc, ending, esp, setting, due,
                  events, calm>>
  BY DEF vars
<1>2. /\ Statistics' = Statistics /\ Fresh' = Fresh
      /\ Hot' <=> Hot
      /\ Told' <=> Told
      /\ NoReportYet' <=> NoReportYet
  BY <1>1 DEF Statistics, Fresh, Hot, Told, NoReportYet, One
<1>3. Ordered(toEsp)' <=> Ordered(toEsp)
  BY <1>1, <1>2 DEF Ordered
<1>4. Quiet' <=> Quiet
  BY <1>1, <1>2, <1>3 DEF Quiet, Free
<1>5. Truthful' <=> Truthful
  BY <1>1 DEF Truthful
<1>6. Advancing' <=> Advancing
  BY <1>1 DEF Advancing, Pending, Loop
<1>7. Room' <=> Room
  <2>1. Reporting' <=> Reporting
    BY <1>1, <1>2 DEF Reporting
  <2>2. One(Reporting)' = One(Reporting) /\ One("esp" \in due)' = One("esp" \in due)
    BY <1>1, <2>1 DEF One
  <2> QED BY <1>1, <2>2 DEF Room
<1>8. Refreshing' <=> Refreshing
  <2>1. Coming' <=> Coming
    BY <1>1, <1>2 DEF Coming
  <2>2. MayLose' <=> MayLose
    BY <1>1 DEF MayLose
  <2>3. Ask' = Ask /\ Origin' = Origin
    BY <1>1 DEF Ask, Origin, One
  <2>4. AskAgain' = AskAgain
    BY <2>3 DEF AskAgain
  <2> QED BY <1>1, <2>1, <2>2, <2>3, <2>4 DEF Refreshing
<1>9. Cold' <=> Cold
  BY <1>1, <1>2 DEF Cold
<1>10. Heated' <=> Heated
  <2>1. (SaysOn' <=> SaysOn) /\ (Stopping' <=> Stopping) /\ (Stopped' <=> Stopped)
    BY <1>1, <1>2 DEF SaysOn, Stopping, Stopped
  <2> QED BY <1>1, <1>2, <2>1 DEF Heated
<1>11. CalmInv <=> CalmInv'
  BY <1>1, <1>4, <1>5, <1>6, <1>7, <1>8 DEF CalmInv, Loop
<1>12. BoostInv <=> BoostInv'
  BY <1>1, <1>2, <1>9, <1>10 DEF BoostInv
<1> QED BY <1>11, <1>12

\* The steps of a second without events: the others are events, or belong to a
\* Nano or an ESP that does not run.
LEMMA CalmStep ==
  ASSUME Quiet, TypeOK, Next, calm' > 0, Counting
  PROVE  NanoSecond \/ serialRequest \/ serialProcess \/ eachSecondTasks \/ SetupDone \/ Second
<1>1. ~(BoostRequest \/ WebRequest \/ Configure)
  BY UserTypes
<1>2. ~(NanoStarts \/ EspStarts \/ Damage \/ Heat)
  BY DEF NanoStarts, EspStarts, Damage, Heat, Event
<1>3. ~(TaskEnds \/ ClearInput \/ NoContact \/ OpenLine)
  BY DEF Quiet, Free, TaskEnds, ClearInput, NoContact, OpenLine
<1> QED BY <1>1, <1>2, <1>3 DEF Next, NanoSteps, EspSteps

\* An event, or a step that starts from one.
LEMMA EventStep ==
  ASSUME TypeOK, Counting, Next, ~Second, calm' > 0
  PROVE  calm > 0
<1>1. ~(BoostRequest \/ WebRequest \/ Configure)
  BY UserTypes
<1>2. ~(NanoStarts \/ EspStarts \/ Damage \/ Heat)
  BY DEF NanoStarts, EspStarts, Damage, Heat, Event
<1>3. CASE NanoSecond
  <2>1. calm' = 0 \/ calm' = calm
    BY <1>3 DEF NanoSecond, Event, NoEvent
  <2> QED BY <2>1
<1>4. CASE serialRequest \/ TaskEnds \/ ClearInput
  BY <1>4 DEF serialRequest, TaskEnds, ClearInput, NoEvent
<1>5. CASE serialProcess \/ NoContact \/ SetupDone \/ eachSecondTasks \/ OpenLine
  BY <1>5 DEF serialProcess, NoContact, SetupDone, eachSecondTasks, OpenLine, NoEvent
<1> QED BY <1>1, <1>2, <1>3, <1>4, <1>5 DEF Next, NanoSteps, EspSteps

\* No phase of setup lasts longer.
LEMMA SetupLimit ==
  ASSUME TypeOK, calm > 0 => Quiet /\ Advancing, calm > SETUP
  PROVE  Loop
<1>1. /\ calm \in Nat /\ calm > SETUP /\ calm > 2 /\ ending \in Nat
      /\ pc \in {"boot", "contact", "param", "version", "stats", "ending", "loop"}
  BY Sizes DEF TypeOK
<1>2. Quiet /\ Advancing
  BY <1>1
<1>3. pc # "ending"
  <2>1. pc = "ending" => calm + ending <= SETUP
    BY <1>2 DEF Advancing
  <2> QED BY <1>1, <2>1, Sizes
<1>4. pc \notin {"boot", "contact", "param", "version", "stats"}
  BY <1>1, <1>2 DEF Quiet, Advancing
<1> QED BY <1>1, <1>3, <1>4 DEF Loop

LEMMA InvStep == LinkInv /\ [Next]_vars => LinkInv'
<1> SUFFICES ASSUME LinkInv, [Next]_vars PROVE LinkInv'
  OBVIOUS
<1>1. TypeOK /\ Counting /\ (calm > 0 => CalmInv) /\ BoostInv
  BY DEF LinkInv, CalmInv, BoostInv
<1>2. TypeOK' /\ Counting' /\ (calm' > 0 => CalmInv') /\ BoostInv'
  <2>1. CASE UNCHANGED vars
    <3>1. TypeOK' /\ Counting' /\ calm' = calm
      BY <1>1, <2>1 DEF vars, TypeOK, Counting, Loop, Served
    <3> QED BY <1>1, <2>1, <3>1, StutterKept
  <2>2. CASE Next
    <3>1. TypeOK' /\ Counting'
      BY <1>1, <2>2, TypesKept
    <3>2. ~(calm' > 0) => BoostInv'
      BY <3>1, Sizes DEF BoostInv, TypeOK
    <3>3. ASSUME calm' > 0, Second PROVE CalmInv' /\ BoostInv'
      BY <1>1, <3>3, SecondKept, SecondBoost
    <3>4. ASSUME calm' > 0, ~Second PROVE CalmInv' /\ BoostInv'
      <4>1. calm > 0 /\ CalmInv
        BY <1>1, <2>2, <3>4, EventStep
      <4>2. NanoSecond \/ serialRequest \/ serialProcess \/ eachSecondTasks \/ SetupDone
        BY <1>1, <2>2, <3>4, <4>1, CalmStep DEF CalmInv
      <4>3. CASE NanoSecond
        BY <1>1, <3>4, <4>1, <4>3, NanoSecondKept, NanoSecondBoost
      <4>4. CASE serialRequest
        BY <1>1, <4>1, <4>4, SerialRequestKept, SerialRequestBoost
      <4>5. CASE serialProcess
        <5>1. CASE Loop
          BY <1>1, <4>1, <4>5, <5>1, SerialProcessKept, SerialProcessBoost
        <5>2. CASE ~Loop
          BY <1>1, <4>1, <4>5, <5>2, SetupProcessKept
        <5> QED BY <5>1, <5>2
      <4>6. CASE eachSecondTasks
        BY <1>1, <4>1, <4>6, EachSecondKept, EachSecondBoost
      <4>7. CASE SetupDone
        BY <1>1, <4>1, <4>7, SetupDoneKept
      <4> QED BY <4>2, <4>3, <4>4, <4>5, <4>6, <4>7
    <3> QED BY <3>1, <3>2, <3>3, <3>4
  <2> QED BY <2>1, <2>2
<1> QED BY <1>2 DEF LinkInv, CalmInv, BoostInv
--------------------------------------------------------------------------------
(* The theorems *)

\* Each reachable state is one of the account of LinkInv: what is on the line and
\* what the ESP and the Nano still have to do in a second without events.
THEOREM LinkInvariant == Spec => []LinkInv
<1>1. Init => LinkInv
  BY InvInit
<1>2. LinkInv /\ [Next]_vars => LinkInv'
  BY InvStep
<1> QED BY <1>1, <1>2, PTL DEF Spec

\* Without events the ESP is in its loop three seconds after what the end of setup
\* takes: each phase that waits ends with whichever message comes, the statistics come
\* each second, and the rest of setup waits for nothing.
THEOREM SetupAlwaysEnds == Spec => []SetupEnds
<1>1. LinkInv => SetupEnds
  <2> SUFFICES ASSUME LinkInv PROVE SetupEnds
    OBVIOUS
  <2>1. TypeOK /\ (calm > 0 => Quiet /\ Advancing)
    BY DEF LinkInv
  <2>2. calm > SETUP => Loop
    BY <2>1, SetupLimit
  <2> QED BY <2>1, <2>2 DEF SetupEnds
<1> QED BY <1>1, LinkInvariant, PTL

\* A period of the reports later the ESP and the Nano agree on BOOST: a report is
\* true when it is read, or the end of BOOST follows it.
THEOREM BoostAgreement == Spec => []BoostAgrees
<1>1. LinkInv => BoostAgrees
  <2> SUFFICES ASSUME LinkInv, Settled, calm > REPORT + SETUP + 2
               PROVE  esp.boost = -1 <=> nano.boost = -1
    BY DEF BoostAgrees
  <2>1. /\ calm \in Nat /\ nano.second \in 0 .. REPORT - 1 /\ esp.boost \in Int
        /\ calm > SETUP /\ (IF Hot THEN Heated ELSE Cold)
    BY Sizes DEF LinkInv, TypeOK
  <2>2. /\ "nano" \in due /\ One("nano" \in due) = 1
        /\ \A x : ~In(x, toEsp)
    BY EmptyBox DEF Settled, One
  <2>3. ~Told /\ ~NoReportYet
    BY <2>1, <2>2, Sizes DEF Told, NoReportYet
  <2>4. CASE Hot
    BY <2>1, <2>2, <2>3, <2>4, Sizes DEF Heated
  <2>5. CASE ~Hot
    BY <2>1, <2>3, <2>5 DEF Cold
  <2> QED BY <2>4, <2>5
<1> QED BY <1>1, LinkInvariant, PTL

\* Above the limit of temperature no BOOST goes on: the ESP stops it when the
\* statistics come, and again when a report says that the Nano did not hear.
THEOREM OverheatStopped == Spec => []OverheatStops
<1>1. LinkInv => OverheatStops
  <2> SUFFICES ASSUME LinkInv, Hot, calm > REPORT + SETUP + 2
               PROVE  nano.boost = -1
    BY DEF OverheatStops, Hot
  <2>1. calm \in Nat /\ nano.second \in 0 .. REPORT - 1 /\ calm > SETUP /\ Heated
    BY Sizes DEF LinkInv, TypeOK
  <2>2. ~NoReportYet
    BY <2>1, Sizes DEF NoReportYet, One
  <2> QED BY <2>1, <2>2, Sizes DEF Heated, Stopped
<1> QED BY <1>1, LinkInvariant, PTL

\* Two readings later the ESP has the parameters of the Nano: only the end of BOOST,
\* which lacks its #, can hide an answer, and it comes once.
THEOREM ParametersFresh == Spec => []ParamsFresh
<1>1. LinkInv => ParamsFresh
  <2> SUFFICES ASSUME LinkInv, Settled, calm > 2 * REFRESH + SETUP - 1
               PROVE  esp.param = nano.param
    BY DEF ParamsFresh
  <2>1. /\ TypeOK /\ Counting /\ calm \in Nat /\ calm > SETUP /\ calm > 0
        /\ esp.counter \in 0 .. CYCLE - 1
    BY Sizes DEF LinkInv, TypeOK
  <2>2. Advancing /\ Quiet /\ (Loop => Refreshing)
    BY <2>1 DEF LinkInv
  <2>3. Loop
    BY <2>1, <2>2, SetupLimit
  <2>4. \A x : ~In(x, toEsp) /\ ~In(x, toNano)
    BY EmptyBox DEF Settled
  <2>5. ~Coming /\ Origin = (calm - esp.counter) - 1
    BY <2>4 DEF Coming, Origin, One, Settled
  <2>6. Ask \in Int /\ AskAgain \in Int /\ Ask >= esp.counter + 1 /\ AskAgain >= esp.counter + 1
    BY <2>1, ReadingsAhead
  <2>7. ~(Origin + Ask <= CYCLE + SETUP - 1) /\ ~(Origin + AskAgain <= CYCLE + SETUP - 1)
    BY <2>1, <2>5, <2>6, Sizes
  <2> QED BY <2>2, <2>3, <2>5, <2>7 DEF Refreshing
<1> QED BY <1>1, LinkInvariant, PTL
================================================================================
