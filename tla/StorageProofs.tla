----------------------------- MODULE StorageProofs -----------------------------
(***************************************************************************)
(* For cells of any size, hours and seconds of any length and indexes up   *)
(* to any limit: wherever the power fails, no index in the EEPROM is ahead *)
(* of the one that was counted, none is more than an hour behind, and of a *)
(* configuration only the parameter that was half written is damaged.      *)
(***************************************************************************)
EXTENDS StorageProps, SequenceTheorems, TLAPS

\* Facts about products, floor divisions and remainders.
LEMMA DivModUnique ==
  ASSUME NEW d \in Nat \ {0}, NEW q \in Int, NEW r \in 0 .. d - 1, NEW n \in Int,
         n = d * q + r
  PROVE  n \div d = q /\ n % d = r
  OBVIOUS

LEMMA DivMod ==
  ASSUME NEW n \in Nat, NEW d \in Nat \ {0}
  PROVE  n % d = n - d * (n \div d)
  OBVIOUS

LEMMA DivModRange ==
  ASSUME NEW n \in Nat, NEW d \in Nat \ {0}
  PROVE  n \div d \in Nat /\ n % d \in 0 .. d - 1
  OBVIOUS

LEMMA MulMono ==
  ASSUME NEW a \in Int, NEW b \in Int, NEW d \in Nat, a <= b
  PROVE  d * a <= d * b /\ a * d <= b * d
  OBVIOUS

LEMMA Distribute ==
  ASSUME NEW a \in Int, NEW b \in Int, NEW d \in Int
  PROVE  d * (a + b) = d * a + d * b /\ d * a = a * d
  OBVIOUS

\* Cycle r of second q, in a clock of an hour.
LEMMA HourClock ==
  ASSUME NEW q \in Nat, NEW r \in 0 .. NB_CYCLES - 1,
         NB_CYCLES \in Nat \ {0}, HOUR \in Nat \ {0}
  PROVE  /\ (NB_CYCLES * q + r) % (HOUR * NB_CYCLES) = NB_CYCLES * (q % HOUR) + r
         /\ NB_CYCLES * (q % HOUR) + r \in 0 .. HOUR * NB_CYCLES - 1
<1> DEFINE h == q \div HOUR
           m == q % HOUR
           C == NB_CYCLES
           y == C * m + r
           n == C * q + r
           day == HOUR * C
<1>1. h \in Nat /\ m \in 0 .. HOUR - 1
  BY DivModRange
<1>2. m = q - HOUR * h
  BY DivMod
<1> HIDE DEF h, m
<1>3. C * m \in Nat /\ C * (m + 1) <= C * HOUR /\ C * (m + 1) = C * m + C
  BY <1>1, MulMono, Distribute
<1>4. day \in Nat \ {0} /\ y \in 0 .. day - 1
  BY <1>1, <1>3
<1>5. C * (HOUR * h) = day * h
  BY <1>1
<1>6. C * (m + HOUR * h) = C * m + C * (HOUR * h)
  BY <1>1, Distribute
<1>7. q = m + HOUR * h
  BY <1>1, <1>2
<1>8. n = day * h + y
  BY <1>1, <1>5, <1>6, <1>7
<1>9. n \in Int
  OBVIOUS
<1> HIDE DEF n, y, day
<1>10. n % day = y
  BY <1>1, <1>4, <1>8, <1>9, DivModUnique
<1> QED BY <1>4, <1>10 DEF m, C, n, y, day
--------------------------------------------------------------------------------
LEMMA LeftFromOK ==
  ASSUME NEW S, NEW cells \in Seq(S), NEW k \in 1 .. Len(cells)
  PROVE  /\ LeftFrom(cells, k) \in Seq(S)
         /\ Len(LeftFrom(cells, k)) = Len(cells) - k + 1
         /\ Head(LeftFrom(cells, k)) = cells[k]
         /\ k < Len(cells) => Tail(LeftFrom(cells, k)) = LeftFrom(cells, k + 1)
         /\ LeftFrom(cells, 1) = cells
<1>1. LeftFrom(cells, k) \in Seq(S) /\ Len(LeftFrom(cells, k)) = Len(cells) - k + 1
  BY DEF LeftFrom
<1>2. Head(LeftFrom(cells, k)) = cells[k]
  BY <1>1 DEF LeftFrom
<1>3. ASSUME k < Len(cells) PROVE Tail(LeftFrom(cells, k)) = LeftFrom(cells, k + 1)
  BY <1>1, <1>3 DEF LeftFrom
<1>4. LeftFrom(cells, 1) = cells
  BY DEF LeftFrom
<1> QED BY <1>1, <1>2, <1>3, <1>4

\* What is assumed of the constants, in the form the steps need.
LEMMA Constants ==
  /\ BASE \in Nat /\ BASE > 2 /\ NB_CYCLES \in Nat \ {0} /\ HOUR \in Nat \ {0}
  /\ Limit \in Nat /\ BASE * BASE \in Nat /\ Limit <= BASE * BASE - 1
<1>1. /\ BASE \in Nat /\ BASE > 2 /\ NB_CYCLES \in Nat \ {0} /\ HOUR \in Nat \ {0}
      /\ Limit \in 0 .. BASE * BASE - 1
  BY StorageAssumption, Zenon
<1>2. BASE * BASE \in Nat
  BY <1>1
<1>3. Limit \in Nat /\ Limit <= BASE * BASE - 1
  BY <1>1, <1>2
<1> QED BY <1>1, <1>2, <1>3

\* The default value of a parameter.
LEMMA MinValue == minValue \in Values /\ minValue \in InLimits
<1>1. /\ BASE * BASE \in Nat /\ minValue \in Nat
      /\ maxValue \in minValue .. BASE * BASE - 1
  BY Constants, StorageAssumption
<1> QED BY <1>1 DEF Values, InLimits

\* What SETPARAM stores.
LEMMA LimitsValues == ASSUME NEW v \in InLimits PROVE v \in Values
<1>1. /\ BASE * BASE \in Nat /\ minValue \in Nat
      /\ maxValue \in minValue .. BASE * BASE - 1
  BY Constants, StorageAssumption
<1> QED BY <1>1 DEF Values, InLimits

Cell == 0 .. BASE - 1
Pair == [1 .. 2 -> Cell]

\* A value fits in two cells.
LEMMA ValueCells ==
  ASSUME NEW n \in Values
  PROVE  /\ Cells(n)[1] \in Cell /\ Cells(n)[2] \in Cell
         /\ Cells(n)[1] + BASE * Cells(n)[2] = n
         /\ BASE * Cells(n)[2] \in Int
         /\ n = 0 => Cells(n)[1] = 0 /\ Cells(n)[2] = 0
<1> DEFINE low == n % BASE
           high == n \div BASE
           square == BASE * BASE
<1>1. n \in Nat /\ BASE \in Nat \ {0} /\ n <= square - 1 /\ square \in Nat
  BY Constants DEF Values
<1>2. low \in Cell /\ high \in Nat
  BY <1>1, DivModRange DEF Cell
<1>3. low = n - BASE * high
  BY <1>1, DivMod
<1>4. n = 0 => low = 0 /\ high = 0
  BY <1>1
<1>5. Cells(n)[1] = low /\ Cells(n)[2] = high
  BY DEF Cells
<1> HIDE DEF low, high
<1>6. BASE * high \in Nat
  BY <1>1, <1>2
<1>7. high <= BASE - 1
  <2> SUFFICES ASSUME high >= BASE PROVE FALSE
    BY <1>1, <1>2
  <2>1. square <= BASE * high
    BY <1>1, <1>2, MulMono
  <2> HIDE DEF square
  <2> QED BY <1>1, <1>2, <1>3, <1>6, <2>1 DEF Cell
<1> HIDE DEF square
<1>8. low + BASE * high = n
  BY <1>1, <1>2, <1>3, <1>6 DEF Cell
<1>9. high \in Cell
  BY <1>1, <1>2, <1>7 DEF Cell
<1> QED BY <1>2, <1>4, <1>5, <1>6, <1>8, <1>9

LEMMA CellsOK ==
  ASSUME NEW n \in 0 .. Limit
  PROVE  /\ Cells(n)[1] \in Cell /\ Cells(n)[2] \in Cell
         /\ Cells(n)[1] + BASE * Cells(n)[2] = n
         /\ BASE * Cells(n)[2] \in Int
         /\ n = 0 => Cells(n)[1] = 0 /\ Cells(n)[2] = 0
<1>1. n \in Values
  BY Constants DEF Values
<1> QED BY <1>1, ValueCells

\* Two cells hold a value.
LEMMA CellsValue ==
  ASSUME NEW low \in Cell, NEW high \in Cell
  PROVE  Long(<<low, high>>) = low + BASE * high /\ Long(<<low, high>>) \in Values
<1> DEFINE square == BASE * BASE
<1>1. /\ BASE \in Nat \ {0} /\ low \in Nat /\ low <= BASE - 1
      /\ high \in Nat /\ high <= BASE - 1
  BY Constants DEF Cell
<1>2. BASE * high <= BASE * (BASE - 1) /\ BASE * high \in Nat
  BY <1>1, MulMono
<1>3. BASE * (BASE - 1) = square - BASE /\ square \in Nat
  BY <1>1
<1>4. Long(<<low, high>>) = low + BASE * high
  BY DEF Long
<1> HIDE DEF square
<1>5. low + BASE * high \in 0 .. square - 1
  BY <1>1, <1>2, <1>3
<1> QED BY <1>4, <1>5 DEF Values, square

\* The configuration that the cells of the EEPROM hold.
LEMMA StoredOK ==
  ASSUME CellTypes
  PROVE  /\ Stored \in [{"v1", "v2"} -> Values]
         /\ Stored.v1 = eeConfig[4] + BASE * eeConfig[5]
         /\ Stored.v2 = eeConfig[6] + BASE * eeConfig[7]
<1>1. /\ eeConfig[4] \in Cell /\ eeConfig[5] \in Cell
      /\ eeConfig[6] \in Cell /\ eeConfig[7] \in Cell
  BY DEF CellTypes, Cell
<1>2. /\ Stored.v1 = Long(<<eeConfig[4], eeConfig[5]>>)
      /\ Stored.v2 = Long(<<eeConfig[6], eeConfig[7]>>)
      /\ Stored = [v1 |-> Stored.v1, v2 |-> Stored.v2]
  BY DEF Stored
<1> QED BY <1>1, <1>2, CellsValue

LEMMA StoredOKNext ==
  ASSUME CellTypes'
  PROVE  /\ Stored'.v1 = eeConfig'[4] + BASE * eeConfig'[5]
         /\ Stored'.v2 = eeConfig'[6] + BASE * eeConfig'[7]
<1>1. /\ eeConfig'[4] \in Cell /\ eeConfig'[5] \in Cell
      /\ eeConfig'[6] \in Cell /\ eeConfig'[7] \in Cell
  BY DEF CellTypes, Cell
<1>2. /\ Stored'.v1 = Long(<<eeConfig'[4], eeConfig'[5]>>)
      /\ Stored'.v2 = Long(<<eeConfig'[6], eeConfig'[7]>>)
  BY DEF Stored
<1> QED BY <1>1, <1>2, CellsValue

\* The cells of a configuration.
Data(c) == dataEeprom(VERSION, Cells(c.v1), Cells(c.v2))

LEMMA DataOK ==
  ASSUME NEW c \in [{"v1", "v2"} -> Values]
  PROVE  /\ \A k \in 1 .. 7 : Data(c)[k] \in Cell
         /\ Data(c)[4] = Cells(c.v1)[1] /\ Data(c)[5] = Cells(c.v1)[2]
         /\ Data(c)[6] = Cells(c.v2)[1] /\ Data(c)[7] = Cells(c.v2)[2]
         /\ Data(c)[4] + BASE * Data(c)[5] = c.v1
         /\ Data(c)[6] + BASE * Data(c)[7] = c.v2
<1>1. /\ Data(c)[1] = 1 /\ Data(c)[2] = 1 /\ Data(c)[3] = 2
      /\ Data(c)[4] = Cells(c.v1)[1] /\ Data(c)[5] = Cells(c.v1)[2]
      /\ Data(c)[6] = Cells(c.v2)[1] /\ Data(c)[7] = Cells(c.v2)[2]
  BY DEF Data, dataEeprom, MAGIC, VERSION
<1>2. 1 \in Cell /\ 2 \in Cell
  BY Constants DEF Cell
<1>3. c.v1 \in Values /\ c.v2 \in Values
  OBVIOUS
<1>4. /\ \A k \in 1 .. 7 : k = 1 \/ k = 2 \/ k = 3 \/ k = 4 \/ k = 5 \/ k = 6 \/ k = 7
  OBVIOUS
<1> QED BY <1>1, <1>2, <1>3, <1>4, ValueCells

\* The cells of an index, and what writing one of them makes of it.
LEMMA LongOf ==
  ASSUME NEW e \in Pair
  PROVE  /\ e[1] \in 0 .. BASE - 1 /\ e[2] \in 0 .. BASE - 1
         /\ BASE * e[2] \in Nat /\ Long(e) \in Nat /\ Long(e) = e[1] + BASE * e[2]
         /\ \A v \in Cell : /\ [e EXCEPT ![1] = v] \in Pair /\ [e EXCEPT ![2] = v] \in Pair
                            /\ Long([e EXCEPT ![1] = v]) = v + BASE * e[2]
                            /\ Long([e EXCEPT ![2] = v]) = e[1] + BASE * v
<1>1. BASE \in Nat /\ e[1] \in 0 .. BASE - 1 /\ e[2] \in 0 .. BASE - 1
  BY Constants DEF Pair, Cell
<1>2. e[2] \in Nat
  BY <1>1
<1>3. BASE * e[2] \in Nat
  BY <1>1, <1>2
<1>4. Long(e) = e[1] + BASE * e[2]
  BY DEF Long
<1>5. Long(e) \in Nat
  BY <1>1, <1>3, <1>4
<1>6. ASSUME NEW v \in Cell
      PROVE  [e EXCEPT ![1] = v] \in Pair /\ [e EXCEPT ![2] = v] \in Pair
  BY DEF Pair
<1>7. ASSUME NEW v \in Cell
      PROVE  /\ Long([e EXCEPT ![1] = v]) = v + BASE * e[2]
             /\ Long([e EXCEPT ![2] = v]) = e[1] + BASE * v
  <2>1. [e EXCEPT ![1] = v][1] = v /\ [e EXCEPT ![1] = v][2] = e[2]
    BY DEF Pair
  <2>2. [e EXCEPT ![2] = v][1] = e[1] /\ [e EXCEPT ![2] = v][2] = v
    BY DEF Pair
  <2> QED BY <2>1, <2>2 DEF Long
<1> QED BY <1>1, <1>3, <1>4, <1>5, <1>6, <1>7

\* With the low cell first, an index that grows is never too large meanwhile.
LEMMA LowCell ==
  ASSUME NEW n \in 0 .. Limit, NEW e \in Pair, Long(e) <= n
  PROVE  Long([e EXCEPT ![1] = Cells(n)[1]]) <= n
<1> DEFINE low == Cells(n)[1]
           high == Cells(n)[2]
<1>1. low \in Cell /\ high \in Cell /\ low + BASE * high = n /\ BASE * high \in Int
  BY CellsOK
<1>2. /\ BASE \in Nat /\ e[1] \in Nat /\ e[2] \in Nat /\ BASE * e[2] \in Nat
      /\ Long(e) = e[1] + BASE * e[2]
  BY LongOf, Constants
<1>3. Long([e EXCEPT ![1] = low]) = low + BASE * e[2]
  BY <1>1, LongOf
<1>4. low \in 0 .. BASE - 1 /\ high \in Nat
  BY <1>1, <1>2 DEF Cell
<1> HIDE DEF low, high
<1>5. e[2] <= high
  <2> SUFFICES ASSUME high + 1 <= e[2] PROVE FALSE
    BY <1>2, <1>4
  <2>1. BASE * (high + 1) <= BASE * e[2]
    BY <1>2, <1>4, MulMono
  <2>2. BASE * (high + 1) = BASE * high + BASE * 1
    BY <1>2, <1>4, Distribute
  <2> QED BY <1>1, <1>2, <1>4, <2>1, <2>2
<1>6. BASE * e[2] <= BASE * high
  BY <1>2, <1>4, <1>5, MulMono
<1>7. low + BASE * e[2] <= n
  BY <1>1, <1>2, <1>4, <1>6
<1> QED BY <1>3, <1>7 DEF low

LEMMA HighCell ==
  ASSUME NEW n \in 0 .. Limit, NEW e \in Pair, e[1] = Cells(n)[1]
  PROVE  Long([e EXCEPT ![2] = Cells(n)[2]]) = n
<1>1. Long([e EXCEPT ![2] = Cells(n)[2]]) = e[1] + BASE * Cells(n)[2]
  BY CellsOK, LongOf
<1> QED BY <1>1, CellsOK

\* An index that is reset is never larger meanwhile.
LEMMA ZeroCell ==
  ASSUME NEW e \in Pair, NEW j \in 1 .. 2
  PROVE  /\ [e EXCEPT ![j] = 0] \in Pair
         /\ Long([e EXCEPT ![j] = 0]) <= Long(e)
<1>1. 0 \in Cell /\ BASE \in Nat
  BY Constants DEF Cell
<1>2. /\ [e EXCEPT ![1] = 0] \in Pair /\ [e EXCEPT ![2] = 0] \in Pair
      /\ Long([e EXCEPT ![1] = 0]) = 0 + BASE * e[2]
      /\ Long([e EXCEPT ![2] = 0]) = e[1] + BASE * 0
  BY <1>1, LongOf
<1>3. /\ e[1] \in Nat /\ BASE * e[2] \in Nat /\ Long(e) = e[1] + BASE * e[2]
  BY <1>1, LongOf
<1>4. BASE * 0 = 0
  BY <1>1
<1>5. /\ Long([e EXCEPT ![1] = 0]) <= Long(e)
      /\ Long([e EXCEPT ![2] = 0]) <= Long(e)
  BY <1>2, <1>3, <1>4
<1>6. j = 1 \/ j = 2
  OBVIOUS
<1> QED BY <1>2, <1>5, <1>6
--------------------------------------------------------------------------------
\* The cells of the jobs.
Elements(s) == {s[k] : k \in 1 .. Len(s)}

LEMMA IndexCells ==
  ASSUME NEW t \in [Counters -> 0 .. Limit]
  PROVE  /\ IndexJob(t).left \in Seq(Elements(IndexJob(t).left))
         /\ Len(IndexJob(t).left) = 4
         /\ IndexJob(t).left[1] = <<"routed", 1, Cells(t.routed)[1]>>
         /\ IndexJob(t).left[2] = <<"routed", 2, Cells(t.routed)[2]>>
         /\ IndexJob(t).left[3] = <<"impulsion", 1, Cells(t.impulsion)[1]>>
         /\ IndexJob(t).left[4] = <<"impulsion", 2, Cells(t.impulsion)[2]>>
<1> DEFINE a == <<"routed", 1, Cells(t.routed)[1]>>
           b == <<"routed", 2, Cells(t.routed)[2]>>
           c == <<"impulsion", 1, Cells(t.impulsion)[1]>>
           d == <<"impulsion", 2, Cells(t.impulsion)[2]>>
           s == <<a, b, c, d>>
<1>1. IndexJob(t).left = s
  BY DEF IndexJob
<1>2. Len(s) = 4 /\ s[1] = a /\ s[2] = b /\ s[3] = c /\ s[4] = d
  OBVIOUS
<1>3. s \in Seq(Elements(s))
  <2> HIDE DEF a, b, c, d
  <2> QED BY DEF Elements
<1> HIDE DEF s
<1> QED BY <1>1, <1>2, <1>3

LEMMA ConfigCells ==
  ASSUME NEW v
  PROVE  /\ InConfig(v) \in Seq(Elements(InConfig(v)))
         /\ Len(InConfig(v)) = 7
         /\ \A k \in 1 .. 7 : InConfig(v)[k] = <<"config", k, v[k]>>
<1> DEFINE s == InConfig(v)
<1>1. DOMAIN s = 1 .. 7 /\ s = [k \in 1 .. 7 |-> s[k]]
  BY DEF InConfig
<1>2. \A k \in 1 .. 7 : s[k] = <<"config", k, v[k]>>
  BY DEF InConfig
<1> HIDE DEF s
<1>3. Len(s) = 7
  BY <1>1
<1>4. s \in Seq(Elements(s))
  BY <1>1, <1>3 DEF Elements
<1> QED BY <1>2, <1>3, <1>4 DEF s

LEMMA FormatCells ==
  /\ FormatJob.left \in Seq(Elements(FormatJob.left))
  /\ Len(FormatJob.left) = 11
  /\ \A k \in 1 .. 7 : FormatJob.left[k] = <<"config", k, 0>>
  /\ FormatJob.left[8] = <<"routed", 1, 0>> /\ FormatJob.left[9] = <<"routed", 2, 0>>
  /\ FormatJob.left[10] = <<"impulsion", 1, 0>> /\ FormatJob.left[11] = <<"impulsion", 2, 0>>
<1> DEFINE v == [k \in 1 .. 7 |-> 0]
           t == [c \in Counters |-> 0]
           head == InConfig(v)
           tail == IndexJob(t).left
           S == Elements(head) \cup Elements(tail)
           s == head \o tail
<1>1. \A k \in 1 .. 7 : v[k] = 0
  OBVIOUS
<1>2. 0 \in 0 .. Limit
  BY Constants
<1>3. t \in [Counters -> 0 .. Limit] /\ t.routed = 0 /\ t.impulsion = 0
  BY <1>2 DEF Counters
<1>4. Cells(0)[1] = 0 /\ Cells(0)[2] = 0
  BY CellsOK, <1>2
<1>5. /\ head \in Seq(Elements(head)) /\ Len(head) = 7
      /\ \A k \in 1 .. 7 : head[k] = <<"config", k, v[k]>>
  BY ConfigCells
<1>6. \A k \in 1 .. 7 : head[k] = <<"config", k, 0>>
  BY <1>1, <1>5
<1>7. /\ tail \in Seq(Elements(tail)) /\ Len(tail) = 4
      /\ tail[1] = <<"routed", 1, 0>> /\ tail[2] = <<"routed", 2, 0>>
      /\ tail[3] = <<"impulsion", 1, 0>> /\ tail[4] = <<"impulsion", 2, 0>>
  BY <1>3, <1>4, IndexCells
<1>8. FormatJob.left = s
  BY DEF FormatJob
<1> HIDE DEF head, tail
<1>9. head \in Seq(S) /\ tail \in Seq(S)
  BY <1>5, <1>7
<1> HIDE DEF S
<1>10. /\ s \in Seq(S) /\ Len(s) = 11
       /\ \A k \in 1 .. 11 : s[k] = IF k <= 7 THEN head[k] ELSE tail[k - 7]
  <2>1. /\ s \in Seq(S) /\ Len(s) = Len(head) + Len(tail)
        /\ \A k \in 1 .. Len(head) + Len(tail) :
             s[k] = IF k <= Len(head) THEN head[k] ELSE tail[k - Len(head)]
    BY <1>9, ConcatProperties
  <2> HIDE DEF s
  <2> QED BY <1>5, <1>7, <2>1
<1> HIDE DEF s
<1>11. \A k \in 1 .. 7 : s[k] = head[k]
  BY <1>10
<1>12. s[8] = tail[1] /\ s[9] = tail[2] /\ s[10] = tail[3] /\ s[11] = tail[4]
  BY <1>10
<1>13. s \in Seq(Elements(s))
  <2>1. /\ \A k \in 1 .. Len(s) : s[k] \in Elements(s)
        /\ s = [k \in 1 .. Len(s) |-> s[k]] /\ Len(s) \in Nat
    BY <1>10, LenProperties DEF Elements
  <2> QED BY <2>1
<1> QED BY <1>6, <1>7, <1>8, <1>10, <1>11, <1>12, <1>13

\* The jobs, as they begin.
LEMMA NewIndexJob ==
  ASSUME NEW t \in [Counters -> 0 .. Limit]
  PROVE  /\ IndexJob(t).what = "indexes" /\ IndexJob(t) # NoJob
         /\ IndexJob(t).left = LeftFrom(IndexJob(t).left, 1)
         /\ IndexJob(t) = [what |-> IndexJob(t).what, left |-> IndexJob(t).left]
<1>1. IndexJob(t).left = LeftFrom(IndexJob(t).left, 1)
  BY IndexCells, LeftFromOK
<1> QED BY <1>1 DEF IndexJob, NoJob

LEMMA NewConfigJob ==
  ASSUME NEW what, NEW v
  PROVE  /\ ConfigJob(what, v).what = what /\ ConfigJob(what, v) # NoJob
         /\ ConfigJob(what, v).left = LeftFrom(InConfig(v), 1)
         /\ ConfigJob(what, v) = [what |-> what, left |-> ConfigJob(what, v).left]
<1>1. InConfig(v) = LeftFrom(InConfig(v), 1) /\ Len(InConfig(v)) # 0
  BY ConfigCells, LeftFromOK
<1>2. ConfigJob(what, v).left = InConfig(v)
  BY DEF ConfigJob
<1>3. ConfigJob(what, v) # NoJob
  BY <1>1, <1>2 DEF NoJob
<1> QED BY <1>1, <1>2, <1>3 DEF ConfigJob

LEMMA NewFormatJob ==
  /\ FormatJob.what = "format" /\ FormatJob # NoJob
  /\ FormatJob.left = LeftFrom(FormatJob.left, 1)
  /\ FormatJob = [what |-> FormatJob.what, left |-> FormatJob.left]
<1>1. FormatJob.left = LeftFrom(FormatJob.left, 1)
  BY FormatCells, LeftFromOK
<1> QED BY <1>1 DEF FormatJob, NoJob

LEMMA PairTuple == ASSUME NEW e \in Pair PROVE e \in (0 .. BASE - 1) \X (0 .. BASE - 1)
  BY DEF Pair, Cell

\* The parts of the invariant other than the types of the cells, which they follow.
Types ==
  /\ index \in [Counters -> 0 .. Limit]
  /\ config \in [{"v1", "v2"} -> Values]
  /\ job.what \in {"none", "config", "first", "indexes", "clear", "format"}
  /\ pc \in {"config", "indexes", "run"} /\ (pc = "config" => Idle)
  /\ PVRClock \in 0 .. HOUR * NB_CYCLES - 1 /\ phase \in 0 .. NB_CYCLES - 1
  /\ unsaved \in 0 .. HOUR + 1
Flags == skipped \in BOOLEAN /\ cut \in BOOLEAN /\ torn \in 0 .. 2
Behind == pc = "run" /\ job.what # "clear" => \A c \in Counters : Long(eeIndex[c]) <= index[c]

LEMMA TypesOK == Types /\ Flags /\ CellTypes => TypeOK
<1>1. CellTypes => \A c \in Counters : eeIndex[c] \in Pair
  BY DEF CellTypes, Pair, Cell
<1>2. CellTypes => \A k \in DOMAIN eeConfig : eeConfig[k] \in 0 .. BASE - 1
  BY DEF CellTypes
<1> QED BY <1>1, <1>2, PairTuple DEF Types, Flags, TypeOK

LEMMA InvParts == StorageInv <=> Types /\ Flags /\ CellTypes /\ Jobs /\ Seconds /\ Behind
<1>1. TypeOK => Types /\ Flags
  BY DEF TypeOK, Types, Flags
<1> QED BY <1>1, TypesOK DEF StorageInv, Behind

LEMMA InvPartsNext ==
  Types' /\ Flags' /\ CellTypes' /\ Jobs' /\ Seconds' /\ Behind' => StorageInv'
<1>1. CellTypes' => \A c \in Counters : eeIndex'[c] \in Pair
  BY DEF CellTypes, Pair, Cell
<1>2. CellTypes' => \A k \in DOMAIN eeConfig' : eeConfig'[k] \in 0 .. BASE - 1
  BY DEF CellTypes
<1>3. Types' /\ Flags' /\ CellTypes' => TypeOK'
  BY <1>1, <1>2, PairTuple DEF Types, Flags, TypeOK
<1> QED BY <1>3 DEF StorageInv, Behind

LEMMA InvInit == Init => StorageInv
<1> SUFFICES ASSUME Init PROVE StorageInv
  OBVIOUS
<1>1. /\ 0 \in 0 .. Limit /\ 0 \in Cell
      /\ BASE \in Nat /\ NB_CYCLES \in Nat \ {0} /\ HOUR \in Nat \ {0}
  BY Constants DEF Cell
<1>2. <<0, 0>> \in Pair /\ Long(<<0, 0>>) = 0
  <2>1. <<0, 0>> \in Pair
    BY <1>1 DEF Pair
  <2>2. Long(<<0, 0>>) = 0 + BASE * 0
    BY DEF Long
  <2> QED BY <1>1, <2>1, <2>2
<1>3. /\ index = [c \in Counters |-> 0] /\ config = [v1 |-> minValue, v2 |-> minValue]
      /\ eeIndex = [c \in Counters |-> <<0, 0>>]
      /\ job = NoJob /\ pc = "config" /\ PVRClock = 0 /\ phase = 0
      /\ unsaved = 0 /\ skipped = FALSE /\ cut = FALSE /\ torn = 0
  BY DEF Init
<1>4. eeConfig \in [1 .. 7 -> 0 .. BASE - 1]
  <2>1. PICK image \in Images :
          eeConfig = CASE image = "version 1" -> dataEeprom(1, Cells(minValue), <<BLANK, BLANK>>)
                       [] image = "version 2" -> dataEeprom(2, Cells(minValue), Cells(minValue))
    BY DEF Init
  <2>2. image = "version 1" \/ image = "version 2"
    BY StorageAssumption
  <2>3. \/ eeConfig = dataEeprom(1, Cells(minValue), <<BLANK, BLANK>>)
        \/ eeConfig = dataEeprom(2, Cells(minValue), Cells(minValue))
    BY <2>1, <2>2
  <2>4. /\ Cells(minValue)[1] \in Cell /\ Cells(minValue)[2] \in Cell
        /\ 1 \in Cell /\ 2 \in Cell /\ BLANK \in Cell
    BY MinValue, ValueCells, Constants DEF BLANK, Cell
  <2> QED BY <2>3, <2>4 DEF dataEeprom, MAGIC, Cell
<1>5. eeIndex \in [Counters -> [1 .. 2 -> 0 .. BASE - 1]]
  BY <1>2, <1>3 DEF Pair, Cell
<1>6. \A c \in Counters : Long(eeIndex[c]) <= Limit
  BY <1>1, <1>2, <1>3
<1>7. CellTypes
  BY <1>4, <1>5, <1>6 DEF CellTypes
<1>8. HOUR * NB_CYCLES \in Nat \ {0}
  BY <1>1
<1>9. /\ index \in [Counters -> 0 .. Limit]
      /\ config \in [{"v1", "v2"} -> Values]
      /\ PVRClock \in 0 .. HOUR * NB_CYCLES - 1 /\ phase \in 0 .. NB_CYCLES - 1
      /\ unsaved \in 0 .. HOUR + 1
  BY <1>1, <1>3, <1>8, MinValue
<1>10. Types
  BY <1>3, <1>9 DEF Types, NoJob, Idle
<1>11. Flags
  <2>1. skipped \in BOOLEAN /\ cut \in BOOLEAN
    BY <1>3
  <2>2. torn \in 0 .. 2
    BY <1>3
  <2> QED BY <2>1, <2>2 DEF Flags
<1>12. Jobs
  BY <1>3 DEF Jobs, NoJob, Idle
<1>13. 0 \div NB_CYCLES = 0 /\ 0 % NB_CYCLES = 0
  BY <1>1
<1>14. Seconds
  BY <1>3, <1>13 DEF Seconds
<1> QED BY <1>3, <1>7, <1>10, <1>11, <1>12, <1>14, InvParts DEF Behind
--------------------------------------------------------------------------------
\* The parts of the state that an action writes in the same way.

LEMMA LaunchConfig ==
  ASSUME NEW what \in {"config", "first"}, job' = ConfigJob(what, Data(config'))
  PROVE  Jobs' /\ job'.what = what /\ ConfigUpTo(1)' /\ ~Idle'
<1>1. /\ job'.what = what /\ job' # NoJob
      /\ job' = [what |-> job'.what, left |-> job'.left]
      /\ job'.left = LeftFrom(InConfig(Data(config')), 1)
  <2> DEFINE v == Data(config')
  <2>1. job' = ConfigJob(what, v)
    OBVIOUS
  <2> HIDE DEF v
  <2>2. /\ ConfigJob(what, v).what = what /\ ConfigJob(what, v) # NoJob
        /\ ConfigJob(what, v).left = LeftFrom(InConfig(v), 1)
        /\ ConfigJob(what, v) = [what |-> what, left |-> ConfigJob(what, v).left]
    BY NewConfigJob
  <2> QED BY <2>1, <2>2 DEF v
<1>2. ConfigUpTo(1)'
  BY <1>1 DEF ConfigUpTo, Data
<1> QED BY <1>1, <1>2 DEF Jobs, Idle

LEMMA LaunchIndexes ==
  ASSUME NEW t \in [Counters -> 0 .. Limit], index' = t, pc' = "run", eeIndex' = eeIndex,
         \/ /\ job' = IndexJob(t)
            /\ \A c \in Counters : Long(eeIndex[c]) <= t[c]
         \/ /\ job' = [IndexJob(t) EXCEPT !.what = "clear"]
            /\ \A c \in Counters : t[c] = 0
  PROVE  Jobs' /\ job'.what \in {"indexes", "clear"} /\ ~Idle'
<1>1. /\ IndexJob(t).what = "indexes" /\ IndexJob(t) # NoJob
      /\ IndexJob(t).left = LeftFrom(IndexJob(t).left, 1)
      /\ IndexJob(t) = [what |-> IndexJob(t).what, left |-> IndexJob(t).left]
  BY NewIndexJob
<1>2. /\ job'.what \in {"indexes", "clear"}
      /\ job' = [what |-> job'.what, left |-> job'.left]
      /\ job'.left = IndexJob(t).left
  BY <1>1
<1>3. job' # NoJob
  BY <1>2 DEF NoJob
<1>4. \A c \in Counters : t[c] \in Nat
  BY Constants
<1>5. \A c \in Counters : t[c] <= index'[c]
  BY <1>4
<1>6. /\ job'.what = "indexes" => \A c \in Counters : Long(eeIndex'[c]) <= t[c]
      /\ job'.what = "clear" => \A c \in Counters : t[c] = 0
  BY <1>1
<1>7. job'.left = LeftFrom(IndexJob(t).left, 1)
  BY <1>1, <1>2
<1>8. IndexesUpTo(t, 1)'
  BY <1>5, <1>6, <1>7 DEF IndexesUpTo
<1>9. \E table \in [Counters -> 0 .. Limit], k \in 1 .. 4 : IndexesUpTo(table, k)'
  BY <1>8
<1> QED BY <1>2, <1>3, <1>9 DEF Jobs, Idle

LEMMA NoJobOK == job' = NoJob => Jobs'
  BY DEF Jobs, NoJob, Idle

LEMMA SameCells == CellTypes /\ UNCHANGED eeprom => CellTypes'
  BY DEF CellTypes, eeprom

\* The configuration, the EEPROM and the indexes apart.
LEMMA ConfigStep ==
  ASSUME StorageInv, pc' \in {"indexes", "run"}, UNCHANGED <<index, eeprom, clock, history>>, Idle,
         config' \in [{"v1", "v2"} -> Values],
         \/ UNCHANGED job
         \/ \E what \in {"config", "first"} : job' = ConfigJob(what, Data(config')),
         pc' = "run" => pc = "run"
  PROVE  StorageInv'
<1>1. Types /\ Flags /\ CellTypes /\ Jobs /\ Seconds /\ Behind
  BY InvParts
<1>2. job = NoJob /\ job.what = "none"
  BY DEF Idle, NoJob
<1>3. Jobs' /\ job'.what \in {"none", "config", "first"}
  <2>1. CASE UNCHANGED job
    BY <1>2, <2>1, NoJobOK
  <2>2. CASE \E what \in {"config", "first"} : job' = ConfigJob(what, Data(config'))
    BY <2>2, LaunchConfig
  <2> QED BY <2>1, <2>2
<1>4. Types' /\ Flags'
  BY <1>1, <1>3 DEF Types, Flags, clock, history
<1>5. CellTypes'
  BY <1>1, SameCells
<1>6. Seconds'
  BY <1>1, <1>2, <1>3 DEF Seconds, clock, history, eeprom
<1>7. Behind'
  BY <1>1, <1>2, <1>3 DEF Behind, eeprom
<1> QED BY <1>3, <1>4, <1>5, <1>6, <1>7, InvPartsNext

LEMMA ConfigInUse == StorageInv => config \in [{"v1", "v2"} -> Values]
  BY DEF StorageInv, TypeOK

LEMMA InvLoad ==
  ASSUME StorageInv, LoadConfig
  PROVE  /\ config' \in [{"v1", "v2"} -> Values]
         /\ \/ UNCHANGED job
            \/ \E what \in {"config", "first"} : job' = ConfigJob(what, Data(config'))
<1>1. CASE ValidConfig
  <2>1. config' = Stored /\ UNCHANGED job
    BY <1>1 DEF LoadConfig
  <2>2. Stored \in [{"v1", "v2"} -> Values]
    BY StoredOK DEF StorageInv
  <2> QED BY <2>1, <2>2
<1>2. CASE ~ValidConfig
  BY <1>2, ConfigInUse DEF LoadConfig, eeConfigWrite, Data
<1> QED BY <1>1, <1>2

LEMMA InvSetup == StorageInv /\ Setup => StorageInv'
<1> SUFFICES ASSUME StorageInv, Setup PROVE StorageInv'
  OBVIOUS
<1>1. Idle /\ pc = "config"
  BY DEF StorageInv, TypeOK, Setup
<1>2. LoadConfig /\ pc' = "indexes" /\ UNCHANGED <<index, eeprom, clock, history>>
  BY DEF Setup
<1> QED BY <1>1, <1>2, InvLoad, ConfigStep

LEMMA InvConfigRequests ==
  StorageInv /\ (SETPARAM \/ SAVECFG \/ LOADCFG) => StorageInv'
<1> SUFFICES ASSUME StorageInv, SETPARAM \/ SAVECFG \/ LOADCFG PROVE StorageInv'
  OBVIOUS
<1>1. CASE SETPARAM
  <2>1. config' \in [{"v1", "v2"} -> Values]
    BY <1>1, ConfigInUse, LimitsValues DEF SETPARAM
  <2> QED BY <1>1, <2>1, ConfigStep DEF SETPARAM, InLoop
<1>2. CASE SAVECFG
  <2>1. UNCHANGED config /\ config' \in [{"v1", "v2"} -> Values]
    BY <1>2, ConfigInUse DEF SAVECFG, memory
  <2> QED BY <1>2, <2>1, ConfigStep DEF SAVECFG, InLoop, eeConfigWrite, memory, Data
<1>3. CASE LOADCFG
  <2>1. LoadConfig /\ UNCHANGED <<index, eeprom, pc, clock, history>> /\ pc = "run" /\ Idle
    BY <1>3 DEF LOADCFG, InLoop
  <2> QED BY <2>1, InvLoad, ConfigStep
<1> QED BY <1>1, <1>2, <1>3

LEMMA InvIndexRead == StorageInv /\ indexRead => StorageInv'
<1> SUFFICES ASSUME StorageInv, indexRead PROVE StorageInv'
  OBVIOUS
<1>1. Types /\ Flags /\ CellTypes /\ Jobs /\ Seconds /\ Behind
  BY InvParts
<1>2. /\ job = NoJob /\ pc' = "run" /\ index' = [c \in Counters |-> Long(eeIndex[c])]
      /\ UNCHANGED <<config, eeprom, job, clock, history>>
  BY DEF indexRead, Idle
<1>3. \A c \in Counters : Long(eeIndex[c]) \in Nat /\ Long(eeIndex[c]) <= Limit
  BY <1>1, LongOf DEF CellTypes, Pair, Cell
<1>4. index' \in [Counters -> 0 .. Limit]
  BY <1>2, <1>3, Constants
<1>5. Types' /\ Flags'
  BY <1>1, <1>2, <1>4 DEF Types, Flags, clock, history, Idle
<1>6. CellTypes' /\ Jobs'
  BY <1>1, <1>2, SameCells, NoJobOK
<1>7. Behind'
  BY <1>2, <1>3 DEF Behind, eeprom
<1>8. index'.routed - Long(eeIndex'.routed) = 0
  <2>1. index'.routed = Long(eeIndex.routed) /\ Long(eeIndex.routed) \in Nat
    BY <1>2, <1>3 DEF Counters
  <2> QED BY <1>2, <2>1 DEF eeprom
<1>9. Seconds'
  BY <1>1, <1>2, <1>8 DEF Seconds, clock, history, Types
<1> QED BY <1>5, <1>6, <1>7, <1>9, InvPartsNext

LEMMA InvPowerFails == StorageInv /\ PowerFails => StorageInv'
<1> SUFFICES ASSUME StorageInv, PowerFails PROVE StorageInv'
  OBVIOUS
<1>1. Types /\ Flags /\ CellTypes
  BY InvParts
<1>2. /\ pc' = "config" /\ index' = [c \in Counters |-> 0]
      /\ config' = [v1 |-> minValue, v2 |-> minValue] /\ job' = NoJob
      /\ PVRClock' = 0 /\ phase' = 0 /\ unsaved' = 0 /\ skipped' = FALSE
      /\ UNCHANGED eeprom
  BY DEF PowerFails
<1>3. cut' \in BOOLEAN /\ torn' \in 0 .. 2
  BY <1>1 DEF PowerFails, Flags
<1>4. /\ Limit \in Nat /\ NB_CYCLES \in Nat \ {0} /\ HOUR \in Nat \ {0}
      /\ HOUR * NB_CYCLES \in Nat \ {0}
  BY Constants
<1>5. Types'
  BY <1>2, <1>4, MinValue DEF Types, Idle, NoJob
<1>6. Flags'
  BY <1>2, <1>3 DEF Flags
<1>7. 0 \div NB_CYCLES = 0 /\ 0 % NB_CYCLES = 0
  BY <1>4
<1>8. Seconds'
  BY <1>2, <1>7 DEF Seconds
<1> QED BY <1>1, <1>2, <1>5, <1>6, <1>8, SameCells, NoJobOK, InvPartsNext DEF Behind
--------------------------------------------------------------------------------
\* A second of the hour, and a cycle of the second.
LEMMA ClockParts ==
  ASSUME NEW P \in 0 .. HOUR * NB_CYCLES - 1
  PROVE  /\ P \div NB_CYCLES \in 0 .. HOUR - 1 /\ P % NB_CYCLES \in 0 .. NB_CYCLES - 1
         /\ NB_CYCLES * (P \div NB_CYCLES) \in Nat
         /\ P = NB_CYCLES * (P \div NB_CYCLES) + (P % NB_CYCLES)
<1> DEFINE q == P \div NB_CYCLES
           r == P % NB_CYCLES
           day == NB_CYCLES * HOUR
<1>1. NB_CYCLES \in Nat \ {0} /\ HOUR \in Nat \ {0}
  BY Constants
<1>2. day \in Nat /\ HOUR * NB_CYCLES = day
  BY <1>1
<1>3. P \in Nat /\ P < day
  BY <1>2
<1>4. q \in Nat /\ r \in 0 .. NB_CYCLES - 1
  BY <1>1, <1>3, DivModRange
<1>5. r = P - NB_CYCLES * q
  BY <1>1, <1>3, DivMod
<1> HIDE DEF q, r
<1>6. NB_CYCLES * q \in Nat
  BY <1>1, <1>4
<1>7. P = NB_CYCLES * q + r
  BY <1>1, <1>3, <1>4, <1>5, <1>6
<1>8. q < HOUR
  <2> SUFFICES ASSUME HOUR <= q PROVE FALSE
    BY <1>1, <1>4
  <2>1. day <= NB_CYCLES * q
    BY <1>1, <1>4, MulMono
  <2> HIDE DEF day
  <2> QED BY <1>1, <1>2, <1>3, <1>4, <1>6, <1>7, <2>1
<1>9. q \in 0 .. HOUR - 1
  BY <1>1, <1>4, <1>8
<1> QED BY <1>4, <1>6, <1>7, <1>9 DEF q, r

\* The indexes are all saved.
LEMMA SaveStep ==
  ASSUME StorageInv, InLoop, NEW t \in [Counters -> 0 .. Limit], index' = t,
         \/ /\ job' = IndexJob(t)
            /\ \A c \in Counters : index[c] <= t[c]
         \/ /\ job' = [IndexJob(t) EXCEPT !.what = "clear"]
            /\ \A c \in Counters : t[c] = 0,
         unsaved' = 0, skipped' \in BOOLEAN, UNCHANGED <<config, eeprom, pc, cut, torn>>,
         PVRClock' \in 0 .. HOUR * NB_CYCLES - 1, phase' \in 0 .. NB_CYCLES - 1
  PROVE  StorageInv'
<1>1. Types /\ Flags /\ CellTypes /\ Jobs /\ Seconds /\ Behind
  BY InvParts
<1>2. pc = "run" /\ job = NoJob /\ job.what = "none"
  BY DEF InLoop, Idle, NoJob
<1>3. \A c \in Counters : Long(eeIndex[c]) <= index[c]
  BY <1>1, <1>2 DEF Behind
<1>4. \A c \in Counters : Long(eeIndex[c]) \in Nat /\ index[c] \in Nat /\ t[c] \in Nat
  BY <1>1, LongOf, Constants DEF CellTypes, Pair, Cell, Types
<1>5. (\A c \in Counters : index[c] <= t[c]) => \A c \in Counters : Long(eeIndex[c]) <= t[c]
  BY <1>3, <1>4
<1>6. Jobs' /\ job'.what \in {"indexes", "clear"} /\ ~Idle'
  <2>1. pc' = "run" /\ eeIndex' = eeIndex
    BY <1>2 DEF eeprom
  <2> QED BY <1>5, <2>1, LaunchIndexes
<1>7. Types'
  BY <1>1, <1>2, <1>6, Constants DEF Types
<1>8. Flags'
  BY <1>1 DEF Flags
<1>9. CellTypes'
  BY <1>1, SameCells
<1>10. PVRClock' \div NB_CYCLES \in Nat
  BY ClockParts, Constants
<1>11. Seconds'
  BY <1>6, <1>10 DEF Seconds
<1>12. job' = IndexJob(t) \/ job'.what = "clear"
  BY NewIndexJob
<1>13. Behind'
  <2>1. CASE job'.what = "clear"
    BY <2>1 DEF Behind
  <2>2. CASE \A c \in Counters : index[c] <= t[c]
    BY <1>5, <2>2 DEF Behind, eeprom
  <2> QED BY <2>1, <2>2, NewIndexJob
<1> QED BY <1>6, <1>7, <1>8, <1>9, <1>11, <1>13, InvPartsNext

LEMMA InvSaves == StorageInv /\ (SAVEINDX \/ INDX0 \/ Restart) => StorageInv'
<1> SUFFICES ASSUME StorageInv, SAVEINDX \/ INDX0 \/ Restart PROVE StorageInv'
  OBVIOUS
<1>1. Types
  BY InvParts
<1>2. /\ index \in [Counters -> 0 .. Limit] /\ \A c \in Counters : index[c] <= index[c]
      /\ PVRClock \in 0 .. HOUR * NB_CYCLES - 1 /\ phase \in 0 .. NB_CYCLES - 1
  BY <1>1, Constants DEF Types
<1>3. CASE SAVEINDX
  <2>1. /\ InLoop /\ index' = index /\ job' = IndexJob(index') /\ unsaved' = 0 /\ skipped' = FALSE
        /\ UNCHANGED <<config, eeprom, pc, cut, torn>> /\ PVRClock' = PVRClock /\ phase' = phase
    BY <1>3 DEF SAVEINDX, indexWrite, Saving, memory, clock
  <2> QED BY <1>2, <2>1, SaveStep
<1>4. CASE INDX0
  <2> DEFINE t == [c \in Counters |-> 0]
  <2>1. /\ InLoop /\ index' = t /\ job' = [IndexJob(t) EXCEPT !.what = "clear"]
        /\ unsaved' = 0 /\ skipped' = FALSE
        /\ UNCHANGED <<config, eeprom, pc, cut, torn>> /\ PVRClock' = PVRClock /\ phase' = phase
    BY <1>4 DEF INDX0, Saving, clock
  <2>2. t \in [Counters -> 0 .. Limit] /\ \A c \in Counters : t[c] = 0
    BY Constants
  <2> HIDE DEF t
  <2> QED BY <1>2, <2>1, <2>2, SaveStep
<1>5. CASE Restart
  <2>1. PICK cycles \in 0 .. NB_CYCLES - 1 :
          PVRClock' = (PVRClock + cycles) % (HOUR * NB_CYCLES) /\ phase' = PVRClock' % NB_CYCLES
    BY <1>5 DEF Restart
  <2>2. HOUR * NB_CYCLES \in Nat \ {0} /\ PVRClock + cycles \in Nat
    BY <1>2, Constants
  <2>3. PVRClock' \in 0 .. HOUR * NB_CYCLES - 1
    BY <2>1, <2>2, DivModRange
  <2>4. phase' \in 0 .. NB_CYCLES - 1
    BY <2>1, <2>3, ClockParts
  <2>5. /\ InLoop /\ index' = index /\ job' = IndexJob(index') /\ unsaved' = 0 /\ skipped' = FALSE
        /\ UNCHANGED <<config, eeprom, pc, cut, torn>>
    BY <1>5 DEF Restart, indexWrite, Saving, memory
  <2> QED BY <1>2, <2>3, <2>4, <2>5, SaveStep
<1> QED BY <1>3, <1>4, <1>5

LEMMA InvFormat == StorageInv /\ FORMAT => StorageInv'
<1> SUFFICES ASSUME StorageInv, FORMAT PROVE StorageInv'
  OBVIOUS
<1>1. Types /\ Flags /\ CellTypes /\ Jobs /\ Seconds /\ Behind
  BY InvParts
<1>2. /\ pc = "run" /\ job = NoJob /\ job' = FormatJob /\ skipped' = TRUE
      /\ UNCHANGED <<memory, eeprom, pc, clock, unsaved, cut, torn>>
  BY DEF FORMAT, InLoop, Idle
<1>3. /\ job'.what = "format" /\ job' # NoJob /\ job'.left = LeftFrom(FormatJob.left, 1)
      /\ job' = [what |-> job'.what, left |-> job'.left]
  BY <1>2, NewFormatJob
<1>4. FormatUpTo(1)'
  BY <1>2, <1>3 DEF FormatUpTo
<1>5. Jobs'
  BY <1>2, <1>3, <1>4 DEF Jobs, Idle
<1>6. Types' /\ Flags'
  BY <1>1, <1>2, <1>3 DEF Types, Flags, memory, clock
<1>7. Seconds'
  BY <1>2 DEF Seconds
<1>8. Behind'
  BY <1>1, <1>2 DEF Behind, memory, eeprom, NoJob
<1> QED BY <1>1, <1>2, <1>5, <1>6, <1>7, <1>8, SameCells, InvPartsNext

\* The loop is at second q and cycle r as it processes a window: those of the
\* window, when it is not a second late.
LEMMA WindowTime ==
  ASSUME PVRClock \in 0 .. HOUR * NB_CYCLES - 1, phase \in 0 .. NB_CYCLES - 1,
         NEW late \in 0 .. NB_CYCLES - 1, NEW now, now = WindowEnd + late
  PROVE  \E q \in Nat, r \in 0 .. NB_CYCLES - 1 :
           /\ now \div NB_CYCLES = q
           /\ now % (HOUR * NB_CYCLES) \in 0 .. HOUR * NB_CYCLES - 1
           /\ (now % (HOUR * NB_CYCLES)) \div NB_CYCLES = q % HOUR
           /\ (now % (HOUR * NB_CYCLES)) % NB_CYCLES = r
           /\ phase + late < NB_CYCLES =>
                /\ r = phase + late
                /\ q = PVRClock \div NB_CYCLES
                         + (IF phase > PVRClock % NB_CYCLES THEN 0 ELSE 1)
<1> DEFINE second == PVRClock \div NB_CYCLES
           cycle == PVRClock % NB_CYCLES
           next == IF phase > cycle THEN 0 ELSE 1
           over == IF phase + late < NB_CYCLES THEN 0 ELSE 1
           q == second + (next + over)
           r == phase + late - NB_CYCLES * over
           day == HOUR * NB_CYCLES
           C == NB_CYCLES
<1>1. C \in Nat \ {0} /\ HOUR \in Nat \ {0} /\ phase \in Nat /\ late \in Nat
  BY Constants
<1>2. second \in 0 .. HOUR - 1 /\ cycle \in 0 .. C - 1 /\ C * second \in Nat
  BY ClockParts
<1>3. now = second * C + phase + (IF phase > cycle THEN 0 ELSE C) + late
  BY DEF WindowEnd
<1>4. second \in Nat
  BY <1>1, <1>2
<1> HIDE DEF second, cycle
<1>5. second * C = C * second
  BY <1>1, <1>4
<1>6. next \in 0 .. 1 /\ over \in 0 .. 1 /\ C * next = (IF phase > cycle THEN 0 ELSE C)
  BY <1>1
<1>7. C * over = (IF phase + late < C THEN 0 ELSE C) /\ r \in 0 .. C - 1
  BY <1>1
<1> HIDE DEF next, over
<1>8. C * q = C * second + C * (next + over) /\ C * (next + over) = C * next + C * over
  BY <1>1, <1>4, <1>6, Distribute
<1>9. q \in Nat /\ C * next \in Nat /\ C * over \in Nat
  BY <1>1, <1>4, <1>6
<1>10. now = C * q + r
  <2>1. now = C * second + phase + C * next + late
    BY <1>1, <1>2, <1>3, <1>5, <1>6
  <2> DEFINE a == C * second
             b == C * next
             o == C * over
             m == C * q
  <2>2. m = a + (b + o) /\ r = phase + late - o
    BY <1>8
  <2>3. a \in Nat /\ b \in Nat /\ o \in Nat /\ now = a + phase + b + late
    BY <1>2, <1>9, <2>1
  <2>4. now = m + r
    <3> HIDE DEF a, b, o, m, r
    <3> QED BY <1>1, <2>2, <2>3
  <2> QED BY <2>4
<1>11. /\ phase + late < C => over = 0 /\ r = phase + late
       /\ next = (IF phase > cycle THEN 0 ELSE 1)
  BY <1>1 DEF over, next
<1>12. phase + late < C => r = phase + late /\ q = second + (IF phase > cycle THEN 0 ELSE 1)
  <2>1. phase + late < C => q = second + next
    BY <1>4, <1>6, <1>11
  <2> QED BY <1>11, <2>1
<1> HIDE DEF q, r
<1>13. /\ (C * q + r) % day = C * (q % HOUR) + r
       /\ C * (q % HOUR) + r \in 0 .. day - 1
  BY <1>1, <1>7, <1>9, HourClock
<1>14. now \div C = q
  <2>1. now \in Int
    BY <1>1, <1>7, <1>9, <1>10
  <2>2. C \in Nat \ {0} /\ q \in Int /\ r \in 0 .. C - 1 /\ now = C * q + r
    BY <1>1, <1>7, <1>9, <1>10
  <2> HIDE DEF C
  <2> QED BY <2>1, <2>2, DivModUnique
<1>15. (now % day) \div C = q % HOUR /\ (now % day) % C = r
  <2>1. now % day = C * (q % HOUR) + r /\ now % day \in 0 .. day - 1
    BY <1>10, <1>13
  <2>2. q % HOUR \in Nat
    BY <1>1, <1>9
  <2>3. now % day \in Int
    BY <1>1, <2>1
  <2> DEFINE m == now % day
             k == q % HOUR
  <2>4. C \in Nat \ {0} /\ k \in Int /\ r \in 0 .. C - 1 /\ m = C * k + r /\ m \in Int
    BY <1>1, <1>7, <2>1, <2>2, <2>3
  <2> HIDE DEF m, k, C
  <2>5. m \div C = k /\ m % C = r
    BY <2>4, DivModUnique
  <2> QED BY <2>5 DEF m, k, C
<1> QED BY <1>7, <1>9, <1>10, <1>12, <1>13, <1>14, <1>15 DEF second, cycle

LEMMA InvPulse == StorageInv /\ Pulse => StorageInv'
<1> SUFFICES ASSUME StorageInv, Pulse PROVE StorageInv'
  OBVIOUS
<1>1. Types /\ Flags /\ CellTypes /\ Jobs /\ Seconds /\ Behind
  BY InvParts
<1>2. /\ pc = "run" /\ index.impulsion < Limit
      /\ index' = [index EXCEPT !.impulsion = @ + 1]
      /\ UNCHANGED <<config, eeprom, job, pc, clock, history>>
  BY DEF Pulse
<1>3. index \in [Counters -> 0 .. Limit] /\ Limit \in Nat
  BY <1>1, Constants DEF Types
<1>4. /\ index'.routed = index.routed /\ index'.impulsion = index.impulsion + 1
      /\ index' \in [Counters -> 0 .. Limit]
  BY <1>2, <1>3 DEF Counters
<1>5. \A c \in Counters : index[c] <= index'[c] /\ index[c] \in Nat /\ index'[c] \in Nat
  BY <1>3, <1>4 DEF Counters
<1>6. Types' /\ Flags'
  BY <1>1, <1>2, <1>4 DEF Types, Flags, clock, history, Idle
<1>7. Jobs'
  <2>1. ASSUME NEW table \in [Counters -> 0 .. Limit], NEW k \in 1 .. 4, IndexesUpTo(table, k)
        PROVE  IndexesUpTo(table, k)'
    <3>1. \A c \in Counters : table[c] \in Nat /\ table[c] <= index[c]
      BY <1>3, <2>1 DEF IndexesUpTo
    <3>2. \A c \in Counters : table[c] <= index'[c]
      BY <1>5, <3>1
    <3> QED BY <1>2, <1>4, <2>1, <3>2 DEF IndexesUpTo, eeprom
  <2>2. \A k \in 1 .. 7 : ConfigUpTo(k) => ConfigUpTo(k)'
    BY <1>2 DEF ConfigUpTo, Stored, eeprom
  <2>3. \A k \in 1 .. 11 : FormatUpTo(k) => FormatUpTo(k)'
    BY <1>2 DEF FormatUpTo, eeprom, history
  <2>4. job' = job /\ pc' = pc /\ (Idle <=> Idle')
    BY <1>2 DEF Idle
  <2> QED BY <1>1, <2>1, <2>2, <2>3, <2>4 DEF Jobs
<1>8. Seconds'
  BY <1>1, <1>2, <1>4 DEF Seconds, clock, history, eeprom
<1>9. Behind'
  <2>1. \A c \in Counters : Long(eeIndex[c]) \in Nat
    BY <1>1, LongOf DEF CellTypes, Pair, Cell
  <2> QED BY <1>1, <1>2, <1>5, <2>1 DEF Behind, eeprom
<1> QED BY <1>1, <1>2, <1>6, <1>7, <1>8, <1>9, SameCells, InvPartsNext

LEMMA InvLoseWindow == StorageInv /\ LoseWindow => StorageInv'
<1> SUFFICES ASSUME StorageInv, LoseWindow PROVE StorageInv'
  OBVIOUS
<1>1. Types /\ Flags /\ CellTypes /\ Jobs /\ Seconds /\ Behind
  BY InvParts
<1>2. /\ pc = "run" /\ job = NoJob /\ PVRClock' = WindowEnd % (HOUR * NB_CYCLES)
      /\ skipped' = TRUE /\ unsaved' = (IF unsaved > HOUR THEN unsaved ELSE unsaved + 1)
      /\ UNCHANGED <<memory, eeprom, job, pc, phase, cut, torn>>
  BY DEF LoseWindow, InLoop, Idle
<1>3. /\ PVRClock \in 0 .. HOUR * NB_CYCLES - 1 /\ phase \in 0 .. NB_CYCLES - 1
      /\ unsaved \in 0 .. HOUR + 1
  BY <1>1 DEF Types
<1>4. NB_CYCLES \in Nat \ {0} /\ HOUR \in Nat \ {0} /\ HOUR * NB_CYCLES \in Nat \ {0}
  BY Constants
<1>5. WindowEnd \in Nat
  <2>1. PVRClock \div NB_CYCLES \in Nat
    BY <1>3, <1>4, ClockParts
  <2>2. (PVRClock \div NB_CYCLES) * NB_CYCLES \in Nat
    BY <1>4, <2>1
  <2> QED BY <1>3, <1>4, <2>2 DEF WindowEnd
<1>6. PVRClock' \in 0 .. HOUR * NB_CYCLES - 1
  BY <1>2, <1>4, <1>5, DivModRange
<1>7. unsaved' \in 0 .. HOUR + 1
  BY <1>2, <1>3, <1>4
<1>8. Types' /\ Flags'
  BY <1>1, <1>2, <1>6, <1>7 DEF Types, Flags, memory, Idle
<1>9. Seconds'
  BY <1>2 DEF Seconds
<1>10. Behind'
  BY <1>1, <1>2 DEF Behind, memory, eeprom
<1> QED BY <1>1, <1>2, <1>8, <1>9, <1>10, SameCells, NoJobOK, InvPartsNext

LEMMA InvWindow == StorageInv /\ Window => StorageInv'
<1> SUFFICES ASSUME StorageInv, Window PROVE StorageInv'
  OBVIOUS
<1>1. Types /\ Flags /\ CellTypes /\ Jobs /\ Seconds /\ Behind
  BY InvParts
<1>2. InLoop /\ pc = "run" /\ job = NoJob /\ UNCHANGED <<config, eeprom, pc, phase, cut, torn>>
  BY DEF Window, InLoop, Idle
<1>3. PICK late \in 0 .. NB_CYCLES - 1, n \in 0 .. 1 :
        /\ index.routed + n <= RoutedLimit
        /\ index' = [index EXCEPT !.routed = @ + n]
        /\ PVRClock' = (WindowEnd + late) % (HOUR * NB_CYCLES)
        /\ IF Hour(WindowEnd + late)
             THEN indexWrite /\ Saving
             ELSE /\ unsaved' = IF unsaved > HOUR THEN unsaved ELSE unsaved + 1
                  /\ skipped' = (skipped \/ phase + late >= NB_CYCLES)
                  /\ UNCHANGED job
  BY DEF Window
<1>4. /\ index \in [Counters -> 0 .. Limit] /\ unsaved \in 0 .. HOUR + 1
      /\ PVRClock \in 0 .. HOUR * NB_CYCLES - 1 /\ phase \in 0 .. NB_CYCLES - 1
      /\ NB_CYCLES \in Nat \ {0} /\ HOUR \in Nat \ {0} /\ Limit \in Nat
      /\ RoutedLimit \in 0 .. Limit
  BY <1>1, Constants, StorageAssumption DEF Types
<1>5. PICK q \in Nat, r \in 0 .. NB_CYCLES - 1 :
        /\ (WindowEnd + late) \div NB_CYCLES = q
        /\ PVRClock' \in 0 .. HOUR * NB_CYCLES - 1
        /\ PVRClock' \div NB_CYCLES = q % HOUR /\ PVRClock' % NB_CYCLES = r
        /\ phase + late < NB_CYCLES =>
             /\ r = phase + late
             /\ q = PVRClock \div NB_CYCLES
                      + (IF phase > PVRClock % NB_CYCLES THEN 0 ELSE 1)
  BY <1>3, <1>4, WindowTime
<1>6. /\ index'.impulsion = index.impulsion /\ index'.routed = index.routed + n
      /\ index' \in [Counters -> 0 .. Limit]
  BY <1>3, <1>4 DEF Counters
<1>7. \A c \in Counters : index[c] <= index'[c] /\ index[c] \in Nat /\ index'[c] \in Nat
  BY <1>4, <1>6 DEF Counters
<1>8. CASE Hour(WindowEnd + late)
  BY <1>2, <1>3, <1>4, <1>5, <1>6, <1>7, <1>8, SaveStep DEF indexWrite, Saving
<1>9. CASE ~Hour(WindowEnd + late)
  <2>1. /\ unsaved' = (IF unsaved > HOUR THEN unsaved ELSE unsaved + 1) /\ job' = job
        /\ skipped' = (skipped \/ phase + late >= NB_CYCLES)
    BY <1>3, <1>9
  <2>2. unsaved' \in 0 .. HOUR + 1
    BY <1>4, <2>1
  <2>3. skipped' \in BOOLEAN
    BY <2>1
  <2>4. Types' /\ Flags'
    BY <1>1, <1>2, <1>5, <1>6, <2>1, <2>2, <2>3 DEF Types, Flags
  <2>5. \A c \in Counters : Long(eeIndex[c]) \in Nat
    BY <1>1, LongOf DEF CellTypes, Pair, Cell
  <2>6. Behind'
    BY <1>1, <1>2, <1>7, <2>1, <2>5 DEF Behind, eeprom
  <2>7. q % HOUR # 0
    BY <1>5, <1>9 DEF Hour
  <2>8. Seconds'
    <3> SUFFICES ASSUME ~skipped' PROVE Seconds'
      BY DEF Seconds
    <3> DEFINE second == PVRClock \div NB_CYCLES
               cycle == PVRClock % NB_CYCLES
    <3>1. ~skipped /\ phase + late < NB_CYCLES
      <4>1. ~skipped /\ ~(phase + late >= NB_CYCLES)
        BY <2>1, Zenon
      <4> QED BY <1>4, <4>1
    <3>2. /\ unsaved <= second /\ (phase > cycle => unsaved = 0)
          /\ index.routed - Long(eeIndex.routed) <= unsaved
      BY <1>1, <1>2, <3>1 DEF Seconds, NoJob
    <3>3. second \in 0 .. HOUR - 1 /\ cycle \in 0 .. NB_CYCLES - 1
      BY <1>4, ClockParts
    <3>4. r = phase + late /\ q = second + (IF phase > cycle THEN 0 ELSE 1)
      BY <1>5, <3>1
    <3> HIDE DEF second, cycle
    <3>5. q \in 1 .. HOUR - 1 /\ unsaved < q /\ unsaved <= HOUR
      <4>1. q <= HOUR
        BY <1>4, <3>3, <3>4
      <4>2. HOUR % HOUR = 0 /\ 0 % HOUR = 0
        BY <1>4
      <4>3. q # HOUR /\ q # 0
        BY <2>7, <4>2
      <4> QED BY <1>4, <3>2, <3>3, <3>4, <4>1, <4>3
    <3>6. q % HOUR = q
      BY <1>4, <3>5
    <3>7. unsaved' = unsaved + 1 /\ unsaved' <= q
      BY <1>4, <2>1, <3>5
    <3>8. ~(phase > r)
      BY <1>4, <3>4
    <3>9. index'.routed - Long(eeIndex'.routed) <= unsaved'
      <4>1. Long(eeIndex.routed) \in Nat /\ index.routed \in Nat
        BY <1>7, <2>5 DEF Counters
      <4> QED BY <1>2, <1>4, <1>6, <3>2, <3>7, <4>1 DEF eeprom
    <3> QED BY <1>2, <1>5, <3>6, <3>7, <3>8, <3>9 DEF Seconds
  <2> QED BY <1>1, <1>2, <2>1, <2>4, <2>6, <2>8, SameCells, NoJobOK, InvPartsNext
<1> QED BY <1>8, <1>9
--------------------------------------------------------------------------------
\* The EEPROM with one more cell.
ConfigWith(cell) ==
  IF cell[1] = "config" THEN [eeConfig EXCEPT ![cell[2]] = cell[3]] ELSE eeConfig
IndexWith(cell) ==
  IF cell[1] = "config" THEN eeIndex ELSE [eeIndex EXCEPT ![cell[1]][cell[2]] = cell[3]]

\* A cell of a job that began with the cells in cells.
LEMMA NextCell ==
  ASSUME WriteCell, NEW S, NEW cells \in Seq(S), NEW k \in 1 .. Len(cells),
         job.left = LeftFrom(cells, k), job = [what |-> job.what, left |-> job.left],
         job.what # "none"
  PROVE  /\ eeConfig' = ConfigWith(cells[k]) /\ eeIndex' = IndexWith(cells[k])
         /\ k = Len(cells) => job' = NoJob
         /\ k < Len(cells) => /\ job'.what = job.what /\ job' # NoJob
                              /\ job'.left = LeftFrom(cells, k + 1)
                              /\ job' = [what |-> job'.what, left |-> job'.left]
<1>1. /\ Len(job.left) = Len(cells) - k + 1 /\ Head(job.left) = cells[k]
      /\ k < Len(cells) => Tail(job.left) = LeftFrom(cells, k + 1)
  BY LeftFromOK
<1>2. /\ eeConfig' = ConfigWith(cells[k]) /\ eeIndex' = IndexWith(cells[k])
      /\ job' = IF Len(job.left) = 1 THEN NoJob ELSE [job EXCEPT !.left = Tail(@)]
  BY <1>1 DEF WriteCell, ConfigWith, IndexWith
<1>3. Len(cells) \in Nat
  BY LenProperties
<1>4. k = Len(cells) => job' = NoJob
  BY <1>1, <1>2, <1>3
<1>5. ASSUME k < Len(cells)
      PROVE  /\ job'.what = job.what /\ job' # NoJob
             /\ job'.left = LeftFrom(cells, k + 1)
             /\ job' = [what |-> job'.what, left |-> job'.left]
  <2>1. job' = [job EXCEPT !.left = Tail(job.left)]
    BY <1>1, <1>2, <1>3, <1>5
  <2>2. job' = [what |-> job.what, left |-> LeftFrom(cells, k + 1)]
    BY <1>1, <1>5, <2>1
  <2> QED BY <2>2 DEF NoJob
<1> QED BY <1>2, <1>4, <1>5

\* What a cell leaves alone.
LEMMA CellFrame ==
  ASSUME StorageInv, WriteCell,
         job'.what \in {"none", "config", "first", "indexes", "clear", "format"}
  PROVE  Types' /\ Flags'
<1>1. Types /\ Flags
  BY InvParts
<1>2. UNCHANGED <<memory, pc, clock, unsaved, skipped>> /\ ~Idle
  BY DEF WriteCell
<1>3. cut' \in BOOLEAN /\ torn' \in 0 .. 2
  BY <1>1 DEF WriteCell, Flags
<1>4. pc' # "config"
  BY <1>1, <1>2 DEF Types
<1> QED BY <1>1, <1>2, <1>3, <1>4 DEF Types, Flags, memory, clock

\* A cell of the configuration, and what the EEPROM holds after it.
LEMMA ConfigWritten ==
  ASSUME StorageInv, WriteCell, job.what \in {"config", "first"}, NEW k \in 1 .. 7, ConfigUpTo(k)
  PROVE  /\ eeConfig' = [eeConfig EXCEPT ![k] = Data(config)[k]] /\ eeIndex' = eeIndex
         /\ UNCHANGED <<index, config, pc, clock, unsaved, skipped>> /\ CellTypes'
         /\ k = 7 => job' = NoJob /\ Stored'.v1 = config.v1 /\ Stored'.v2 = config.v2
         /\ k < 7 => /\ job'.what = job.what /\ job' # NoJob
                     /\ job' = [what |-> job'.what, left |-> job'.left]
                     /\ ConfigUpTo(k + 1)'
<1>1. Types /\ CellTypes /\ Jobs
  BY InvParts
<1> DEFINE v == Data(config)
           cells == InConfig(v)
<1>2. UNCHANGED <<index, config, pc, clock, unsaved, skipped>>
  BY DEF WriteCell, memory
<1>3. /\ cells \in Seq(Elements(cells)) /\ Len(cells) = 7
      /\ \A i \in 1 .. 7 : cells[i] = <<"config", i, v[i]>>
  BY ConfigCells
<1>4. job.left = LeftFrom(cells, k) /\ job = [what |-> job.what, left |-> job.left]
  BY <1>1 DEF ConfigUpTo, Jobs, Data
<1>5. cells' = cells
  BY <1>2 DEF Data
<1>6. config \in [{"v1", "v2"} -> Values]
  BY <1>1 DEF Types
<1>7. /\ \A i \in 1 .. 7 : v[i] \in Cell
      /\ v[4] = Cells(config.v1)[1] /\ v[6] = Cells(config.v2)[1]
      /\ v[4] + BASE * v[5] = config.v1 /\ v[6] + BASE * v[7] = config.v2
  BY <1>6, DataOK
<1> HIDE DEF v
<1> HIDE DEF cells
<1>8. /\ eeConfig' = [eeConfig EXCEPT ![k] = v[k]] /\ eeIndex' = eeIndex
      /\ k = 7 => job' = NoJob
      /\ k < 7 => /\ job'.what = job.what /\ job' # NoJob
                  /\ job'.left = LeftFrom(cells, k + 1)
                  /\ job' = [what |-> job'.what, left |-> job'.left]
  <2>1. cells[k] = <<"config", k, v[k]>>
    BY <1>3
  <2>2. /\ WriteCell /\ cells \in Seq(Elements(cells)) /\ k \in 1 .. Len(cells)
        /\ job.what # "none" /\ Len(cells) = 7 /\ (k < 7 <=> k < Len(cells))
    BY <1>3
  <2>3. /\ eeConfig' = ConfigWith(cells[k]) /\ eeIndex' = IndexWith(cells[k])
        /\ k = 7 => job' = NoJob
        /\ k < 7 => /\ job'.what = job.what /\ job' # NoJob
                    /\ job'.left = LeftFrom(cells, k + 1)
                    /\ job' = [what |-> job'.what, left |-> job'.left]
    BY <1>4, <2>2, NextCell
  <2> QED BY <2>1, <2>3 DEF ConfigWith, IndexWith
<1>9. eeConfig \in [1 .. 7 -> Cell] /\ eeConfig' \in [1 .. 7 -> Cell]
  <2>1. eeConfig \in [1 .. 7 -> Cell]
    BY <1>1 DEF CellTypes, Cell
  <2>2. v[k] \in Cell
    BY <1>7
  <2> QED BY <1>8, <2>1, <2>2
<1>10. CellTypes'
  BY <1>1, <1>8, <1>9 DEF CellTypes, Cell
<1>11. /\ eeConfig'[k] = v[k] /\ \A i \in 1 .. 7 : i # k => eeConfig'[i] = eeConfig[i]
  BY <1>8, <1>9
<1>12. /\ Stored.v1 = eeConfig[4] + BASE * eeConfig[5]
       /\ Stored'.v1 = eeConfig'[4] + BASE * eeConfig'[5]
       /\ Stored'.v2 = eeConfig'[6] + BASE * eeConfig'[7]
  <2>1. /\ eeConfig'[4] \in Cell /\ eeConfig'[5] \in Cell
        /\ eeConfig'[6] \in Cell /\ eeConfig'[7] \in Cell
    BY <1>9
  <2>2. /\ Stored'.v1 = Long(<<eeConfig'[4], eeConfig'[5]>>)
        /\ Stored'.v2 = Long(<<eeConfig'[6], eeConfig'[7]>>)
    BY DEF Stored
  <2> QED BY <1>1, <2>1, <2>2, StoredOK, CellsValue
<1>13. /\ k = 5 => eeConfig[4] = v[4]
       /\ k > 5 => Stored.v1 = config.v1
       /\ k = 7 => eeConfig[6] = v[6]
  BY <1>7 DEF ConfigUpTo
<1>14. k \in {5, 6, 7} => Stored'.v1 = config.v1
  <2>1. CASE k = 5
    <3>1. eeConfig'[4] = v[4] /\ eeConfig'[5] = v[5]
      BY <1>11, <1>13, <2>1
    <3> QED BY <1>7, <1>12, <3>1
  <2>2. CASE k \in {6, 7}
    <3>1. eeConfig'[4] = eeConfig[4] /\ eeConfig'[5] = eeConfig[5]
      BY <1>11, <2>2
    <3> QED BY <1>12, <1>13, <2>2, <3>1
  <2> QED BY <2>1, <2>2
<1>15. CASE k = 7
  <2>1. eeConfig'[6] = v[6] /\ eeConfig'[7] = v[7]
    BY <1>11, <1>13, <1>15
  <2>2. Stored'.v2 = config.v2
    BY <1>7, <1>12, <2>1
  <2> QED BY <1>2, <1>8, <1>10, <1>14, <1>15, <2>2 DEF v
<1>16. CASE k < 7
  <2>1. /\ k + 1 = 5 => eeConfig'[4] = v[4]
        /\ k + 1 > 5 => Stored'.v1 = config.v1
        /\ k + 1 = 7 => eeConfig'[6] = v[6]
    BY <1>11, <1>14, <1>16
  <2>2. job'.left = LeftFrom(cells', k + 1)
    BY <1>5, <1>8, <1>16
  <2>3. ConfigUpTo(k + 1)'
    BY <1>2, <1>7, <2>1, <2>2 DEF ConfigUpTo, cells, v, Data
  <2> QED BY <1>2, <1>8, <1>10, <1>16, <2>3 DEF v
<1> QED BY <1>15, <1>16

LEMMA WriteConfig ==
  ASSUME StorageInv, WriteCell, job.what \in {"config", "first"}
  PROVE  StorageInv'
<1>1. Types /\ Flags /\ CellTypes /\ Jobs /\ Seconds /\ Behind
  BY InvParts
<1>2. PICK k \in 1 .. 7 : ConfigUpTo(k)
  BY <1>1 DEF Jobs
<1>3. /\ eeIndex' = eeIndex /\ CellTypes'
      /\ UNCHANGED <<index, config, pc, clock, unsaved, skipped>>
      /\ k = 7 => job' = NoJob
      /\ k < 7 => /\ job'.what = job.what /\ job' # NoJob
                  /\ job' = [what |-> job'.what, left |-> job'.left]
                  /\ ConfigUpTo(k + 1)'
  BY <1>2, ConfigWritten
<1>4. Jobs' /\ job'.what \in {"none", "config", "first"}
  <2>1. CASE k = 7
    BY <1>3, <2>1, NoJobOK DEF NoJob
  <2>2. CASE k < 7
    <3>1. k + 1 \in 1 .. 7
      BY <2>2
    <3> QED BY <1>3, <2>2, <3>1 DEF Jobs, Idle
  <2> QED BY <2>1, <2>2
<1>5. Types' /\ Flags'
  BY <1>4, CellFrame
<1>6. Seconds'
  BY <1>1, <1>3, <1>4 DEF Seconds, clock
<1>7. Behind'
  BY <1>1, <1>3, <1>4 DEF Behind
<1> QED BY <1>3, <1>4, <1>5, <1>6, <1>7, InvPartsNext

\* A cell of an index, and a zero in it.
LEMMA IndexCell ==
  ASSUME CellTypes, NEW c \in Counters, NEW j \in 1 .. 2, NEW v \in Cell
  PROVE  /\ IndexWith(<<c, j, v>>) \in [Counters -> Pair]
         /\ IndexWith(<<c, j, v>>)[c] = [eeIndex[c] EXCEPT ![j] = v]
         /\ \A d \in Counters \ {c} : IndexWith(<<c, j, v>>)[d] = eeIndex[d]
<1>1. eeIndex \in [Counters -> Pair] /\ c # "config"
  BY DEF CellTypes, Pair, Cell, Counters
<1>2. IndexWith(<<c, j, v>>) = [eeIndex EXCEPT ![c] = [eeIndex[c] EXCEPT ![j] = v]]
  BY <1>1 DEF IndexWith
<1>3. [eeIndex[c] EXCEPT ![j] = v] \in Pair
  BY <1>1 DEF Pair
<1> QED BY <1>1, <1>2, <1>3

LEMMA ZeroIndex ==
  ASSUME CellTypes, NEW c \in Counters, NEW j \in 1 .. 2
  PROVE  /\ IndexWith(<<c, j, 0>>) \in [Counters -> Pair]
         /\ \A d \in Counters : Long(IndexWith(<<c, j, 0>>)[d]) <= Long(eeIndex[d])
<1>1. 0 \in Cell
  BY Constants DEF Cell
<1>2. eeIndex \in [Counters -> Pair]
  BY DEF CellTypes, Pair, Cell
<1> DEFINE f == IndexWith(<<c, j, 0>>)
<1>3. /\ f \in [Counters -> Pair] /\ f[c] = [eeIndex[c] EXCEPT ![j] = 0]
      /\ \A d \in Counters \ {c} : f[d] = eeIndex[d]
  BY <1>1, IndexCell
<1>4. Long([eeIndex[c] EXCEPT ![j] = 0]) <= Long(eeIndex[c])
  BY <1>2, ZeroCell
<1>5. \A d \in Counters : Long(eeIndex[d]) \in Nat
  BY <1>2, LongOf
<1> HIDE DEF f
<1>6. ASSUME NEW d \in Counters PROVE Long(f[d]) <= Long(eeIndex[d])
  <2>1. CASE d = c
    BY <1>3, <1>4, <2>1
  <2>2. CASE d # c
    BY <1>3, <1>5, <2>2
  <2> QED BY <2>1, <2>2
<1> QED BY <1>3, <1>6 DEF f

\* The EEPROM while a FORMAT goes on, and its job.
LEMMA WriteFormat ==
  ASSUME StorageInv, WriteCell, job.what = "format"
  PROVE  /\ StorageInv' /\ ~ValidConfig'
         /\ job'.what \in {"none", "format"}
<1>1. Types /\ Flags /\ CellTypes /\ Jobs /\ Seconds /\ Behind
  BY InvParts
<1>2. PICK k \in 1 .. 11 : FormatUpTo(k)
  BY <1>1 DEF Jobs
<1>3. UNCHANGED <<index, config, pc, clock, unsaved, skipped>> /\ skipped /\ pc = "run"
  BY <1>1, <1>2 DEF WriteCell, memory, FormatUpTo, Jobs
<1> DEFINE cells == FormatJob.left
<1>4. /\ cells \in Seq(Elements(cells)) /\ Len(cells) = 11
      /\ \A i \in 1 .. 7 : cells[i] = <<"config", i, 0>>
      /\ cells[8] = <<"routed", 1, 0>> /\ cells[9] = <<"routed", 2, 0>>
      /\ cells[10] = <<"impulsion", 1, 0>> /\ cells[11] = <<"impulsion", 2, 0>>
  BY FormatCells
<1>5. job.left = LeftFrom(cells, k) /\ job = [what |-> job.what, left |-> job.left]
  BY <1>1, <1>2 DEF FormatUpTo, Jobs
<1> HIDE DEF cells
<1>6. /\ eeConfig' = ConfigWith(cells[k]) /\ eeIndex' = IndexWith(cells[k])
      /\ k = 11 => job' = NoJob
      /\ k < 11 => /\ job'.what = job.what /\ job' # NoJob
                  /\ job'.left = LeftFrom(cells, k + 1)
                  /\ job' = [what |-> job'.what, left |-> job'.left]
  <2>1. /\ WriteCell /\ cells \in Seq(Elements(cells)) /\ k \in 1 .. Len(cells)
        /\ job.what # "none" /\ Len(cells) = 11 /\ (k < 11 <=> k < Len(cells))
    BY <1>4
  <2> QED BY <1>5, <2>1, NextCell
<1>7. /\ eeConfig \in [1 .. 7 -> Cell]
      /\ eeIndex \in [Counters -> Pair]
      /\ \A c \in Counters : Long(eeIndex[c]) <= Limit
  BY <1>1 DEF CellTypes, Pair, Cell
<1>8. /\ eeConfig' \in [1 .. 7 -> Cell] /\ eeConfig'[1] = 0
      /\ eeIndex' \in [Counters -> Pair]
      /\ \A c \in Counters : Long(eeIndex'[c]) <= Long(eeIndex[c])
  <2>1. CASE k \in 1 .. 7
    <3>1. eeConfig' = [eeConfig EXCEPT ![k] = 0] /\ eeIndex' = eeIndex
      <4>1. cells[k] = <<"config", k, 0>>
        BY <1>4, <2>1
      <4>2. eeConfig' = ConfigWith(<<"config", k, 0>>) /\ eeIndex' = IndexWith(<<"config", k, 0>>)
        BY <1>6, <4>1
      <4> QED BY <4>2 DEF ConfigWith, IndexWith
    <3>2. k > 1 => eeConfig[1] = 0
      BY <1>2 DEF FormatUpTo
    <3>3. \A c \in Counters : Long(eeIndex[c]) \in Nat
      BY <1>7, LongOf
    <3>4. eeConfig' \in [1 .. 7 -> Cell]
      <4>1. 0 \in Cell
        BY Constants DEF Cell
      <4> QED BY <1>7, <2>1, <3>1, <4>1
    <3>5. eeConfig'[1] = 0
      BY <1>7, <2>1, <3>1, <3>2
    <3>6. \A c \in Counters : Long(eeIndex'[c]) <= Long(eeIndex[c])
      BY <3>1, <3>3
    <3> QED BY <1>7, <3>1, <3>4, <3>5, <3>6
  <2>2. CASE k \in 8 .. 11
    <3>1. \E c \in Counters, j \in 1 .. 2 : cells[k] = <<c, j, 0>>
      <4>1. k = 8 \/ k = 9 \/ k = 10 \/ k = 11
        BY <2>2
      <4> QED BY <1>4, <4>1 DEF Counters
    <3>2. PICK c \in Counters, j \in 1 .. 2 : cells[k] = <<c, j, 0>>
      BY <3>1
    <3>3. eeConfig' = eeConfig
      BY <1>6, <3>2 DEF ConfigWith, Counters
    <3>4. eeConfig[1] = 0
      BY <1>2, <2>2 DEF FormatUpTo
    <3>5. eeIndex' = IndexWith(<<c, j, 0>>)
      BY <1>6, <3>2
    <3>6. /\ eeIndex' \in [Counters -> Pair]
          /\ \A d \in Counters : Long(eeIndex'[d]) <= Long(eeIndex[d])
      BY <1>1, <3>5, ZeroIndex
    <3> QED BY <1>7, <3>3, <3>4, <3>6
  <2> QED BY <2>1, <2>2
<1>9. \A c \in Counters : Long(eeIndex'[c]) \in Nat /\ Long(eeIndex[c]) \in Nat /\ index[c] \in Nat
  BY <1>1, <1>7, <1>8, LongOf, Constants DEF Types
<1>10. CellTypes'
  <2>1. \A c \in Counters : Long(eeIndex'[c]) <= Limit
    BY <1>7, <1>8, <1>9, Constants
  <2> QED BY <1>8, <2>1 DEF CellTypes, Pair, Cell
<1>11. Jobs' /\ job'.what \in {"none", "format"}
  <2>1. CASE k = 11
    BY <1>6, <2>1, NoJobOK DEF NoJob
  <2>2. CASE k < 11
    <3>1. cells' = cells
      BY DEF cells, FormatJob, InConfig, IndexJob
    <3>2. FormatUpTo(k + 1)'
      BY <1>3, <1>6, <1>8, <2>2, <3>1 DEF FormatUpTo, cells
    <3>3. k + 1 \in 1 .. 11
      BY <2>2
    <3> QED BY <1>3, <1>6, <2>2, <3>2, <3>3 DEF Jobs, Idle
  <2> QED BY <2>1, <2>2
<1>12. Types' /\ Flags'
  BY <1>11, CellFrame
<1>13. Seconds'
  BY <1>3 DEF Seconds
<1>14. Behind'
  <2>1. \A c \in Counters : Long(eeIndex[c]) <= index[c]
    BY <1>1, <1>3 DEF Behind
  <2> QED BY <1>3, <1>8, <1>9, <2>1 DEF Behind
<1>15. ~ValidConfig'
  BY <1>8 DEF ValidConfig, MAGIC
<1> QED BY <1>8, <1>10, <1>11, <1>12, <1>13, <1>14, <1>15, InvPartsNext

\* The low cell of index n, and then the high one.
LEMMA LowIndex ==
  ASSUME CellTypes, NEW c \in Counters, NEW n \in 0 .. Limit,
         NEW f, f = IndexWith(<<c, 1, Cells(n)[1]>>)
  PROVE  /\ f \in [Counters -> Pair] /\ f[c][1] = Cells(n)[1]
         /\ \A d \in Counters \ {c} : f[d] = eeIndex[d]
         /\ Long(eeIndex[c]) <= n => Long(f[c]) <= n
         /\ n = 0 => Long(f[c]) <= Long(eeIndex[c])
<1>1. Cells(n)[1] \in Cell /\ (n = 0 => Cells(n)[1] = 0)
  BY CellsOK
<1> DEFINE v == Cells(n)[1]
<1>2. eeIndex[c] \in Pair
  BY DEF CellTypes, Pair, Cell
<1>3. /\ f \in [Counters -> Pair] /\ f[c] = [eeIndex[c] EXCEPT ![1] = v]
      /\ \A d \in Counters \ {c} : f[d] = eeIndex[d]
  BY <1>1, IndexCell
<1>4. f[c][1] = v
  BY <1>2, <1>3 DEF Pair
<1>5. Long(eeIndex[c]) <= n => Long(f[c]) <= n
  BY <1>2, <1>3, LowCell
<1>6. n = 0 => Long(f[c]) <= Long(eeIndex[c])
  <2>1. n = 0 => f = IndexWith(<<c, 1, 0>>)
    BY <1>1
  <2>2. \A j \in 1 .. 2 : Long(IndexWith(<<c, j, 0>>)[c]) <= Long(eeIndex[c])
    BY ZeroIndex
  <2>3. Long(IndexWith(<<c, 1, 0>>)[c]) <= Long(eeIndex[c])
    BY <2>2
  <2> QED BY <2>1, <2>3
<1> QED BY <1>3, <1>4, <1>5, <1>6

LEMMA HighIndex ==
  ASSUME CellTypes, NEW c \in Counters, NEW n \in 0 .. Limit,
         NEW f, f = IndexWith(<<c, 2, Cells(n)[2]>>), eeIndex[c][1] = Cells(n)[1]
  PROVE  /\ f \in [Counters -> Pair] /\ Long(f[c]) = n
         /\ \A d \in Counters \ {c} : f[d] = eeIndex[d]
<1>1. Cells(n)[2] \in Cell
  BY CellsOK
<1> DEFINE v == Cells(n)[2]
<1>2. eeIndex[c] \in Pair
  BY DEF CellTypes, Pair, Cell
<1>3. /\ f \in [Counters -> Pair] /\ f[c] = [eeIndex[c] EXCEPT ![2] = v]
      /\ \A d \in Counters \ {c} : f[d] = eeIndex[d]
  BY <1>1, IndexCell
<1>4. Long(f[c]) = n
  BY <1>2, <1>3, HighCell
<1> QED BY <1>3, <1>4

LEMMA WriteIndexes ==
  ASSUME StorageInv, WriteCell, job.what \in {"indexes", "clear"}
  PROVE  StorageInv' /\ eeConfig' = eeConfig
<1>1. Types /\ Flags /\ CellTypes /\ Jobs /\ Seconds /\ Behind
  BY InvParts
<1>2. PICK table \in [Counters -> 0 .. Limit], k \in 1 .. 4 : IndexesUpTo(table, k)
  BY <1>1 DEF Jobs
<1>3. UNCHANGED <<index, config, pc, PVRClock, phase, unsaved, skipped>> /\ pc = "run"
  BY <1>1 DEF WriteCell, memory, clock, Jobs
<1> DEFINE cells == IndexJob(table).left
           routed == table.routed
           impulsion == table.impulsion
<1>4. /\ cells \in Seq(Elements(cells)) /\ Len(cells) = 4
      /\ cells[1] = <<"routed", 1, Cells(routed)[1]>>
      /\ cells[2] = <<"routed", 2, Cells(routed)[2]>>
      /\ cells[3] = <<"impulsion", 1, Cells(impulsion)[1]>>
      /\ cells[4] = <<"impulsion", 2, Cells(impulsion)[2]>>
  BY IndexCells
<1>5. job.left = LeftFrom(cells, k) /\ job = [what |-> job.what, left |-> job.left]
  BY <1>1, <1>2 DEF IndexesUpTo, Jobs
<1>6. /\ \A c \in Counters : table[c] <= index[c] /\ table[c] \in 0 .. Limit
      /\ routed = index.routed
      /\ job.what = "indexes" => \A c \in Counters : Long(eeIndex[c]) <= table[c]
      /\ job.what = "clear" => \A c \in Counters : table[c] = 0
      /\ k = 2 => eeIndex.routed[1] = Cells(routed)[1]
      /\ k > 2 => Long(eeIndex.routed) = routed
      /\ k = 4 => eeIndex.impulsion[1] = Cells(impulsion)[1]
  BY <1>2 DEF IndexesUpTo
<1> HIDE DEF cells
<1>7. /\ eeConfig' = ConfigWith(cells[k]) /\ eeIndex' = IndexWith(cells[k])
      /\ k = 4 => job' = NoJob
      /\ k < 4 => /\ job'.what = job.what /\ job' # NoJob
                  /\ job'.left = LeftFrom(cells, k + 1)
                  /\ job' = [what |-> job'.what, left |-> job'.left]
  <2>1. /\ WriteCell /\ cells \in Seq(Elements(cells)) /\ k \in 1 .. Len(cells)
        /\ job.what # "none" /\ Len(cells) = 4 /\ (k < 4 <=> k < Len(cells))
    BY <1>4
  <2> QED BY <1>5, <2>1, NextCell
<1>8. /\ routed \in 0 .. Limit /\ impulsion \in 0 .. Limit
      /\ "routed" \in Counters /\ "impulsion" \in Counters
  BY <1>6 DEF Counters
<1> HIDE DEF routed, impulsion
<1>9. eeConfig' = eeConfig
  <2> k = 1 \/ k = 2 \/ k = 3 \/ k = 4
    OBVIOUS
  <2> QED BY <1>4, <1>7 DEF ConfigWith
<1>10. eeIndex \in [Counters -> Pair] /\ \A c \in Counters : Long(eeIndex[c]) \in Nat
  BY <1>1, LongOf DEF CellTypes, Pair, Cell
<1>11. /\ eeIndex' \in [Counters -> Pair]
       /\ job.what = "indexes" => \A c \in Counters : Long(eeIndex'[c]) <= table[c]
       /\ job.what = "clear" => \A c \in Counters : Long(eeIndex'[c]) <= Long(eeIndex[c])
       /\ k = 1 => eeIndex'.routed[1] = Cells(routed)[1]
       /\ k > 1 => Long(eeIndex'.routed) = routed
       /\ k = 3 => eeIndex'.impulsion[1] = Cells(impulsion)[1]
       /\ k = 4 => Long(eeIndex'.impulsion) = impulsion
  <2>1. CASE k = 1
    <3>1. eeIndex' = IndexWith(<<"routed", 1, Cells(routed)[1]>>)
      BY <1>4, <1>7, <2>1
    <3>2. /\ eeIndex' \in [Counters -> Pair] /\ eeIndex'["routed"][1] = Cells(routed)[1]
          /\ \A d \in Counters \ {"routed"} : eeIndex'[d] = eeIndex[d]
          /\ Long(eeIndex["routed"]) <= routed => Long(eeIndex'["routed"]) <= routed
          /\ routed = 0 => Long(eeIndex'["routed"]) <= Long(eeIndex["routed"])
      BY <1>1, <1>8, <3>1, LowIndex
    <3> QED BY <1>6, <1>10, <2>1, <3>2 DEF Counters, routed
  <2>2. CASE k = 2
    <3>1. eeIndex' = IndexWith(<<"routed", 2, Cells(routed)[2]>>)
      BY <1>4, <1>7, <2>2
    <3>2. /\ eeIndex' \in [Counters -> Pair] /\ Long(eeIndex'["routed"]) = routed
          /\ \A d \in Counters \ {"routed"} : eeIndex'[d] = eeIndex[d]
      BY <1>1, <1>6, <1>8, <2>2, <3>1, HighIndex
    <3> QED BY <1>6, <1>10, <2>2, <3>2 DEF Counters, routed
  <2>3. CASE k = 3
    <3>1. eeIndex' = IndexWith(<<"impulsion", 1, Cells(impulsion)[1]>>)
      BY <1>4, <1>7, <2>3
    <3>2. /\ eeIndex' \in [Counters -> Pair] /\ eeIndex'["impulsion"][1] = Cells(impulsion)[1]
          /\ \A d \in Counters \ {"impulsion"} : eeIndex'[d] = eeIndex[d]
          /\ Long(eeIndex["impulsion"]) <= impulsion => Long(eeIndex'["impulsion"]) <= impulsion
          /\ impulsion = 0 => Long(eeIndex'["impulsion"]) <= Long(eeIndex["impulsion"])
      BY <1>1, <1>8, <3>1, LowIndex
    <3> QED BY <1>6, <1>10, <2>3, <3>2 DEF Counters, impulsion
  <2>4. CASE k = 4
    <3>1. eeIndex' = IndexWith(<<"impulsion", 2, Cells(impulsion)[2]>>)
      BY <1>4, <1>7, <2>4
    <3>2. /\ eeIndex' \in [Counters -> Pair] /\ Long(eeIndex'["impulsion"]) = impulsion
          /\ \A d \in Counters \ {"impulsion"} : eeIndex'[d] = eeIndex[d]
      BY <1>1, <1>6, <1>8, <2>4, <3>1, HighIndex
    <3> QED BY <1>6, <1>10, <2>4, <3>2 DEF Counters, impulsion
  <2> QED BY <2>1, <2>2, <2>3, <2>4
<1>12. \A c \in Counters : /\ Long(eeIndex'[c]) \in Nat /\ index[c] \in Nat
                           /\ index[c] <= Limit /\ table[c] \in Nat
  BY <1>1, <1>6, <1>11, LongOf, Constants DEF Types
<1>13. CellTypes'
  <2>1. \A c \in Counters : Long(eeIndex[c]) <= Limit
    BY <1>1 DEF CellTypes
  <2>2. \A c \in Counters : Long(eeIndex'[c]) <= Limit
    <3>1. CASE job.what = "indexes"
      BY <1>6, <1>11, <1>12, <3>1, Constants
    <3>2. CASE job.what = "clear"
      BY <1>10, <1>11, <1>12, <2>1, <3>2, Constants
    <3> QED BY <3>1, <3>2
  <2> QED BY <1>1, <1>9, <1>11, <2>2 DEF CellTypes, Pair, Cell
<1>14. Jobs' /\ job'.what \in {"none", job.what}
  <2>1. CASE k = 4
    BY <1>7, <2>1, NoJobOK DEF NoJob
  <2>2. CASE k < 4
    <3>1. /\ k + 1 \in 1 .. 4 /\ (k + 1 = 2 => k = 1) /\ (k + 1 > 2 => k > 1)
          /\ (k + 1 = 4 => k = 3)
      BY <2>2
    <3>2. IndexesUpTo(table, k + 1)'
      BY <1>3, <1>6, <1>7, <1>11, <2>2, <3>1 DEF IndexesUpTo, cells, routed, impulsion
    <3>3. \E t \in [Counters -> 0 .. Limit], i \in 1 .. 4 : IndexesUpTo(t, i)'
      BY <3>1, <3>2
    <3> QED BY <1>3, <1>7, <2>2, <3>3 DEF Jobs, Idle
  <2> QED BY <2>1, <2>2
<1>15. Types' /\ Flags'
  BY <1>14, CellFrame
<1>16. ASSUME k = 4 PROVE \A c \in Counters : Long(eeIndex'[c]) = table[c]
  BY <1>11, <1>16 DEF Counters, routed, impulsion
<1>17. Seconds'
  <2>1. CASE job'.what \in {"none", "config", "first"}
    <3>1. k = 4
      BY <1>7, <2>1
    <3>2. index'.routed - Long(eeIndex'.routed) = 0
      BY <1>3, <1>6, <1>12, <1>16, <3>1 DEF Counters, routed
    <3> QED BY <1>1, <1>3, <3>2 DEF Seconds, Types
  <2>2. CASE job'.what \notin {"none", "config", "first"}
    BY <1>1, <1>3, <2>2 DEF Seconds
  <2> QED BY <2>1, <2>2
<1>18. Behind'
  <2>1. CASE job'.what = "clear"
    BY <2>1 DEF Behind
  <2>2. CASE job.what = "indexes"
    BY <1>3, <1>6, <1>11, <1>12, <2>2 DEF Behind
  <2>3. CASE job'.what # "clear" /\ job.what = "clear"
    <3>1. k = 4
      BY <1>7, <2>3
    <3> QED BY <1>3, <1>6, <1>16, <3>1 DEF Behind
  <2> QED BY <2>1, <2>2, <2>3
<1> QED BY <1>9, <1>13, <1>14, <1>15, <1>17, <1>18, InvPartsNext

LEMMA InvWriteCell == StorageInv /\ WriteCell => StorageInv'
<1> SUFFICES ASSUME StorageInv, WriteCell PROVE StorageInv'
  OBVIOUS
<1>1. job.what \in {"config", "first", "indexes", "clear", "format"}
  BY DEF StorageInv, TypeOK, Jobs, WriteCell
<1> QED BY <1>1, WriteConfig, WriteFormat, WriteIndexes

LEMMA InvUnchanged == StorageInv /\ UNCHANGED vars => StorageInv'
  BY DEF StorageInv, TypeOK, CellTypes, Jobs, Seconds, IndexesUpTo, ConfigUpTo, FormatUpTo, Idle,
         Stored, vars, memory, eeprom, clock, history

\* The indexes in the EEPROM, as far as the job has come, are those of the loop
\* or were so at the last hour, whatever the power does.
THEOREM StorageInvariant == Spec => []StorageInv
<1>1. StorageInv /\ [Next]_vars => StorageInv'
  BY InvSetup, InvIndexRead, InvWriteCell, InvWindow, InvLoseWindow, InvConfigRequests,
     InvFormat, InvSaves, InvPulse, InvPowerFails, InvUnchanged DEF Next, Loop, Request
<1> QED BY InvInit, <1>1, PTL DEF Spec

\* Wherever the power fails in the writing of the indexes, the next start never
\* finds an index above the one that was counted.
THEOREM IndexesNeverAhead == Spec => []NeverAhead
<1>1. StorageInv => NeverAhead
  BY DEF StorageInv, NeverAhead
<1> QED BY <1>1, StorageInvariant, PTL

\* While the loop keeps up, the indexes in the EEPROM lack an hour at most.
THEOREM IndexesHourly == Spec => []HourlySave
<1>1. StorageInv => HourlySave
  <2> SUFFICES ASSUME StorageInv, pc = "run", ~skipped
               PROVE  /\ unsaved < HOUR
                      /\ Idle => index.routed - Long(eeIndex.routed) <= unsaved
    BY DEF HourlySave
  <2>1. Types /\ Seconds
    BY InvParts
  <2>2. unsaved <= PVRClock \div NB_CYCLES /\ PVRClock \div NB_CYCLES \in 0 .. HOUR - 1
    BY <2>1, ClockParts DEF Types, Seconds
  <2>3. unsaved < HOUR
    BY <2>1, <2>2, Constants DEF Types
  <2>4. Idle => index.routed - Long(eeIndex.routed) <= unsaved
    BY <2>1 DEF Seconds, Idle, NoJob
  <2> QED BY <2>3, <2>4
<1> QED BY <1>1, StorageInvariant, PTL
--------------------------------------------------------------------------------
\* The configuration, in an EEPROM with no configuration of version 1 in it.

\* Parameters within their limits count as none outside them.
LEMMA NoneOutside ==
  ASSUME NEW c, c.v1 \in InLimits, c.v2 \in InLimits
  PROVE  Outside(c) = 0 /\ Outside(c) <= 0
  BY DEF Outside

LEMMA ConfigInit == "version 1" \notin Images /\ Init => ConfigInv
<1> SUFFICES ASSUME "version 1" \notin Images, Init PROVE ConfigInv
  OBVIOUS
<1>1. PICK image \in Images :
        eeConfig = CASE image = "version 1" -> dataEeprom(1, Cells(minValue), <<BLANK, BLANK>>)
                     [] image = "version 2" -> dataEeprom(2, Cells(minValue), Cells(minValue))
  BY DEF Init
<1>2. image = "version 2"
  BY StorageAssumption
<1>3. eeConfig = dataEeprom(2, Cells(minValue), Cells(minValue))
  BY <1>1, <1>2
<1>4. /\ config = [v1 |-> minValue, v2 |-> minValue] /\ torn = 0
      /\ job.what = "none"
  BY DEF Init, NoJob
<1>5. /\ eeConfig[4] = Cells(minValue)[1] /\ eeConfig[5] = Cells(minValue)[2]
      /\ eeConfig[6] = Cells(minValue)[1] /\ eeConfig[7] = Cells(minValue)[2]
  BY <1>3 DEF dataEeprom
<1>6. CellTypes
  BY InvInit DEF StorageInv
<1>7. Stored.v1 = minValue /\ Stored.v2 = minValue
  <2>1. Cells(minValue)[1] + BASE * Cells(minValue)[2] = minValue
    BY MinValue, ValueCells
  <2>2. /\ Stored.v1 = eeConfig[4] + BASE * eeConfig[5]
        /\ Stored.v2 = eeConfig[6] + BASE * eeConfig[7]
    BY <1>6, StoredOK
  <2> QED BY <1>5, <2>1, <2>2
<1>8. torn = 0 /\ config.v1 = minValue /\ config.v2 = minValue
  BY <1>4
<1>9. Outside(config) = 0 /\ Outside(Stored) = 0
  BY <1>7, <1>8, NoneOutside, MinValue
<1>10. config.v1 \in InLimits /\ config.v2 \in InLimits
  BY <1>8, MinValue
<1>11. Outside(config) <= torn /\ Outside(Stored) <= torn
  <2>1. Outside(config) <= 0 /\ Outside(Stored) <= 0
    BY <1>7, <1>8, NoneOutside, MinValue
  <2> QED BY <1>8, <2>1, Zenon
<1>12. Kept(Stored)
  BY <1>10, <1>11 DEF Kept
<1> QED BY <1>4, <1>9, <1>11, <1>12 DEF ConfigInv

\* What a start or LOADCFG takes into use.
LEMMA ConfigLoaded ==
  ASSUME StorageInv, ConfigInv, LoadConfig, Idle, pc' # "config", UNCHANGED <<eeprom, cut, torn>>
  PROVE  ConfigInv'
<1>1. job.what = "none" /\ UNCHANGED <<eeConfig, cut, torn>> /\ ValidConfig' = ValidConfig
  BY DEF Idle, NoJob, eeprom, ValidConfig
<1>2. Stored' = Stored
  BY <1>1 DEF Stored
<1>3. CASE ValidConfig
  <2>1. config' = Stored /\ job' = job
    BY <1>3 DEF LoadConfig
  <2>2. ~cut => Outside(Stored) <= torn
    BY <1>1, <1>3 DEF ConfigInv, Kept
  <2> QED BY <1>1, <1>2, <2>1, <2>2 DEF ConfigInv, Kept
<1>4. CASE ~ValidConfig
  <2>1. config' = config /\ job'.what = "first"
    BY <1>4, NewConfigJob DEF LoadConfig, eeConfigWrite
  <2> QED BY <1>1, <2>1 DEF ConfigInv
<1> QED BY <1>3, <1>4

\* What SAVECFG begins.
LEMMA ConfigSaved == StorageInv /\ ConfigInv /\ SAVECFG => ConfigInv'
<1> SUFFICES ASSUME StorageInv, ConfigInv, SAVECFG PROVE ConfigInv'
  OBVIOUS
<1>1. /\ UNCHANGED <<config, eeConfig, pc, cut, torn>> /\ pc = "run" /\ job.what = "none"
      /\ ValidConfig' = ValidConfig
  BY DEF SAVECFG, InLoop, memory, eeprom, history, Idle, NoJob, ValidConfig
<1>2. Stored' = Stored
  BY <1>1 DEF Stored
<1> DEFINE what == IF ValidConfig THEN "config" ELSE "first"
<1>3. job' = ConfigJob(what, Data(config'))
  BY <1>1 DEF SAVECFG, eeConfigWrite, Data
<1>4. what \in {"config", "first"}
  OBVIOUS
<1>5. job'.what = what /\ ConfigUpTo(1)'
  BY <1>3, <1>4, LaunchConfig
<1>6. CASE ~ValidConfig
  BY <1>1, <1>5, <1>6 DEF ConfigInv
<1>7. CASE ValidConfig
  <2>1. ~cut => Kept(Stored)
    BY <1>1, <1>7 DEF ConfigInv
  <2>2. ~cut => Kept(Stored)'
    BY <1>1, <1>2, <2>1 DEF Kept
  <2>3. ~cut => HalfWritten(1)'
    BY <1>5, <2>2 DEF HalfWritten
  <2>4. 1 \in 1 .. 7
    OBVIOUS
  <2> QED BY <1>1, <1>5, <1>7, <2>3, <2>4 DEF ConfigInv
<1> QED BY <1>6, <1>7

\* What SETPARAM stores is within the limits.
LEMMA ConfigSet == StorageInv /\ ConfigInv /\ SETPARAM => ConfigInv'
<1> SUFFICES ASSUME StorageInv, ConfigInv, SETPARAM PROVE ConfigInv'
  OBVIOUS
<1>1. /\ UNCHANGED <<eeConfig, job, pc, cut, torn>> /\ pc = "run" /\ job.what = "none"
      /\ ValidConfig' = ValidConfig
  BY DEF SETPARAM, InLoop, eeprom, history, Idle, NoJob, ValidConfig
<1>2. Stored' = Stored
  BY <1>1 DEF Stored
<1>3. config \in [{"v1", "v2"} -> Values]
  BY ConfigInUse
<1>4. PICK p \in {"v1", "v2"}, value \in InLimits : config' = [config EXCEPT ![p] = value]
  BY <1>3 DEF SETPARAM
<1>5. /\ config'.v1 \in InLimits \/ config'.v1 = config.v1
      /\ config'.v2 \in InLimits \/ config'.v2 = config.v2
  BY <1>3, <1>4
<1>6. Outside(config') <= Outside(config) /\ Outside(config) \in 0 .. 2
  BY <1>5 DEF Outside
<1>7. torn \in 0 .. 2
  BY DEF StorageInv, TypeOK
<1>8. ~cut => Outside(config') <= torn
  BY <1>6, <1>7 DEF ConfigInv, Outside
<1>9. ~cut /\ ValidConfig => Kept(Stored)'
  BY <1>1, <1>2, <1>5 DEF ConfigInv, Kept
<1> QED BY <1>1, <1>8, <1>9 DEF ConfigInv

\* What leaves the configuration alone, in use and in the EEPROM.
LEMMA ConfigStays ==
  ASSUME ConfigInv, UNCHANGED <<config, eeConfig, cut, torn>>,
         pc' # "config", pc # "config",
         \/ job' = job
         \/ job.what \notin {"config", "first"} /\ job'.what \notin {"config", "first"}
  PROVE  ConfigInv'
<1>1. Stored' = Stored /\ ValidConfig' = ValidConfig
  BY DEF Stored, ValidConfig
<1>2. Kept(Stored) => Kept(Stored)'
  BY <1>1 DEF Kept
<1>3. CASE job' = job
  <2>1. \A k \in 1 .. 7 : ConfigUpTo(k) => ConfigUpTo(k)'
    BY <1>1, <1>3 DEF ConfigUpTo
  <2>2. \A k \in 1 .. 7 : HalfWritten(k) => HalfWritten(k)'
    BY <1>1, <1>2, <2>1 DEF HalfWritten, Kept
  <2> QED BY <1>1, <1>2, <1>3, <2>2 DEF ConfigInv
<1>4. CASE job.what \notin {"config", "first"} /\ job'.what \notin {"config", "first"}
  BY <1>1, <1>2, <1>4 DEF ConfigInv
<1> QED BY <1>3, <1>4
--------------------------------------------------------------------------------
\* A cell of a configuration over another one: of the magic number and the version,
\* of the first parameter, of the second.
LEMMA HalfCell ==
  ASSUME StorageInv, WriteCell, job.what = "config", NEW k \in 1 .. 6, HalfWritten(k)
  PROVE  HalfWritten(k + 1)'
<1>1. ConfigUpTo(k) /\ k \in 1 .. 7 /\ k < 7 /\ k + 1 \in 1 .. 7
  BY DEF HalfWritten
<1>2. /\ eeConfig' = [eeConfig EXCEPT ![k] = Data(config)[k]]
      /\ UNCHANGED config /\ CellTypes' /\ job' # NoJob /\ ConfigUpTo(k + 1)'
  BY <1>1, ConfigWritten
<1>3. torn' = torn /\ torn \in 0 .. 2
  BY <1>2 DEF WriteCell, StorageInv, TypeOK
<1>4. CellTypes
  BY DEF StorageInv
<1>5. /\ Stored.v1 = eeConfig[4] + BASE * eeConfig[5]
      /\ Stored.v2 = eeConfig[6] + BASE * eeConfig[7]
      /\ Stored'.v1 = eeConfig'[4] + BASE * eeConfig'[5]
      /\ Stored'.v2 = eeConfig'[6] + BASE * eeConfig'[7]
      /\ Stored = [v1 |-> Stored.v1, v2 |-> Stored.v2]
      /\ Stored' = [v1 |-> Stored'.v1, v2 |-> Stored'.v2]
  <2>1. /\ Stored.v1 = eeConfig[4] + BASE * eeConfig[5]
        /\ Stored.v2 = eeConfig[6] + BASE * eeConfig[7]
    BY <1>4, StoredOK
  <2>2. /\ Stored'.v1 = eeConfig'[4] + BASE * eeConfig'[5]
        /\ Stored'.v2 = eeConfig'[6] + BASE * eeConfig'[7]
    BY <1>2, StoredOKNext
  <2> QED BY <2>1, <2>2 DEF Stored
<1>6. /\ k < 4 => Stored' = Stored
      /\ k < 6 => Stored'.v2 = Stored.v2
  <2>1. /\ \A i \in 1 .. 7 : i # k => eeConfig'[i] = eeConfig[i]
    BY <1>2, <1>4 DEF CellTypes
  <2> QED BY <1>5, <2>1
<1>7. CASE k < 4
  <2>1. Kept(Stored)
    BY <1>7 DEF HalfWritten
  <2>2. Kept(Stored)'
    BY <1>2, <1>3, <1>6, <1>7, <2>1 DEF Kept
  <2> QED BY <1>2, <1>7, <2>2 DEF HalfWritten
<1>8. CASE k = 4
  <2>1. Kept(Stored) /\ Stored'.v2 = Stored.v2
    BY <1>6, <1>8 DEF HalfWritten
  <2> DEFINE half == [v1 |-> config.v1, v2 |-> Stored.v2]
  <2>2. /\ Stored.v1 \in InLimits => config.v1 \in InLimits
        /\ Stored.v2 \in InLimits => config.v2 \in InLimits
        /\ Outside(Stored) <= torn
    BY <2>1 DEF Kept
  <2>3. half.v1 = config.v1 /\ half.v2 = Stored.v2
    OBVIOUS
  <2> HIDE DEF half
  <2>4. Outside(half) <= torn
    BY <1>3, <2>2, <2>3 DEF Outside
  <2>5. Kept(half)
    BY <2>2, <2>3, <2>4 DEF Kept
  <2>6. Kept([v1 |-> config.v1, v2 |-> Stored.v2])'
    BY <1>2, <1>3, <2>1, <2>5 DEF Kept, half
  <2> QED BY <1>2, <1>8, <2>6 DEF HalfWritten
<1>9. CASE k = 5
  <2>1. Kept([v1 |-> config.v1, v2 |-> Stored.v2]) /\ Stored'.v2 = Stored.v2
    BY <1>6, <1>9 DEF HalfWritten
  <2>2. Kept([v1 |-> config.v1, v2 |-> Stored.v2])'
    BY <1>2, <1>3, <2>1 DEF Kept
  <2> QED BY <1>2, <1>9, <2>2 DEF HalfWritten
<1>10. CASE k = 6
  BY <1>2, <1>10 DEF HalfWritten
<1> QED BY <1>7, <1>8, <1>9, <1>10

\* The last cell of a configuration.
LEMMA LastCell ==
  ASSUME StorageInv, ConfigInv, WriteCell, job.what \in {"config", "first"}, ConfigUpTo(7)
  PROVE  ConfigInv'
<1>1. /\ job' = NoJob /\ UNCHANGED <<config, pc>> /\ pc # "config"
      /\ Stored'.v1 = config.v1 /\ Stored'.v2 = config.v2
  <2>1. 7 \in 1 .. 7
    OBVIOUS
  <2> QED BY <2>1, ConfigWritten DEF WriteCell, StorageInv, TypeOK
<1>2. Outside(Stored)' = Outside(config) /\ Outside(config') = Outside(config)
  BY <1>1 DEF Outside
<1>3. CASE config.v1 \in InLimits /\ config.v2 \in InLimits
  <2>1. torn' = 0 /\ Outside(config) = 0
    BY <1>1, <1>3 DEF WriteCell, Outside
  <2> QED BY <1>1, <1>2, <1>3, <2>1 DEF ConfigInv, Kept, NoJob
<1>4. CASE ~(config.v1 \in InLimits /\ config.v2 \in InLimits)
  <2>1. torn' = torn /\ cut' = cut
    BY <1>1, <1>4 DEF WriteCell, StorageInv, TypeOK
  <2>2. ~cut => Outside(config) <= torn
    BY DEF ConfigInv
  <2> QED BY <1>1, <1>2, <2>1, <2>2 DEF ConfigInv, Kept, NoJob
<1> QED BY <1>3, <1>4

LEMMA ConfigCell == StorageInv /\ ConfigInv /\ WriteCell => ConfigInv'
<1> SUFFICES ASSUME StorageInv, ConfigInv, WriteCell PROVE ConfigInv'
  OBVIOUS
<1>1. config' = config /\ pc' = pc /\ pc # "config"
  BY DEF WriteCell, memory, StorageInv, TypeOK
<1>2. job.what \in {"config", "first", "indexes", "clear", "format"}
  BY DEF StorageInv, TypeOK, Jobs, WriteCell
<1>3. ASSUME job.what \in {"config", "first"} PROVE ConfigInv'
  <2>1. PICK k \in 1 .. 7 : /\ ConfigUpTo(k)
                            /\ ~cut /\ job.what = "config" => HalfWritten(k)
    <3>1. PICK k \in 1 .. 7 : ConfigUpTo(k)
      BY <1>3 DEF StorageInv, Jobs
    <3>2. ASSUME ~cut, job.what = "config"
          PROVE  \E i \in 1 .. 7 : ConfigUpTo(i) /\ HalfWritten(i)
      BY <3>2 DEF ConfigInv, HalfWritten
    <3> QED BY <3>1, <3>2
  <2>2. CASE k = 7
    BY <1>3, <2>1, <2>2, LastCell
  <2>3. CASE k < 7
    <3>1. k \in 1 .. 6 /\ k + 1 \in 1 .. 7
      BY <2>3
    <3>2. job'.what = job.what /\ job' # NoJob
      BY <1>3, <2>1, <2>3, ConfigWritten
    <3>3. cut' = cut /\ torn' = torn
      BY <3>2 DEF WriteCell, StorageInv, TypeOK
    <3>4. ~cut /\ job.what = "config" => HalfWritten(k + 1)'
      BY <2>1, <3>1, HalfCell
    <3>5. ~cut => Outside(config) <= torn
      BY DEF ConfigInv
    <3>6. (~cut => Outside(config) <= torn)'
      BY <1>1, <3>3, <3>5
    <3>7. (~cut /\ job.what = "config" => \E i \in 1 .. 7 : HalfWritten(i))'
      BY <3>1, <3>2, <3>3, <3>4
    <3> QED BY <1>1, <1>3, <3>2, <3>6, <3>7 DEF ConfigInv
  <2> QED BY <2>2, <2>3
<1>4. ASSUME job.what \notin {"config", "first"} PROVE ConfigInv'
  <2>1. cut' = cut /\ torn' = torn
    BY <1>4 DEF WriteCell, StorageInv, TypeOK
  <2>2. CASE job.what = "format"
    <3>1. ~ValidConfig' /\ job'.what \in {"none", "format"}
      BY <2>2, WriteFormat
    <3> QED BY <1>1, <2>1, <3>1 DEF ConfigInv
  <2>3. CASE job.what \in {"indexes", "clear"}
    <3>1. eeConfig' = eeConfig
      BY <2>3, WriteIndexes
    <3>2. job'.what \notin {"config", "first"}
      <4>1. job = [what |-> job.what, left |-> job.left]
        BY DEF StorageInv, Jobs
      <4>2. job' = NoJob \/ job' = [job EXCEPT !.left = Tail(@)]
        BY DEF WriteCell
      <4> QED BY <2>3, <4>1, <4>2 DEF NoJob
    <3> QED BY <1>1, <1>4, <2>1, <3>1, <3>2, ConfigStays
  <2> QED BY <1>2, <1>4, <2>2, <2>3
<1> QED BY <1>3, <1>4
--------------------------------------------------------------------------------
\* Between which cells the power fails.
LEMMA TornCell ==
  ASSUME StorageInv, job.what = "config", NEW k \in 1 .. 7, ConfigUpTo(k)
  PROVE  WithinParameter <=> k \in {5, 7}
<1> DEFINE cells == InConfig(Data(config))
<1>1. /\ cells \in Seq(Elements(cells)) /\ Len(cells) = 7
      /\ cells[k] = <<"config", k, Data(config)[k]>>
  BY ConfigCells
<1>2. job.left = LeftFrom(cells, k)
  BY DEF ConfigUpTo, Data
<1> HIDE DEF cells
<1>3. Head(job.left) = cells[k]
  <2>1. k \in 1 .. Len(cells)
    BY <1>1
  <2>2. cells \in Seq(Elements(cells))
    BY <1>1
  <2>3. Head(LeftFrom(cells, k)) = cells[k]
    BY <2>1, <2>2, LeftFromOK
  <2> QED BY <1>2, <2>3
<1> QED BY <1>1, <1>3 DEF WithinParameter

\* The parameter that is half written is all that the EEPROM loses.
LEMMA ConfigPower == StorageInv /\ ConfigInv /\ PowerFails => ConfigInv'
<1> SUFFICES ASSUME StorageInv, ConfigInv, PowerFails PROVE ConfigInv'
  OBVIOUS
<1>1. /\ pc' = "config" /\ config' = [v1 |-> minValue, v2 |-> minValue] /\ eeConfig' = eeConfig
      /\ job' = NoJob /\ cut' = (cut \/ (job.what = "first" /\ ValidConfig))
      /\ torn' = IF WithinParameter /\ torn < 2 THEN torn + 1 ELSE torn
  BY DEF PowerFails, eeprom
<1>2. Stored' = Stored /\ ValidConfig' = ValidConfig
  BY <1>1 DEF Stored, ValidConfig
<1>3. /\ config'.v1 \in InLimits /\ config'.v2 \in InLimits /\ Outside(config') = 0
  BY <1>1, MinValue DEF Outside
<1>4. torn \in 0 .. 2 /\ torn' \in 0 .. 2 /\ torn <= torn'
  BY <1>1 DEF StorageInv, TypeOK
<1>5. ASSUME ~cut', ValidConfig PROVE Outside(Stored) <= torn'
  <2>1. ~cut /\ job.what # "first"
    BY <1>1, <1>5
  <2>2. CASE job.what # "config"
    BY <1>4, <1>5, <2>1, <2>2 DEF ConfigInv, Kept, Outside
  <2>3. CASE job.what = "config"
    <3>1. PICK k \in 1 .. 7 : HalfWritten(k)
      BY <2>1, <2>3 DEF ConfigInv
    <3>2. ConfigUpTo(k)
      BY <3>1 DEF HalfWritten
    <3>3. WithinParameter <=> k \in {5, 7}
      BY <2>3, <3>2, TornCell
    <3>4. CASE k < 5
      BY <1>4, <3>1, <3>4 DEF HalfWritten, Kept, Outside
    <3>5. CASE k \in {5, 6}
      <4> DEFINE half == [v1 |-> config.v1, v2 |-> Stored.v2]
      <4>1. Outside(half) <= torn
        BY <3>1, <3>5 DEF HalfWritten, Kept
      <4>2. half.v1 = config.v1 /\ half.v2 = Stored.v2
        OBVIOUS
      <4>3. k = 6 => Stored.v1 = config.v1
        BY <3>2 DEF ConfigUpTo
      <4> HIDE DEF half
      <4>4. CASE k = 6
        BY <1>4, <4>1, <4>2, <4>3, <4>4 DEF Outside
      <4>5. CASE k = 5
        <5>1. torn < 2 => torn' = torn + 1
          BY <1>1, <3>3, <4>5
        <5> QED BY <1>4, <4>1, <4>2, <5>1 DEF Outside
      <4> QED BY <3>5, <4>4, <4>5
    <3>6. CASE k = 7
      <4>1. Stored.v1 = config.v1
        BY <3>2, <3>6 DEF ConfigUpTo
      <4>2. Outside(config) <= torn
        BY <2>1 DEF ConfigInv
      <4>3. torn < 2 => torn' = torn + 1
        BY <1>1, <3>3, <3>6
      <4> QED BY <1>4, <4>1, <4>2, <4>3 DEF Outside
    <3> QED BY <3>4, <3>5, <3>6
  <2> QED BY <2>2, <2>3
<1>6. ~cut' /\ ValidConfig' => Kept(Stored)'
  BY <1>2, <1>3, <1>5 DEF Kept
<1>7. ~cut' => Outside(config') <= torn'
  BY <1>3, <1>4
<1> QED BY <1>1, <1>3, <1>6, <1>7 DEF ConfigInv, NoJob

LEMMA ConfigNext == StorageInv /\ ConfigInv /\ [Next]_vars => ConfigInv'
<1> SUFFICES ASSUME StorageInv, ConfigInv, [Next]_vars PROVE ConfigInv'
  OBVIOUS
<1> USE DEF memory, eeprom, history
<1>1. CASE Setup
  <2>1. Idle /\ LoadConfig /\ pc' # "config" /\ UNCHANGED <<eeprom, cut, torn>>
    BY <1>1 DEF StorageInv, TypeOK, Setup
  <2> QED BY <2>1, ConfigLoaded
<1>2. CASE LOADCFG
  <2>1. Idle /\ LoadConfig /\ pc' # "config" /\ UNCHANGED <<eeprom, cut, torn>>
    BY <1>2 DEF LOADCFG, InLoop
  <2> QED BY <2>1, ConfigLoaded
<1>3. CASE WriteCell
  BY <1>3, ConfigCell
<1>4. CASE SETPARAM
  BY <1>4, ConfigSet
<1>5. CASE SAVECFG
  BY <1>5, ConfigSaved
<1>6. CASE PowerFails
  BY <1>6, ConfigPower
<1>7. CASE indexRead \/ Window \/ LoseWindow \/ Pulse \/ FORMAT \/ SAVEINDX \/ INDX0 \/ Restart
  <2>1. UNCHANGED <<config, eeConfig, cut, torn>> /\ pc' # "config" /\ pc # "config"
    BY <1>7 DEF indexRead, Window, LoseWindow, Pulse, FORMAT, SAVEINDX, INDX0, Restart, InLoop
  <2>2. \/ job' = job
        \/ Idle /\ job'.what \in {"indexes", "clear", "format"}
    BY <1>7, NewFormatJob
       DEF indexRead, Window, LoseWindow, Pulse, FORMAT, SAVEINDX, INDX0, Restart, InLoop,
           indexWrite, IndexJob
  <2>3. \/ job' = job
        \/ job.what \notin {"config", "first"} /\ job'.what \notin {"config", "first"}
    BY <2>2 DEF Idle, NoJob
  <2> QED BY <2>1, <2>3, ConfigStays
<1>8. CASE UNCHANGED vars
  <2>1. UNCHANGED <<config, eeConfig, cut, torn, pc, job>>
    BY <1>8 DEF vars
  <2>2. CASE pc # "config"
    BY <2>1, <2>2, ConfigStays
  <2>3. CASE pc = "config"
    <3>1. Idle /\ job.what = "none"
      BY <2>3 DEF StorageInv, TypeOK, Idle, NoJob
    <3>2. Stored' = Stored /\ ValidConfig' = ValidConfig
      BY <2>1 DEF Stored, ValidConfig
    <3>3. Kept(Stored) => Kept(Stored)'
      BY <2>1, <3>2 DEF Kept
    <3> QED BY <2>1, <3>1, <3>2, <3>3 DEF ConfigInv
  <2> QED BY <2>2, <2>3
<1> QED BY <1>1, <1>2, <1>3, <1>4, <1>5, <1>6, <1>7, <1>8 DEF Next, Loop, Request

\* In an EEPROM with no configuration of version 1, a failure of the power, wherever it
\* falls among the cells of a save, damages no parameter but the one that was half
\* written: so many parameters in use are outside their limits, at most, as there were
\* such failures since a configuration within its limits was written whole.  Only a first
\* configuration that is cut short is left out.
THEOREM ConfigInUseValid ==
  ASSUME "version 1" \notin Images
  PROVE  Spec => []ConfigValid
<1>1. Init => ConfigInv
  BY ConfigInit
<1>2. ConfigInv => ConfigValid
  BY DEF ConfigInv, ConfigValid
<1> QED BY <1>1, <1>2, ConfigNext, StorageInvariant, PTL DEF Spec
================================================================================
