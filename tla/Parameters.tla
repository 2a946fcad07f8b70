------------------------------ MODULE Parameters ------------------------------
(***************************************************************************)
(* The parameters of the router and what SETPARAM stores in them: a value  *)
(* is read, converted to an int, kept within the limits of its parameter   *)
(* and stored in the type of the parameter.  A float keeps its value; it   *)
(* is counted here in any unit that makes it an integer.                   *)
(***************************************************************************)
EXTENDS Integers, Sequences

Param(dataType, minValue, maxValue) ==
  [dataType |-> dataType, minValue |-> minValue, maxValue |-> maxValue]

pvrParamConfig ==
  << Param("float", 0, 2),          \* V_CALIB
     Param("float", 0, 1),          \* P_CALIB
     Param("int", -16, 48),         \* PHASE_CALIB
     Param("int", -100, 100),       \* P_OFFSET
     Param("int", 100, 10000),      \* P_RESISTANCE
     Param("int", -2000, 2000),     \* P_MARGIN
     Param("int", 0, 1000),         \* GAIN_P
     Param("int", 0, 1000),         \* GAIN_I
     Param("byte", 0, 200),         \* E_RESERVE
     Param("int", 0, 9999),         \* P_DIV2_ACTIVE
     Param("int", 0, 9999),         \* P_DIV2_IDLE
     Param("byte", 0, 240),         \* T_DIV2_ON
     Param("byte", 0, 240),         \* T_DIV2_OFF
     Param("byte", 0, 60),          \* T_DIV2_TC
     Param("float", 0, 1000),       \* CNT_CALIB
     Param("int", 100, 30000) >>    \* P_INSTALLPV

NB_PARAM == 16
GAIN_P_NUM == 7
GAIN_I_NUM == 8

\* The int of the ATmega328P has 16 bits, its byte 8: toInt gives a long.
int(x) == ((x + 32768) % 65536) - 32768
byte(x) == x % 256

constrain(x, low, high) == IF x < low THEN low ELSE IF x > high THEN high ELSE x

\* What SETPARAM stores for the number value, in parameter paramNum.
SETPARAM(paramNum, value) ==
  LET p == pvrParamConfig[paramNum]
      kept == constrain(IF p.dataType = "float" THEN value ELSE int(value),
                        p.minValue, p.maxValue)
  IN IF p.dataType = "byte" THEN byte(kept) ELSE kept
================================================================================
