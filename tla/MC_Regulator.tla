----------------------------- MODULE MC_Regulator -----------------------------
(***************************************************************************)
(* The instances of the regulator, and the limits of its parameters.       *)
(***************************************************************************)
EXTENDS RegulatorProps, Parameters

\* Whatever number a user gives, at the limits of the types too, SETPARAM stores
\* one that its parameter may have.
Numbers == {-70000, -32769, -32768, -2001, -1, 0, 1, 240, 255, 256, 1001, 32767,
            32768, 40000, 65535, 65536, 70000}
ASSUME SetParamAssumption ==
  \A paramNum \in 1 .. NB_PARAM, value \in Numbers :
    LET p == pvrParamConfig[paramNum]
    IN SETPARAM(paramNum, value) \in p.minValue .. p.maxValue
================================================================================
