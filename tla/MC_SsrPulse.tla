------------------------------ MODULE MC_SsrPulse ------------------------------
(***************************************************************************)
(* SsrPulse on a short scale, with the delays of the code checked against  *)
(* its assumption.                                                         *)
(***************************************************************************)
EXTENDS SsrPulseProps, EnergyToDelay
================================================================================
