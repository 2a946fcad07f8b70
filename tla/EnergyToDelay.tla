----------------------------- MODULE EnergyToDelay -----------------------------
(***************************************************************************)
(* The delays of the SSR pulse, in ticks of Timer1 (64 us): one for each   *)
(* power the regulator may ask for, 0 to 255.                              *)
(***************************************************************************)
EXTENDS Integers, Sequences

energyToDelay == <<
  144, 143, 141, 140, 139, 137, 136, 135, 134, 133, 132, 131, 130, 129, 128, 128,
  127, 127, 126, 125, 124, 123, 123, 122, 122, 121, 121, 120, 119, 119, 118, 118,
  117, 117, 116, 116, 115, 115, 114, 114, 114, 113, 113, 112, 112, 112, 111, 111,
  110, 110, 109, 109, 109, 108, 108, 108, 107, 107, 107, 106, 106, 106, 105, 105,
  104, 104, 104, 103, 103, 103, 102, 102, 102, 101, 101, 101, 100, 100, 100,  99,
  99,  99,  99,  98,  98,  98,  97,  97,  97,  96,  96,  95,  95,  95,  95,  94,
  94,  94,  93,  93,  93,  93,  92,  92,  91,  91,  91,  91,  90,  90,  90,  89,
  89,  89,  88,  88,  88,  87,  87,  87,  86,  86,  86,  85,  85,  84,  84,  84,
  84,  83,  83,  83,  82,  82,  82,  82,  81,  81,  80,  80,  80,  80,  79,  79,
  79,  78,  78,  78,  77,  77,  77,  76,  76,  76,  75,  75,  74,  74,  74,  73,
  73,  73,  72,  72,  72,  71,  71,  71,  70,  70,  70,  69,  69,  69,  69,  68,
  68,  67,  67,  67,  66,  66,  65,  65,  65,  64,  64,  63,  63,  63,  62,  62,
  62,  61,  61,  61,  60,  60,  60,  59,  59,  58,  58,  58,  57,  57,  56,  56,
  56,  55,  55,  54,  54,  53,  53,  52,  52,  52,  51,  51,  50,  50,  50,  49,
  49,  48,  48,  47,  46,  45,  44,  44,  43,  43,  42,  42,  41,  41,  40,  39,
  39,  38,  37,  36,  35,  33,  32,  31,  27,  25,  20,  15,  12,  10,   9,   8 >>

\* The end of the pulse after the crossing: 9.5 ms.
PULSE_END_MAINS == 148

\* The delay of a command; arrays begin at 0.
Delay(command) == energyToDelay[command + 1]

\* What SsrPulse assumes of the delays holds of the table: a pulse begins after
\* the crossing and before its end, for a command above 0.
ASSUME DelaysAssumption ==
  /\ Len(energyToDelay) = 256
  /\ \A command \in 1 .. 255 : Delay(command) \in 1 .. PULSE_END_MAINS - 1

\* More power means an earlier pulse, which is what the regulator relies on.
ASSUME OrderAssumption ==
  \A command \in 1 .. 255 : Delay(command) <= Delay(command - 1)
================================================================================
