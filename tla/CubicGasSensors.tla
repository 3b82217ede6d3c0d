--------------------------- MODULE CubicGasSensors ---------------------------
(***************************************************************************)
(* The CO2 sensor of CubicGasSensors.cpp.  A flag in EEPROM asks for a     *)
(* calibration after the next start: the sensor is told to take the air    *)
(* for 400 ppm once it has run for a while, and later the flag is cleared. *)
(* The board may lose its power at any time.                               *)
(***************************************************************************)
EXTENDS Integers

CONSTANTS
  CO2_CAL_ACT, CO2_CAL_END,
  Warmup,     \* the sensor reports 550 ppm up to this time, 130 s in the code
  Last,       \* bound: times after this one are not told apart
  MaxGap,     \* the longest time without a call of getCO2()
  MaxStarts   \* bound: starts of the board

VARIABLES
  flag,          \* EEPROM.read(eepromReset) = 1
  sentResetCmd, currentStatus, startedCO2Monitoring,
  millis,        \* since the start
  gap,           \* time since the start or the last call
  commanded,     \* a command has been written since the flag was set
  boots          \* starts so far

clock == <<millis, gap>>
vars  == <<flag, sentResetCmd, currentStatus, startedCO2Monitoring, clock, commanded, boots>>

ConstantsOK ==
  /\ {CO2_CAL_ACT, CO2_CAL_END, Warmup, Last, MaxGap, MaxStarts} \subseteq Nat
  /\ Warmup < CO2_CAL_ACT /\ CO2_CAL_ACT < CO2_CAL_END /\ CO2_CAL_END < Last

TypeOK ==
  /\ {flag, sentResetCmd, startedCO2Monitoring, commanded} \subseteq BOOLEAN
  /\ currentStatus \in {"CB_INIT", "CB_WARMUP", "CB_CALIBRATE", "CB_STARTED"}
  /\ millis \in 0 .. Last /\ gap \in 0 .. MaxGap
  /\ boots \in 0 .. MaxStarts

Fresh ==
  /\ sentResetCmd' = FALSE /\ currentStatus' = "CB_INIT" /\ startedCO2Monitoring' = FALSE
  /\ millis' = 0 /\ gap' = 0

Init ==
  /\ flag = FALSE /\ commanded = FALSE /\ boots = 0
  /\ sentResetCmd = FALSE /\ currentStatus = "CB_INIT" /\ startedCO2Monitoring = FALSE
  /\ millis = 0 /\ gap = 0

\* The power fails, in a call or between two.
Restart ==
  /\ boots < MaxStarts /\ boots' = boots + 1
  /\ Fresh /\ UNCHANGED <<flag, commanded>>

\* The sketch that wants a calibration sets the flag and starts again.
RequestCalibration ==
  /\ boots < MaxStarts /\ boots' = boots + 1
  /\ flag' = TRUE /\ commanded' = FALSE
  /\ Fresh

\* Mutant: the command waits until the flag is cleared.
CommandAtEnd ==
  /\ flag /\ millis <= CO2_CAL_END
  /\ currentStatus' = "CB_CALIBRATE"
  /\ LET act == ~sentResetCmd /\ millis > CO2_CAL_END
     IN /\ sentResetCmd' = (sentResetCmd \/ act)
        /\ commanded' = (commanded \/ act)
  /\ UNCHANGED <<flag, startedCO2Monitoring>>

\* checkForReset() while the calibration goes on.
Calibrating ==
  /\ flag /\ millis <= CO2_CAL_END
  /\ currentStatus' = "CB_CALIBRATE"
  /\ LET act == ~sentResetCmd /\ millis > CO2_CAL_ACT
     IN /\ sentResetCmd' = (sentResetCmd \/ act)
        /\ commanded' = (commanded \/ act)
  /\ UNCHANGED <<flag, startedCO2Monitoring>>

\* The rest of getCO2(): an answer that fails its checks counts as 0.
Read(value) ==
  /\ \/ /\ value = 0
        /\ UNCHANGED startedCO2Monitoring
        /\ currentStatus' = IF flag THEN "CB_CALIBRATE" ELSE currentStatus
     \/ /\ value = 550 /\ millis < Warmup
        /\ startedCO2Monitoring' = FALSE /\ currentStatus' = "CB_WARMUP"
     \/ /\ value # 0 /\ (value = 550 => millis >= Warmup)
        /\ startedCO2Monitoring' = TRUE /\ currentStatus' = "CB_STARTED"
  /\ UNCHANGED <<sentResetCmd, commanded>>

\* Mutant: the flag stays.
ReadingNeverClears ==
  /\ flag => millis > CO2_CAL_END
  /\ flag' = flag
  /\ \E value \in {0, 550, 800} : Read(value)

\* checkForReset() with the flag clear, or cleared by it when the time is over.
Reading ==
  /\ flag => millis > CO2_CAL_END
  /\ flag' = FALSE
  /\ \E value \in {0, 550, 800} : Read(value)

getCO2 ==
  /\ Calibrating \/ Reading
  /\ gap' = 0 /\ UNCHANGED <<millis, boots>>

Tick ==
  /\ gap < MaxGap
  /\ gap' = gap + 1 /\ millis' = IF millis < Last THEN millis + 1 ELSE Last
  /\ UNCHANGED <<flag, sentResetCmd, currentStatus, startedCO2Monitoring, commanded, boots>>

Next == Restart \/ RequestCalibration \/ getCO2 \/ Tick

\* The sketch keeps calling getCO2(), and time passes.
Spec == Init /\ [][Next]_vars /\ WF_vars(getCO2) /\ WF_vars(Tick)

-----------------------------------------------------------------------------
(* Properties *)

\* checkForReset: the request for a calibration is given up only when the
\* sensor has been sent the command, whatever restarts come in between
\* (while getCO2() is called often enough: MaxGap).
CalibratesBeforeClearing == [][flag /\ ~flag' => commanded]_vars

\* checkForReset: a calibration ends, and measuring goes on after it: the
\* restarts cannot leave the flag set for ever.
CalibrationEnds == flag ~> ~flag
=============================================================================
