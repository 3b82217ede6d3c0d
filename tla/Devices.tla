------------------------------- MODULE Devices -------------------------------
(***************************************************************************)
(* The device libraries side by side, for those who check or prove one     *)
(* after the other.  They share no state; what two of them call by the     *)
(* same name has two names here.                                           *)
(***************************************************************************)
EXTENDS Integers, Sequences

CONSTANTS
  SerialByte, BuffSize, KeepsUp,
  Colour, NoPulse, Blocks, Prompt,
  RAWBUF, Yields,
  CO2_CAL_ACT, CO2_CAL_END, Warmup, GasLast, MaxGap, MaxBoots,
  FrameCounts, ticksPerFrame, ticksPerTransition, updateInterval, BudgetByte, LatestUpdate,
  Patient, MaxCalls,
  Bits, FamilyBits, MaxDevices, MaxChanges,
  ClockModulus, ClockLast, ClockInterval,
  _size, AverageValue, NAN,
  RadioLate

VARIABLES
  \* serial
  m_buffer, m_inPos, m_outPos, m_rxValid, spc, ch, outWas, edge, in, out,
  \* leds
  _pixels, _i2sBuffer, dirty, _dmaState, dpc, fill, at, lastLink, irq, wire, leds,
  \* infrared
  rcvstate, rawbuf, armed, enabled, silent, ipc, hit, seen,
  \* gas
  flag, sentResetCmd, currentStatus, startedCO2Monitoring, millis, gap, commanded, boots,
  \* frames
  frameCount, frameState, currentFrame, nextFrameNumber, frameTransitionDirection,
  lastTransitionDirection, manuelControll, autoTransition, ticks, elapsed, drawn,
  chosen, calls,
  \* wire
  bus, ROM_NO, LastDiscrepancy, LastDeviceFlag, id_bit_number, last_zero, selected,
  wresult, found, stayed, target, left, changes,
  \* timer
  now, LastTime, DiffTime, msInterval, blEnabled, blSingleShot, fired, ran, paused, pause, kept,
  restarted,
  \* nfc
  call, npc, mode, result, air, turn, owes, puts, link,
  \* average
  av, window, since,
  \* radio
  fifo, TX_DS, MAX_RT, sending, listening, rpc, tx_ok, rresult, acked

Serial   == INSTANCE SoftwareSerialESP WITH Byte <- SerialByte, pc <- spc
Leds     == INSTANCE NeoEsp8266Dma WITH Zero <- NoPulse, pc <- dpc
Infrared == INSTANCE IRrecv WITH pc <- ipc
Gas      == INSTANCE CubicGasSensors WITH Last <- GasLast, MaxStarts <- MaxBoots
Frames   == INSTANCE OLEDDisplayUi WITH Byte <- BudgetByte, Late <- LatestUpdate
Wire     == INSTANCE OneWire WITH result <- wresult
Clock    == INSTANCE Timer WITH Modulus <- ClockModulus, Last <- ClockLast, Interval <- ClockInterval
Nfc      == INSTANCE LLCP WITH pc <- npc
Average  == INSTANCE RunningAverage WITH Value <- AverageValue
Radio    == INSTANCE RF24 WITH Late <- RadioLate, pc <- rpc, result <- rresult

ASSUME PartAssumptions ==
  /\ Serial!ConstantsOK /\ Leds!ConstantsOK /\ Infrared!ConstantsOK /\ Gas!ConstantsOK
  /\ Frames!ConstantsOK /\ Wire!ConstantsOK /\ Clock!ConstantsOK /\ Average!ConstantsOK
  /\ Radio!ConstantsOK

-----------------------------------------------------------------------------
(* Properties *)

\* SoftwareSerialESP: read() returns the bytes of the line, all and in order.
SerialIsQueue == Serial!ImplementsFifo

\* NeoEsp8266DmaMethod: a picture is taken while there is room for it, only
\* a picture that was taken is shown, and there is room again when it is.
WholePictures == Leds!Box!Init /\ [][Leds!Box!Next]_(Leds!Box!vars)

\* IRrecv: what is decoded is one message.
CapturedWhole == Infrared!CapturedWhole

\* CubicGasSensors: the request is given up only after the command.
CalibratesBeforeClearing == Gas!CalibratesBeforeClearing

\* CubicGasSensors: a calibration ends.
CalibrationEnds == Gas!CalibrationEnds

\* OLEDDisplayUi: the direction of the automatic transitions is kept.
DirectionKept == Frames!DirectionKept

\* OneWire: a search finds every device, each once, and the family asked for.
SearchOK == Wire!SearchOK

\* Timer: the function runs when the interval has passed, and not before.
OnTime == Clock!OnTime

\* RunningAverage: the statistics are those of the values added.
Statistics == Average!Statistics

\* RF24: write() tells whether its payload was delivered.
TellsDelivery == Radio!TellsDelivery

\* PN532: turns alternate, and a message is put once.
Agreement == Nfc!Agreement

\* PN532: a call comes to its end.
CallEnds == Nfc!CallEnds
=============================================================================
