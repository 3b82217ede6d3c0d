CONSTANTS
  Count = 2
  Duration = {0, 2, 3}
  _timeScale = 2
  Modulus = 8
  Careful = TRUE
  MaxAge = 5
  MaxStarts = 4
  SerialByte = {"x", "y"}
  BuffSize = 4
  KeepsUp = TRUE
  Colour = {"red", "blue"}
  NoPulse = "none"
  Blocks = 2
  Prompt = TRUE
  RAWBUF = 4
  Yields = TRUE
  CO2_CAL_ACT = 4
  CO2_CAL_END = 6
  Warmup = 2
  GasLast = 8
  MaxGap = 2
  MaxBoots = 4
  FrameCounts = {2, 3}
  ticksPerFrame = 2
  ticksPerTransition = 1
  updateInterval = 2
  BudgetByte = 8
  LatestUpdate = 6
  Patient = TRUE
  MaxCalls = 3
  Bits = 3
  FamilyBits = 2
  MaxDevices = 4
  MaxChanges = 1
  ClockModulus = 16
  ClockLast = 7
  ClockInterval = {1, 3}
  _size = 3
  AverageValue = {1, 2, 5}
  NAN = NAN
  RadioLate = FALSE
SPECIFICATION MCSpec
INVARIANTS Types CapturedWhole CountIsActive DirectionKept Agreement Statistics TellsDelivery
PROPERTIES SerialIsQueue ShownWhole AnimationsEnd CalibratesBeforeClearing CalibrationEnds
  AllFramesShown SearchOK OnTime CallEnds
