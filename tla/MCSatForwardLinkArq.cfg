CONSTANTS
  Ut <- MCUt
  Connections <- MCConnections
  Bytes <- MCBytes
  Duration <- MCDuration
  HeaderBytes = 1
  HighOccupancy = 90
  LowOccupancy = 50
  PacketSizes = {2, 8}
  ControlSizes = {3}
  GseHeader = 1
  StartThreshold = 2
  StopThreshold = 5
  PeriodicInterval = 13
  DummyDuration = 3
  DefaultModcod = 2
  Window = 2
  MaxArrivals = 3
  UsedModes = {"NORMAL_FRAMES"}
  WithoutControl = {}
  NumbersOfSlices = {0}
  Arq = {TRUE}
  Reporting = {"u1"}
  MaxArqArrivals = 2
  MaxReports = 0
SPECIFICATION MCSpec
CHECK_DEADLOCK FALSE
PROPERTIES
  RoundEnds
