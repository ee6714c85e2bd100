CONSTANTS
  NAP_DURATION = 6
  WAIT_START_CALIBRATION = 1
  WAIT_STOP_CALIBRATION = 1
  WAIT_SECOND_APERTURE = 1
  MaxSince = 8
  Clients = {"command"}
  Temps <- MCTemps
  AutoConfigs <- MCAutoConfigs
SPECIFICATION AutoshutterSpec
INVARIANTS
  AutoshutterTypeOK
  NapTimeline
  NeverMeasureInTheDark
PROPERTIES
  OffsetUpdateInTheDark
  OpensAfterCalibration
  NapEnds
  PeriodicNapsRecur
