CONSTANTS
  dispatcher = dispatcher
  application = application
  NAP_DURATION = 2
  WAIT_START_CALIBRATION = 0
  WAIT_STOP_CALIBRATION = 0
  WAIT_SECOND_APERTURE = 0
  MaxSince = 1
  Temps <- MCTemps
  AutoConfigs <- MCAutoConfigs
  Clients = {dispatcher, application}
  Offers <- MCOffers
  CalibrationDisabled = FALSE
SPECIFICATION CalibrationSpec
INVARIANTS
  ShutterAccounted
  OpmodeAccounted
  BypassAccounted
PROPERTIES
  ImagesAreHonest
  ShutterReopens
