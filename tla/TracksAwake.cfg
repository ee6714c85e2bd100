CONSTANTS
  NAP_DURATION = 4
  WAIT_START_CALIBRATION = 0
  WAIT_STOP_CALIBRATION = 0
  WAIT_SECOND_APERTURE = 0
  MaxSince = 3
  Clients = {"command"}
  Temps <- MCTemps
  AutoConfigs <- MCAutoConfigs
  RegisterValues <- MCExternalValues
  InitialRegisters <- MCExternalRegisters
  Moments <- MCMoments
  DarkMoment = 0
  MaxTrack = 2
  MaxSamples = 1
  MaxQuiet = 4
  Parameters <- MCParameters
  Biases <- MCBiases
  Errors <- MCErrors
  FreeIntegral = 2
  FullScale = 2
  UndefinedDuties = {0}
  AlarmParameters <- MCAlarmParameters
  AlarmTimes <- MCAlarmTimes
  Widths <- MCWidths
  CounterSize = 2
  MaxRun = 2
SPECIFICATION CoreSpec
PROPERTIES
  TracksCountedAwake
