CONSTANTS
  Parameters <- MCParameters
  Biases <- MCBiases
  Errors <- MCErrors
  FreeIntegral = 4
  FullScale = 16
  UndefinedDuties = {0, 99}
  AlarmParameters <- MCAlarmParameters
  AlarmTimes <- MCAlarmTimes
  Widths <- MCWidths
  CounterSize = 4
  MaxRun = 5
  Measured <- MCMeasured
  BuffSizes <- MCBuffSizes
  LMAX_CIRCULAR_BUFFER_SIZE = 3
SPECIFICATION RegulationSpec
INVARIANTS
  PowerTypeOK
  OutputWithinLimits
  IntegralBounded
  DutyOnScale
  WindowAverage
  CountdownExact
PROPERTIES
  SlewBounded
  OutputRaisedByFault
  PersistentFaultAlarms
