CONSTANTS
  RegisterValues <- MCRegisterValues
  InitialRegisters <- MCInitialRegisters
  Moments <- MCMoments
  MaxTrack = 2
  MaxSamples = 1
  MaxQuiet = 3
SPECIFICATION AutomatonSpec
INVARIANTS
  ManualIffMode
PROPERTIES
  NothingCarriedOver
  ReferenceIsMeasured
  ProcessEndsPatiently
  AbandonedProcessEnds
