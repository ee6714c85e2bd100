CONSTANTS
  BootOrder <- MCBootOrder
  SaveOrder <- MCSaveOrder
  Registers <- MCRegisters
  Owned <- MCOwned
  Restored <- MCRestored
  Defaulted <- MCDefaulted
  Momentary <- MCMomentary
  Values = {0, 1}
  Factory = 0
SPECIFICATION ServiceSpec
PROPERTIES
  SavedSettingsReachStart
