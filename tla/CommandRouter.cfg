CONSTANTS
  Routes <- LegacyRoutes
  Words <- FieldWords
  LoopWords <- LoopMacros
  Fixed <- FixedAnswers
  Wide <- WideParameters
  Shared <- MCShared
  Devices <- MCDevices
  Openings <- MCOpenings
  InitialWords <- MCInitialWords
  StoredByOthers <- MCStoredByOthers
  Sessions <- MCSessions
  VALUE_RANGE = 65536
  WORD = 8
  UNIT = 6
  TICKS = 2
SPECIFICATION RouterSpec
INVARIANTS
  RequestKept
  TrackLengthHonest
PROPERTIES
  ImplementsRegisterStore
  RequestServed
