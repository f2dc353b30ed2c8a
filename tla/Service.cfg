SPECIFICATION FairSpec
CONSTANTS
  Envs <- MCEnvs
  MaxActive = 2
  MaxRequests = 1
INVARIANTS TypeOK StopsInTwoDrains CleanExit NoPartialService PanicOnlyByInterval
PROPERTIES ImplementsPool ShutdownCompletes
CHECK_DEADLOCK FALSE
