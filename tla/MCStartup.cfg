CONSTANTS
  Caller <- MCCaller
  Transport <- MCTransport
  None = None
  Itm = "ITM"
SPECIFICATION Spec
INVARIANT TypeOK
INVARIANT OneStartupInOrder
INVARIANT SuccessIsComplete
INVARIANT OutputReachesItsTransport
PROPERTY BaselineWithoutDebug
PROPERTY DebugErrorIsFinal
PROPERTY StartupEnds
