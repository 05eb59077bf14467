CONSTANTS
  Config <- MCConfig
  NoConfig = NoConfig
  TempCoCfg <- MCTempCoCfg
SPECIFICATION TempCoSpec
INVARIANT TempCoTypeOK
INVARIANT AdcCallsLegal
INVARIANT NothingForgotten
INVARIANT ReleasedBeforeReuse
PROPERTY SuppressedDuringCalls
