CONSTANTS
  Cfg <- MCCfg
  None = None
SPECIFICATION PdmSpec
INVARIANT TypeOK
INVARIANT HalCallsLegal
INVARIANT NothingForgotten
INVARIANT LineOnlyWhileCapturing
PROPERTY ErrorLatched
PROPERTY FrameDelivered
