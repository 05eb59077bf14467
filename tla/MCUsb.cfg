CONSTANTS
  Room <- MCRoom
  Timeout = 2
  MaxLen = 2
  FlushLast = TRUE
SPECIFICATION UsbSpec
INVARIANT TypeOK
INVARIANT CoreExclusive
INVARIANT ResultTruthful
PROPERTY RxAnnounced
PROPERTY CallsEnd
