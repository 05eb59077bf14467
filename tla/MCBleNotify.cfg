CONSTANTS
  Chars = {"level", "rate", "status"}
  Async = {"status"}
  None = None
  Pool = 3
SPECIFICATION BleSpec
INVARIANT TypeOK
INVARIANT TimerMatchesSubscription
PROPERTY KeepsNotifying
