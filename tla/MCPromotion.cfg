CONSTANTS
  Versions = {"r1", "r2"}
  Absent = Absent
  Partial = Partial
  MaxFailures = 2
SPECIFICATION PromotionSpec
INVARIANT TypeOK
INVARIANT ProviderRecoverable
INVARIANT OneFailureNeverMissing
