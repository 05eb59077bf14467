CONSTANTS
  Config <- MCConfig
  NoConfig = NoConfig
SPECIFICATION Spec
INVARIANT TypeOK
INVARIANT UsableIsServed
INVARIANT QuietWhenFree
INVARIANT CallbackIsUsable
PROPERTY CallReturns
PROPERTY Delivered
