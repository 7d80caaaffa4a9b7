CONSTANTS
  Listener = {l1, l2}
  Binder = {b1, b2}
  l1 = l1
  l2 = l2
  b1 = b1
  b2 = b2
  NoOne = NoOne
SPECIFICATION FairLSpec
INVARIANT HasClientsAccurate
INVARIANT NoCallbackAfterRemoval
PROPERTY CallsReturn
