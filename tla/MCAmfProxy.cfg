CONSTANTS
  Proxy = Proxy
  X = X
  Y = Y
SPECIFICATION Spec
INVARIANT RegisteredAsAssigned
INVARIANT ServedAsAssigned
PROPERTY CallbackEnds
