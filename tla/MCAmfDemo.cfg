CONSTANTS
  CSI = {c1, c2}
SPECIFICATION Spec
INVARIANT ActiveIsChecked
