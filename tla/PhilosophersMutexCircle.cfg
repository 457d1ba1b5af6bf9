CONSTANTS
  N = 5
  Nobody = 99
SPECIFICATION Spec
INVARIANT NoCircularWait
