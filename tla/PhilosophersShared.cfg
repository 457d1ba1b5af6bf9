\* Three philosophers, none woken without a signal.
CONSTANTS
  N = 3
  Nobody = 0
  MaxSpurious = 0
SPECIFICATION Spec
INVARIANT Exclusive
