\* pth_mysem.c with a ring of two slots.
CONSTANTS
  Producer = producer
  Consumer = consumer
  Nobody = Nobody
  NUM = 2
  MaxDrift = 2
  MaxSpurious = 0
SPECIFICATION Spec
INVARIANT NeverBelowZero
