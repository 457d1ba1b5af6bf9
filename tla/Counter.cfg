\* Both programs; ten iterations are far more than a thread must fall behind
\* for the count to drop to 2.
CONSTANTS
  A = A
  B = B
  NLOOP = 10
  Nobody = Nobody
SPECIFICATION Spec
INVARIANTS TypeOK NoneLost AtLeastTwo
