\* Two threads on each side of a queue of one, and one spurious wakeup.
CONSTANTS
  p1 = p1  p2 = p2  c1 = c1  c2 = c2
  Producers = {p1, p2}
  Consumers = {c1, c2}
  Nobody = Nobody
  Capacity = 1
  MaxData = 2
  MaxSpurious = 1
SPECIFICATION FairSpec
INVARIANTS TypeOK NoLostWakeup
PROPERTIES FifoSpec NothingStuck
