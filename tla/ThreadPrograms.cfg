\* con_pro.cpp: a ring of two and two threads on each side; two threads of each
\* role at the counter of cond.c; the five philosophers, four of them where they
\* also have conditions; four tasks for three workers of threadPool.cpp, so that
\* a worker comes back for a second one; a ring of three for the semaphore
\* programs and three heap cells for the lists, so that the consumer still has
\* one while two are on the list or with the producer.  Their items are numbered
\* modulo four, so that no two in a queue are alike.
CONSTANTS
  p1 = p1  p2 = p2  c1 = c1  c2 = c2
  Producers = {p1, p2}
  Consumers = {c1, c2}
  Capacity = 2
  Gourmets = {g1, g2}
  Chiefs = {h1, h2}
  Diners = 5
  PhilPros = 4
  Workers = {w1, w2, w3}
  Pusher = main
  Tasks = 4
  NUM = 3
  MaxNodes = 3
  Producer = producer
  Consumer = consumer
  Nobody = Nobody
  MaxInt = 2
  MaxData = 4
  MaxDrift = 1
  MaxSpurious = 1
SPECIFICATION FairSpec
INVARIANTS TypeOK EachTaskOnce NeverAllAsleep SleeperHasWaker SlotsInOrder NoLostWakeup StuckOnlyInCircle HeapInOrder
PROPERTIES ReportsItsItem FifoSpec KeepsGoing
