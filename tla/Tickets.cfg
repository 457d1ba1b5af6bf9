\* The stock runs out while several touts stand between the test and the sale.
CONSTANTS
  Touts = {t1, t2, t3}
  Total = 3
  Nobody = Nobody
SPECIFICATION Spec
INVARIANTS TypeOK OversellBounded EveryNumberOnce SoldOut
