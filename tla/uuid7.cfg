\* Two threads, a counter of two bits, a clock of two values that jumps either way.
SPECIFICATION FairSpec
CONSTANTS
  Thread = {t1, t2}
  Nobody = Nobody
  CounterMax = 3
  SeedMask = 1
  MaxMs = 1
INVARIANTS TypeOK SortsByCallOrder
PROPERTIES NeverBackwards CallsReturn
