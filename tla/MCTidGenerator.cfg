\* Three threads; a clock that can jump back, stand still and wrap around its
\* 2 bits, 2 values per microsecond, a counter of 4 bits, digits of 2 bits.
SPECIFICATION Spec
CONSTANTS
  Threads = {t1, t2, t3}
  Clocks = {0, 2, 3, 4}
  TimeMod = 4
  Ticks = 2
  MaxVal = 9
  Base = 4
  Width = 2
  MaxCalls = 6
SYMMETRY Symmetry
INVARIANTS TypeOK StrictlyIncreasing NearSomeClock SortableStrings
CHECK_DEADLOCK FALSE
