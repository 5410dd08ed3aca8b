SPECIFICATION Spec
CONSTANTS
  c1 = c1
  c2 = c2
  Callers <- MCCallers
  Interval = 2
  MaxJitter = 1
  Ms = 2
  MaxTime = 10
  MaxLost = 1
  MaxResets = 1
SYMMETRY MCSymmetry
INVARIANTS BudgetKept DelayBounded
PROPERTIES ReservationsSpaced
CHECK_DEADLOCK FALSE
