SPECIFICATION MCSpec
CONSTANTS
  Refs = {r1, r2}
  Trees = {t1, t2}
  Points = {p1, p2}
  Origin = Origin
  MaxRuns = 3
  MaxOddSettling = 3
  MaxOdd = 1
CONSTRAINT Bounded
SYMMETRY Alike
CHECK_DEADLOCK FALSE
INVARIANT PointsCurrent
INVARIANT NoneLost
INVARIANT RepeatsSettle
