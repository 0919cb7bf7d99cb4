SPECIFICATION Spec
CONSTANTS
  r1 = r1  r2 = r2  p1 = p1  p2 = p2  w1 = w1
  Rows = {r1, r2}
  Grosses <- One
  File <- OneTrainee
  Headcounts <- One
  Requests = {p1, p2}
  Workers = {w1}
  Modes = {TRUE, FALSE}
  Crashes = TRUE
  Absent = Absent
  Null = Null
SYMMETRY PoolSymmetry
INVARIANTS TypeOK NeverCountedTwice VerdictEarned
