SPECIFICATION Spec
CONSTANTS
  y1 = y1  y2 = y2  r1 = r1  l1 = l1  p1 = p1  p2 = p2  s1 = s1  s2 = s2
  Years = {y1, y2}
  Reports = {r1}
  Links = {l1}
  Scores = {s1}
  Terms <- OneTick
  Requests = {p1, p2}
  Backends = {"local", "bucket"}
  LastTick = 1
  MaxBuilds = 2
  Absent = Absent
  Null = Null
SYMMETRY Symmetry
CHECK_DEADLOCK FALSE
INVARIANTS TypeOK HashesBacked ScoresAssembled TermsKept
PROPERTIES RegisterSpec
VIEW Packs
