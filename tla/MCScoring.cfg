SPECIFICATION Spec
CONSTANTS
  Closes = {s1}
  Assets = {a1, a2}
  Amounts <- TwoAmounts
  p1 = p1  p2 = p2
  Requests = {p1, p2}
  Absent = Absent
  Gone = Gone
  Null = Null
  Blank = Blank
  Spends <- SomeSpends
  Compared <- SmallFigures
  MaxInvoices = 4
  MaxText = 7
  u1 = u1  m1 = m1  x1 = x1  x2 = x2
  People = {u1, m1}
  Companies = {x1, x2}
  TenantOf <- Tenancy
  Documents = {d1}
  Talks = {k1}
  Asks = {q1}
  TopK = 1
  MaxAnswers = 2
  Nobody = Nobody
  v1 = v1  v2 = v2  b1 = b1  b2 = b2  i1 = i1  i2 = i2  g1 = g1  g2 = g2
  Suppliers = {v1, v2}
  ForeignSuppliers = {v1}
  Codes = {c1}
  Percents = {1, 2}
  Accounts = {b1, b2}
  Items = {i1, i2}
  Sums <- TwoSums
  Analysts = {g1}
  MaxRuns = 1
  MaxChanges = 2
  Unset = Unset
SYMMETRY Alike
CHECK_DEADLOCK FALSE
INVARIANTS VarianceEarned KingdomOnly SelectionSound StrictBlock ChunksCover WallHolds ChecksSound AnswersEarned
