SPECIFICATION Spec
CONSTANTS
  v1 = v1  v2 = v2  c1 = c1  c2 = c2  p1 = p1  p2 = p2
  s1 = s1  s2 = s2  none = none  base = base  seed = seed  client = client
  Vendors = {v1}
  Certs = {c1, c2}
  VendorOf <- BothOfOne
  Scores = {s1, s2}
  Dates <- TodayOrLate
  YearOf <- YearOfDate
  NoScore = none
  Baseline = base
  SeedScore = seed
  SeedYear = 2026
  ClientScores = {client}
  NoEntry = NoEntry
  Requests = {p1, p2}
  Crashes = TRUE
  LastDay = 2
  SeedRuns = 1
  MaxVersion = 2
SYMMETRY CertificateSymmetry
INVARIANTS TypeOK VendorScoreBacked
PROPERTIES RegisterSpec
