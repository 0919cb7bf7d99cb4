SPECIFICATION Spec
CONSTANTS
  t1 = t1  t2 = t2  w1 = w1  w2 = w2  e1 = e1  e2 = e2
  Tenants = {t1, t2}
  Workers = {w1, w2}
  CRs = {1, 2}
  Years = {1}
  Emails = {e1, e2}
  BranchLists <- Lists
  YearLists <- Yearly
  MaxWrites = 2
  MaxGhosts = 1
  Master = Master
  None = None
SYMMETRY Alike
INVARIANTS GhostsRecorded AuditBacked
PROPERTIES RegisterSpec
