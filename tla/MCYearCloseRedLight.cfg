SPECIFICATION Spec
CONSTANTS
  y1 = y1  y2 = y2  h1 = h1  h2 = h2  hr1 = hr1  hr2 = hr2
  proc1 = proc1  pay1 = pay1  inv1 = inv1  p1 = p1  p2 = p2  t1 = t1  t2 = t2
  Years = {y1}
  HardCloses = {h1, h2}
  HrUploads = {hr1}
  ProcUploads = {proc1}
  HrRows = {pay1}
  ProcRows = {inv1}
  Requests = {p1, p2}
  DirectCosts <- OneHundred
  Gna <- NoGna
  Amounts <- NearAndFar
  TenantOf <- Owner
  Absent = Absent
SYMMETRY RequestSymmetry
INVARIANTS RedLightBlocksExport
