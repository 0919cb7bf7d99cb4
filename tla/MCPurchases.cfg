SPECIFICATION Spec
CONSTANTS
  local = local  foreign = foreign  v1 = v1  v2 = v2  p1 = p1  w1 = w1  w2 = w2
  Vats = {local, foreign}
  LocalVats = {local}
  Vendors = {v1, v2}
  File <- OneVendorTwice
  Requests = {p1}
  Workers = {w1, w2}
  MaxInvoices = 3
  Absent = Absent
SYMMETRY Symmetry
CHECK_DEADLOCK FALSE
INVARIANTS TypeOK DuplicatesNeedOverlap ParsedIsComplete
