SPECIFICATION Spec
CONSTANTS
  t1 = t1  t2 = t2  c1 = c1  c2 = c2  u1 = u1  u2 = u2
  Tabs = {t1, t2}
  Calls = {c1, c2}
  Users <- TheUsers
  None = None
SYMMETRY Alike
INVARIANTS TypeOK TokensPaired SessionAgrees EveryQuestionAnswered LoadingWaits
PROPERTIES RefreshesOnce
CHECK_DEADLOCK FALSE
