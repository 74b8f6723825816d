SPECIFICATION Spec
CONSTANTS
  dir = dir
  sub = sub
  f1 = f1
  f2 = f2
  Process = {p1, p2}
  Agent = p1
  Entry = {dir, sub}
  File = {f1, f2}
  Under <- Nested
  Partial = {f1}
  Text = {t1, t2}
  Absent = Absent
  None = None
  MaxChanges = 3
  MaxCalls = 2
  MaxEdits = 1
  MaxRestarts = 1
  Serial = TRUE
CHECK_DEADLOCK FALSE
SYMMETRY Symmetry
INVARIANTS TypeOK BlockedBehindSymbols UnblockedReadable PersistedKept BlocksStand
