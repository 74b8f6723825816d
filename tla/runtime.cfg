SPECIFICATION Spec
CONSTANTS
  Process = {p1, p2}
  Nobody = Nobody
  StaleAfter = 1
  MaxHold = 1
  QuietBreak = TRUE
  File = {f1}
  Literal = {l1}
  Output = {o1}
  Absent = Absent
  Link = Link
  Dangling = Dangling
  HumanTexts = {l1}
  MaxCalls <- Calls
  First = p1
  Apart = TRUE
  QuietCapture = TRUE
CHECK_DEADLOCK FALSE
INVARIANTS TypeOK MutualExclusion HolderKeepsLock CapturedOrLatched LatchStopsTools
PROPERTIES ImplementsMutex OwnOutputStaysOut OnlyCommittedReplaced EveryCallSettles
