SPECIFICATION Spec
CONSTANTS
  l1 = l1
  u1 = u1
  f1 = f1
  f2 = f2
  File = {f1, f2}
  Literal = {l1}
  Source = {u1}
  Absent = Absent
  None = None
  UserText <- Saved
  AgentText <- Written
  Start <- Views
  MaxCalls = 3
  MaxEdits = 2
  MaxCommits = 1
  QuietCommit = TRUE
  RollbackFails = TRUE
CHECK_DEADLOCK FALSE
INVARIANTS TypeOK UserCommitsKept EditsReachAgent
PROPERTIES StagedKept UncommittedKept RevertsTogether BothOrNeither
