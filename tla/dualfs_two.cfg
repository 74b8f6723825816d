SPECIFICATION Spec
CONSTANTS
  Process = {p1, p2}
  Strict = {p1, p2}
  File = {f1}
  Literal = {l1}
  Source = {u1}
  Absent = Absent
  Nobody = Nobody
  None = None
  HumanEdits = {"type", "delete", "amend", "undo"}
  ToolWrites = {"symbol", "delete", "exec"}
  QuietRestore = TRUE
  RollbackFails = TRUE
SYMMETRY SymmetryOfAll
INVARIANTS DraftsSurvive AllOrNothing
