SPECIFICATION Spec
CONSTANTS
  Process = {p1}
  Strict = {}
  File = {f1}
  Literal = {l1}
  Source = {u1}
  Absent = Absent
  Nobody = Nobody
  None = None
  HumanEdits = {}
  ToolWrites = {"exec"}
  QuietRestore = TRUE
  RollbackFails = FALSE
SYMMETRY Symmetry
INVARIANTS NoRawInAgentView
