SPECIFICATION Spec
CONSTANTS
  Process = {p1, p2}
  Strict = {}
  File = {f1}
  Literal = {l1}
  Source = {u1}
  Absent = Absent
  Nobody = Nobody
  None = None
  HumanEdits = {}
  ToolWrites = {"text", "symbol"}
  QuietRestore = TRUE
  RollbackFails = FALSE
SYMMETRY Symmetry
INVARIANTS NoRawInAgentView
