SPECIFICATION Spec
CONSTANTS
  Process = {p1}
  Strict = {}
  File = {f1, f2}
  Literal = {l1}
  Source = {u1}
  Absent = Absent
  Nobody = Nobody
  None = None
  HumanEdits = {"type", "delete"}
  ToolWrites = {"text", "symbol", "delete"}
  QuietRestore = TRUE
  RollbackFails = FALSE
SYMMETRY Symmetry
INVARIANTS TypeOK DraftsSurvive NoRawInAgentView ViewsAgree BlameSeparates
PROPERTIES ImplementsTwoBranches
