SPECIFICATION Spec
CONSTANTS
  d1 = d1
  d2 = d2
  o1 = o1
  Datum = {d1, d2}
  Height <- Heights
  Own = {o1, o2}
  Documents <- InlineUse
  MaxLines = 4
  HumanEdits = {"replace"}
INVARIANTS NoRawLinesInPlace
