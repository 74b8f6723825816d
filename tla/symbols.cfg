SPECIFICATION Spec
CONSTANTS
  Process = {p1, p2}
  Name = {n1, n2}
  Value = {v1, v2}
  MaxAttempts = 2
  NoRow = NoRow
SYMMETRY Symmetry
INVARIANTS TypeOK OwnersKeepRows NamesMeanOneValue MapsAgreeWithOwners PromotionSticks OnePromoter
