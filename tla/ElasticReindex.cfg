SPECIFICATION Spec
CONSTANTS
  Thread = {w1, s}
  Web = {w1}
  Script = {s}
  Post = {p1, p2}
  Columns = {"text", "shown", "link"}
  MaxText = 2
  MaxOutages = 1
SYMMETRY PostSymmetry
INVARIANTS
  IInv
  OnlyCommittedText
  NothingLeftOver
PROPERTIES
  ReindexHeals
