SPECIFICATION Spec
CONSTANTS
  Tag = {1, 2, 3, 4, 5, 6}
  Inputs <- MCInputs
  Given <- MCGiven
  Width <- MCWidth
  Widths = {4, 6}
  Heights = {1, 2, 3}
INVARIANTS
  ShownIsWindow FewLines
CHECK_DEADLOCK FALSE
