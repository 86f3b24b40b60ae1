SPECIFICATION Spec
CONSTANTS
  a = a  b = b  c = c  f = f
  Ids = {a, b, c}
  FarIds = {f}
  MaxLog = 2  MaxSlots = 3
  Absent = Absent  NoFile = NoFile  NoLabel = NoLabel
  Stacks <- MCStacks
INVARIANTS ViewsExact OpensAgain GhostsOnlyFromCutDeletes AnswersStand
PROPERTY ImplementsEdgeSet
