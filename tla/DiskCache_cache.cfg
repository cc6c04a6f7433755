SPECIFICATION Spec
CONSTANTS
  Blocks = {b1, b2, b3}
  BlockZero = b0
  Entries = {e1, e2}
  Cells = {c1, c2}
  Values = {v1, v2}
  Fresh = Fresh
  NoEntry = NoEntry
  Unknown = Unknown
  MaxDamaged = 1
INVARIANT EntriesAgree
PROPERTY ImplementsBlockStore
VIEW View
SYMMETRY Symmetry
CHECK_DEADLOCK FALSE
