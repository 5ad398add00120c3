SPECIFICATION Spec
CONSTANTS
  Root = Root
  Nested = {n1, n2, n3}
  Writes = {w1}
  Callbacks = {k1}
  None = None
  Faults = {"open", "close", "undo"}
SYMMETRY Interchangeable
INVARIANTS TypeOK AllOrNothing NotifiedIffDurable NothingRunsAfterTheEnd
PROPERTIES InOwnSavepoint
