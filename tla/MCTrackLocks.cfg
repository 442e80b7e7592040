SPECIFICATION Spec
CONSTANTS
  t1 = t1
  t2 = t2
  t3 = t3
  Task = {t1, t2}
  Handlers <- AllHandlers
SYMMETRY Symmetric
CHECK_DEADLOCK FALSE
INVARIANT LocksInOrder
