SPECIFICATION Spec
CONSTANTS
  Confs = {c1, c2}
  Key <- MCKey
  Codes = {"APPLICATION"}
  Files <- MCShortFile
  Selections <- MCAllOrNothing
  ManualTitles = {"Imported"}
  ManualStatuses = {"In Progress"}
  Absent = Absent
  Deleted = Deleted
  None = None
  Slots = {t1, t2}
  MaxBatches = 2
SYMMETRY MCSymmetry
INVARIANT ImportOnce
PROPERTY DeletedForGood
CHECK_DEADLOCK FALSE
