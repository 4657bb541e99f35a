SPECIFICATION Spec
CONSTANTS
  Confs = {c1, c2}
  Key <- MCKey
  Codes = {"APPLICATION", "BUDGET", "BANKING", "PROCEEDINGS"}
  Files <- MCFiles
  Selections <- MCSelections
  ManualTitles = {"Entered"}
  ManualStatuses = {"In Progress"}
  Absent = Absent
  Deleted = Deleted
  None = None
  Slots = {t1}
  MaxBatches = 1
SYMMETRY MCSymmetry
INVARIANT RolledBackIsGone
CHECK_DEADLOCK FALSE
