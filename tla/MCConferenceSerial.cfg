SPECIFICATION Spec
CONSTANTS
  Confs = {c1}
  Key <- MCKey
  Codes = {"APPLICATION", "BUDGET", "PROCEEDINGS"}
  Files <- MCFiles
  Selections <- MCSelections
  ManualTitles = {"Entered"}
  ManualStatuses = {"In Progress"}
  Absent = Absent
  Deleted = Deleted
  None = None
  Slots = {t1}
  MaxBatches = 2
SYMMETRY MCSymmetry
INVARIANTS TypeOK NothingToRecalculate
CHECK_DEADLOCK FALSE
