SPECIFICATION Spec
CONSTANTS
  Codes = {"BUDGET", "BANKING", "PROCEEDINGS"}
  CustomStatus <- MCCustomStatus
  NoDate = NoDate
  Filled = 9
  Confs = {c1}
  Issues = {i1, i2}
  NoIssue = NoIssue
  Idle = Idle
  Slots = {t1}
  Answers <- MCAnswers
  Failed = Failed
  ManualStatuses = {"Approved", "To be submitted"}
  ManualSeverities = {"High"}
  Vocabulary <- MCVocabulary
  Scoring <- MCScoring
  OffsetTables <- MCOffsetTables
  Calendars <- MCCalendars
  Created <- MCCreated
  Days = {30, 65}
  MaxRequests = 4
SYMMETRY MCSymmetry
INVARIANTS TypeOK VocabularyKept ScoreCurrent NoTwins
PROPERTY SettlingHelps

CHECK_DEADLOCK FALSE
