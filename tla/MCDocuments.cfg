SPECIFICATION Spec
CONSTANTS
  Docs = {minutes, scan}
  WithText = {minutes}
  Conferences = {itsc}
  NoConference = "none"
  Slots = {s1, s2}
  MaxDrafts = 1
  MaxFaults = 1
SYMMETRY Symmetry
INVARIANTS TypeOK RowHasFile EmbeddedHasVectors OrphansExplained DeletedForGood
