CONSTANTS
  Projects = {pa, pb}
  None = none
  MaxRetries = 1
  MaxPages = 3
  MaxChanges = 2
  MaxRequests = 2
SPECIFICATION FairSpec
INVARIANTS TypeOK OwnUnlessForeign NothingForgotten
PROPERTIES KeptChanges SavesEnd
CONSTRAINTS FewSlips FirstOpened
CHECK_DEADLOCK FALSE
