CONSTANTS
  Projects = {p1, p2}
  Types = {t1, t2}
  Images = {i1}
  Handlers = {h1, h2}
  Text = text
  None = none
  MaxRequests = 4
SPECIFICATION Spec
SYMMETRY Symmetry
INVARIANTS TypeOK OneSave OpenedWhole NothingLeft ImagesListed
CHECK_DEADLOCK FALSE
