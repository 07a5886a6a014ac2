\* Two requests at once; three folders, or two with projects and a course that
\* may contain itself.
SPECIFICATION Spec
CONSTANTS
  Personal = {f1, f2, f3}
  Courses = {c1}
  OwnProjects = {p1}
  CourseProjects = {q1}
  Editors = {h1, h2}
  Removers = {h1}
  Root = Root
  NoId = NoId
  MaxDepth = 2
SYMMETRY Symmetry
CONSTRAINT FewThings
INVARIANTS TypeOK CycleTakesARace NothingStranded
CHECK_DEADLOCK FALSE
