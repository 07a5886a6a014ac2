\* A subcourse is moved and deleted at once, then its course is deleted.
SPECIFICATION Spec
CONSTANTS
  Personal = {}
  Courses = {c1, c2}
  OwnProjects = {p1}
  CourseProjects = {}
  Editors = {h1}
  Removers = {h2}
  Root = Root
  NoId = NoId
  MaxDepth = 3

PROPERTIES OwnProjectsStay
CHECK_DEADLOCK FALSE
