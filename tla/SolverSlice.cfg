CONSTANTS
  farField = farField
  region = region
  w1 = w1
  w2 = w2
  Fields = {region}
  Directivity = farField
  Workflows = {w1, w2}
  Points = 2
  MaxEdits = 1
  MaxDefs = 1
  MaxRuns = 2
SPECIFICATION Spec
INVARIANTS TypeOK FreshMeansCurrent FieldsOfTheSolution 
SYMMETRY Interchangeable
CHECK_DEADLOCK FALSE
