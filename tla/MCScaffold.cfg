CONSTANTS
  c1 = c1
  c2 = c2
  v1 = v1
  m1 = m1
  m2 = m2
  Absent = Absent
  Calls = {c1, c2}
  Validations = {v1}
  Manifests = {m1, m2}
  MaxForeign = 1
SYMMETRY Symmetry
SPECIFICATION Spec
INVARIANTS
  ResultsTrue
  DescriptorsClosedOnce
  NoHalfScaffoldSeen
PROPERTIES
  PublicationSpec
CHECK_DEADLOCK FALSE
