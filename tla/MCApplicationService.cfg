CONSTANTS
  c1 = c1
  c2 = c2
  k1 = k1
  Calls = {c1, c2}
  Controls = {k1}
  Definition <- TwoDefinitions
  Capabilities <- ThreeRunners
  Mocks = {"mock"}
  Changing = {"plain", "other"}
  Requests <- SomeRequests
  Responses <- SomeResponses
  MockArtifacts = {0, 2, 290}
  Times = {1, 2}
SPECIFICATION Spec
INVARIANTS
  OnlySizeRefuses
  ResultsFitTheCall
  CancellationHonoured
  ChangedNeverCalled
SYMMETRY CallSymmetry
CHECK_DEADLOCK FALSE
