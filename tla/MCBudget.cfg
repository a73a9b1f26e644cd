SPECIFICATION Spec
CONSTANTS
  p1 = p1  p2 = p2
  s1 = s1  s2 = s2
  Projects = {p1, p2}
  AlwaysOn = {}
  Entry = {p1, p2}
  Visited = {p2}
  Removable = {p1}
  Starters = {s1, s2}
  Caps = {0, 1}
  EntryCaps = {1}
  EvictionAttempts = 2
SYMMETRY StarterSymmetry
INVARIANT TypeOK
PROPERTY AdmissionWithinCap
