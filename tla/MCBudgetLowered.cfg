SPECIFICATION Spec
CONSTANTS
  p1 = p1  p2 = p2  p3 = p3  p4 = p4
  s1 = s1
  Projects = {p1, p2, p3, p4}
  AlwaysOn = {}
  Entry = {}
  Visited = {}
  Removable = {}
  Starters = {s1}
  Caps = {1, 3}
  EntryCaps = {0}
  EvictionAttempts = 3
INVARIANT ReservationHasOutcome
