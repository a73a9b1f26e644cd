SPECIFICATION FairSpec
CONSTANTS
  p1 = p1  p2 = p2
  s1 = s1  s2 = s2
  Projects = {p1, p2}
  AlwaysOn = {p1}
  Entry = {}
  Visited = {}
  Removable = {}
  Starters = {s1, s2}
  Caps = {1}
  EntryCaps = {0}
  EvictionAttempts = 2
PROPERTY CapacityWaitEnds
