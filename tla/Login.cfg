SPECIFICATION FairSpec
CONSTANTS
  NLines = 1
  Inbound = {1}
  Trunk = {}
  InLimit = TRUE
  Prefixes = {FALSE}
  Calls = 2
  Keys = 1
  Faults = 1
  Refusals = 1
  QueueCap = 3
PROPERTIES LoginEnds CallDealtWith
