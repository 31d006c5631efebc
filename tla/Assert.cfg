SPECIFICATION Spec
CONSTANTS
  NLines = 2
  Inbound = {1, 2}
  Trunk = {2}
  InLimit = FALSE
  Prefixes = {FALSE}
  Calls = 2
  Keys = 0
  Faults = 0
  Refusals = 0
  QueueCap = 3
PROPERTY AssertClone
