SPECIFICATION Spec
CONSTANTS
  NLines = 2
  Inbound = {1}
  Trunk = {2}
  InLimit = FALSE
  Prefixes = {FALSE}
  Calls = 1
  Keys = 1
  Faults = 1
  Refusals = 1
  QueueCap = 3
INVARIANTS TypeOK CodeLoaded HandlesHeld LoginGuarded
