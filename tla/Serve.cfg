SPECIFICATION FairSpec
CONSTANTS
  NLines = 2
  Inbound = {1}
  Trunk = {2}
  InLimit = FALSE
  Prefixes = {TRUE, FALSE}
  Calls = 1
  Keys = 2
  Faults = 0
  Refusals = 0
  QueueCap = 3
PROPERTIES DialEnds OutLegReleased AbandonedLegEnds
