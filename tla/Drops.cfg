SPECIFICATION FairSpec
CONSTANTS
  Conns = {c1, c2}
  Users <- TwoUsers
  Known <- OnlyAnn
  Denied = {}
  Promised = {}
  Binds <- Pagers
  Advance <- BothAhead
  Credit <- NoCredit
  ShortFree = 1
  MaxLength = 3
  MaxReadyOut = 2
  BindOut = 2
  Lag = 1
  AgeCap = 3
  Accepts = 2
  Sends = 2
  Faults = 1
  Crashes = 0
  Stops = 0
PROPERTIES ConnectionEnds
