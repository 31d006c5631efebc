SPECIFICATION Spec
CONSTANTS
  Conns = {c1, c2}
  Users <- TwoUsers
  Known <- TwoUsers
  Denied = {"ben"}
  Promised = {"ann"}
  Binds <- Callers
  Advance <- SomeAhead
  Credit <- SomeCredit
  ShortFree = 0
  MaxLength = 5
  MaxReadyOut = 1
  BindOut = 1
  Lag = 1
  AgeCap = 5
  Accepts = 2
  Sends = 3
  Faults = 0
  Crashes = 1
  Stops = 1
INVARIANTS TypeOK Conserved Billable
PROPERTY KeepsAccount
