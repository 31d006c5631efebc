SPECIFICATION FairSpec
CONSTANTS
  Callers <- OneCaller
  Main = "main"
  Service = "service"
  Keys = {1, 2}
  Blocks = {b1, b2}
  Delays = {0, 2}
  Wrap = 3
  Nil = Nil
  MaxEvents = 2
  Horizon = 5
  Resets = 0
  Throws = 1
  Stops = 1
PROPERTIES EventsRing StopReturns
