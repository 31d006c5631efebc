SPECIFICATION Spec
CONSTANTS
  Callers <- TwoCallers
  Main = "main"
  Service = "service"
  Keys = {1, 2}
  Blocks = {b1, b2}
  Delays = {0, 2}
  Wrap = 3
  Nil = Nil
  MaxEvents = 3
  Horizon = 4
  Resets = 1
  Throws = 1
  Stops = 1
SYMMETRY AnyBlock
INVARIANTS TypeOK OnePlace
PROPERTY KeepsPromise
CHECK_DEADLOCK FALSE
