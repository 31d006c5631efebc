SPECIFICATION FairSpec
CONSTANTS
  Requests = {r1, r2, r3}
  Members = {m1, m2}
  Lines = {l1}
  Denied = {r3}
  Interval = 2
  None = None
  MaxTime = 3
  Lag = 1
  Slow = 1
  Seizes = 1
  Faults = 1
  Missing = 1
INVARIANTS TypeOK ReadHolds OwedOnce CalledOnce
PROPERTIES CallBackMade MeetingCalled
