SPECIFICATION Spec
CONSTANTS
  Addrs = {a1, a2, a3}
  Null = Null
  MaxFd = 10
  Attrs <- MCAttrs
  LinkMbps = 100
  Prios = {1, 2}
  Starts <- MCStarts
  MaxMade = 4
SYMMETRY AddrSymmetry
INVARIANT NumIsRegistered
CHECK_DEADLOCK FALSE
