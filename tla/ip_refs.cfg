CONSTANTS
  u1 = u1
  u2 = u2
  u3 = u3
  t1 = t1
  t2 = t2
  Users = {u1, u2, u3}
  Threads <- MCThreads
  io_service <- MCIoService
  Addrs = {a1}
  bandwidth <- MCBandwidth
  Costs = {30}
  Intervals = {10}
  MaxDrift = 1
  None = None
  Limiter = Limiter
SPECIFICATION Spec
INVARIANTS EntriesSafe
