CONSTANTS
  a1 = a1  a2 = a2
  App = {a1, a2}
  c1 = c1  c2 = c2
  Controllers = {c1, c2}
  p1 = p1
  Providers = {p1}
  k1 = k1  k2 = k2
  Consumers = {k1, k2}
  Of <- BothOfOne
  Bits = {1}
  MaxLength = 1
  MaxCache = 1
  Dispatcher = Dispatcher
  None = None
  j1 = j1  j2 = j2
  m1 = m1  m2 = m2  m3 = m3
  Job = {j1, j2}
  Message = {m1, m2, m3}
  Null = Null
  Proxy = j1
  Closable = {j1, j2}
  GoOn = FALSE
SPECIFICATION MCSpec
SYMMETRY Symmetry
INVARIANTS TraceIsConsistent QueueAsserts MessagesCounted
CHECK_DEADLOCK FALSE
