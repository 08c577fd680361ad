CONSTANTS
  j1 = j1  j2 = j2
  m1 = m1  m2 = m2  m3 = m3
  Job = {j1, j2}
  Message = {m1, m2, m3}
  Null = Null
  Proxy = Null
  Closable = {}
  GoOn = TRUE
SPECIFICATION CastSpec
INVARIANTS FifoAsserts
CHECK_DEADLOCK FALSE
