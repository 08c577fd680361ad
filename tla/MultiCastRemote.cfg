CONSTANTS
  j1 = j1  j2 = j2
  m1 = m1  m2 = m2  m3 = m3
  Job = {j1, j2}
  Message = {m1, m2, m3}
  Null = Null
  Proxy = j1
  Closable = {j1, j2}
  GoOn = TRUE
SPECIFICATION CastSpec
INVARIANTS MultiIsWrapped
CHECK_DEADLOCK FALSE
