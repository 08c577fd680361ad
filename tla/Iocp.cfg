CONSTANTS
  v = v  w = w
  Values = {v, w}
  Blocks = 3
  BlocksPerPage = 2
  NoValue = NoValue
  UCHAR_MAX = 2
  AlignSize = 2
  MaxBlockSize = 3
  MaxChunks = 2
  User = User
  PageSize = 6
  PoolAlign = 2
  MaxRequest = 7
  MaxPages = 2
  k1 = k1  k2 = k2  k3 = k3
  MapKeys = {k1, k2, k3}
  MapValues = {v, w}
  Hash <- HashOf
  Buckets = 1
  Factor = 1
  MaxNodes = 4
  NULL = NULL
  t1 = t1  t2 = t2  t3 = t3
  Waiters = {t1, t2, t3}
  Nobody = Nobody
  main = main  co1 = co1  co2 = co2
  Coro = {main, co1, co2}
  Root = main
  Lost = Lost
  Thread = {t1, t2}
  u1 = u1  u2 = u2
  Users = {u1, u2}
  Owner = u1
  Free = Free
  Locales <- LocaleOrder
  Cut <- FiveBytes
  Codes = {1}
  Strings = {1, 2}
  Versions <- VersionStrings
  TableLimit = 3
  MaxCalls = 3
  NoText = NoText
  Crash = Crash
  q1 = q1  q2 = q2
  n1 = n1  n2 = n2  n3 = n3
  Queue = {q1, q2}
  Node = {n1, n2, n3}
  Null = Null
  h1 = h1  h2 = h2  h3 = h3
  Handles = {h1, h2, h3}
  HandleHash <- HashOfFile
  i1 = i1  i2 = i2  i3 = i3
  Irps = {i1, i2, i3}
  NoIrp = NoIrp
  FirstBuckets = 1
  o1 = o1  o2 = o2  f1 = f1
  Ops = {o1, o2}
  Files = {f1}
  FileOf <- OneFile
  d1 = d1  d2 = d2
  Dispatchers = {d1, d2}
  STOP_KEY = STOP_KEY
  MaxStops = 1
  MaxCallbacks = 2
  PatternItems <- ShortItems
  MaxItems = 3
  LongPatterns <- LongItems
  Subjects <- ShortSubjects
  LUA_MAXCAPTURES = 2
  StringChars <- EachKind
  MaxString = 4
  Pieces <- TokenPieces
  Gaps <- TokenGaps
  MaxPieces = 2
  FileStarts <- Starts
  Lists <- ShortLists
  Element = 9
  NoElem = NoElem
  INT_MAX = 3
  StackRoom = 2
  g1 = g1  g2 = g2  stdin = stdin  stdout = stdout
  Handle = {stdin, stdout, g1, g2}
  Stdin = stdin
  Stdout = stdout
  Stream = {f1}
  NullFile = NullFile
  MaxIterators = 1
  Fragments <- Fragments3
  LUAL_BUFFERSIZE = 1
  SIZE_MAX = 7
  MaxBoxes = 3
  Referents = {o1, o2}
  MaxRef = 3
SPECIFICATION IocpAlone
INVARIANTS FailsOnlyClosed
CHECK_DEADLOCK FALSE
