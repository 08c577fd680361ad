CONSTANTS
  o1 = o1  o2 = o2  o3 = o3
  Obj = {o1, o2, o3}
  Main = Main
  ArrayKey = ArrayKey
  Nil = Nil
  Kinds = {"table", "udata", "closure", "string"}
  Modes <- WeakModes
  Calls = {"full", "mode", "finalizer"}
  MaxEntries = 1
  MaxStack = 2
  MaxOps = 4
  IntKeys = {1, 2, 3}
  s1 = s1  s2 = s2
  OtherKeys = {s1, s2}
  KeyHash <- HashOfKeys
  Collectable = {s1}
  v = v  w = w
  TableValues = {v, w}
  Empty = Empty
  MaxInt = 2
  A = A
  Coroutines = {A}
  MainThread = M
  MaxFrames = 7
  MaxSpoiled = 0
  MAXCCALLS = 200
  Programs <- AllPrograms
  MaxCode = 100
  Parsed <- luaY_parser
  Lawful <- Legal
  Meant <- Meaning
  MaxIndexRK = 2
  FieldsPerFlush = 2
SPECIFICATION MCSpec
SYMMETRY ValuesAlike
INVARIANTS NothingReadableFreed TableIsMap UnwindsSafely MeansTheProgram
PROPERTIES KeepsEntries
CHECK_DEADLOCK FALSE
