SPECIFICATION FilesSpec
CONSTANTS
  t1 = t1
  t2 = t2
  a = a
  b = b
  Nobody = Nobody
  Turns = {t1, t2}
  Calls = {a, b}
  AskLimit = 3
  NamedIds = {1}
  CrashLimit = 1
INVARIANTS TodosAreKept CleanedForGood MemoriesAreKept
SYMMETRY Symmetry
CHECK_DEADLOCK FALSE
