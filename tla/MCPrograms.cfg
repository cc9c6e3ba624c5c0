CONSTANTS
  n1 = n1
  n2 = n2
  n3 = n3
  n4 = n4
  c1 = c1
  t1 = t1
  t2 = t2
  t3 = t3
  k1 = k1
  NULL = NULL
  None = None
  Key = {1, 2, 3}
  Element = {0, 1, 2, 3}
  Length = 4
  Capacity = 6
  Half = 4
  QsortLength = 3
  Price <- MCPrice
  RodLength = 4
  MinusInfinity <- MCMinusInfinity
  Address = {n1, n2, n3, n4}
  Cmd = {c1}
  Sector = {1, 2, 3, 4, 5, 6, 7}
  sec_range_arr <- MCSecRanges
  Thread = {t1, t2, t3, k1}
  Kernel = {k1}
  Instance = {n1, n2}
  MaxClock = 2
  MaxMissed = 1
SPECIFICATION ProgramsSpec
INVARIANTS
  ProgramsTypeOK
  HeapOrder
  SortsIntoOrder
  RodsOptimal
  TableHoldsLive
  ProbeHasCode
  ReportsOnlyWrongData
  TimesOwnCall
PROPERTIES
  ImplementsQueue
  QuickSortEnds
  FindsWhatIsThere
CHECK_DEADLOCK FALSE
