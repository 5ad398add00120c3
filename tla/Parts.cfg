SPECIFICATION Spec
CONSTANTS
  Parts = {"postgres", "libsql", "indexeddb", "tables", "queries", "fixtures", "nesting", "statements",
           "objects", "streams", "walks", "documents", "vectors", "namespaces",
           "lineage", "logs", "memory", "texts"}
  LibsqlCase = "in turn"
  Missing = Missing
  NoKey = NoKey
  Absent = Absent
  Bad = Bad
  Broken = Broken
INVARIANTS TypeOK VersionsStandForOneValue RequestsTakeEffectOnce AnswersAreTrue NothingLeaks
  TablesAreFound CachesAreCurrent BackendsAgree HistoriesAreKept
PROPERTIES OthersAreUntouched RequestsEnd
CHECK_DEADLOCK FALSE
