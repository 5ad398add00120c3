SPECIFICATION Spec
CONSTANTS
  Parts = {"libsql"}
  LibsqlCase = "overlapping"
  Missing = Missing
  NoKey = NoKey
  Absent = Absent
  Bad = Bad
  Broken = Broken
INVARIANTS VersionsStandForOneValue
CHECK_DEADLOCK FALSE
