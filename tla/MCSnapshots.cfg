SPECIFICATION SnapshotsSpec
CONSTANTS
  d1 = d1
  d2 = d2
  d3 = d3
  TreeDepth = 1
  Excluded <- McExcluded
  Modify <- McModify
  Rewrite <- McRewrite
  Merge <- McMerge
  Setups <- McSetups
  Modifications <- McModifications
  Requests <- McRequests
  p1 = p1
  p2 = p2
  Procs = {p1, p2}
  MaxCommands = 2
  MaxCrashes = 1
  Calendar <- McCalendar
  Policies <- McPolicies
  Deletes <- McDeletes
  Hosts = {"h"}
  MaxSnapshots = 4
SYMMETRY Symmetry
INVARIANTS HistoryKept RetentionExact SnapsComplete NothingForgotten TreesExact
CHECK_DEADLOCK FALSE
