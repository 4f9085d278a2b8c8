SPECIFICATION LogSpec
CONSTANTS
  Workers = {w1}
  UserIds = {u1, u2}
  DatabaseIds = {e1}
  Strangers = {u2}
  UserNames = {app}
  InstanceNames = {pg}
  LongNames = {}
  DatabaseNames = {d1}
  DiskSizes = {10}
  NodesNumbers = {1}
  SyncNumbers = {1}
  Absent = Absent
  MaxRevision = 3
PROPERTY ImplementsPublication
CHECK_DEADLOCK FALSE
