SPECIFICATION Spec
CONSTANTS
  Workers = {w1, w2}
  UserIds = {u1, u2}
  DatabaseIds = {e1}
  Strangers = {}
  UserNames = {app, ops}
  InstanceNames = {pg}
  LongNames = {}
  DatabaseNames = {d1}
  DiskSizes = {10, 20}
  NodesNumbers = {1}
  SyncNumbers = {1}
  Absent = Absent
  MaxRevision = 2
PROPERTY DiskNeverShrinks

CHECK_DEADLOCK FALSE
