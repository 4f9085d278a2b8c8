SPECIFICATION FairSpec
CONSTANTS
  Workers = {w1, w2}
  UserIds = {u1}
  DatabaseIds = {e1}
  Strangers = {}
  UserNames = {app}
  InstanceNames = {pg}
  LongNames = {}
  DatabaseNames = {d1}
  DiskSizes = {10}
  NodesNumbers = {1, 2}
  SyncNumbers = {1}
  Absent = Absent
  MaxRevision = 2
INVARIANTS TypeOK NothingUnpublished OwnersPublished
PROPERTY EventuallyPublished
CHECK_DEADLOCK FALSE
