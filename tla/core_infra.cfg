SPECIFICATION SmallSpec
CONSTANTS
  Nodes = {n1, n2, n3, n4, n5, n6, n7, n8}
  MaxNodes = 3
  Sizes = {10, 20}
  Absent = Absent
  MaxUpdates = 2
INVARIANTS TypeOK QuorumsOverlap RestsRight
PROPERTIES MembersSettle KeysSettle RowSettles
CHECK_DEADLOCK FALSE
ACTION_CONSTRAINT OneChange
