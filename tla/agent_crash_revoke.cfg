SPECIFICATION Spec
CONSTANTS
  n1 = n1
  n2 = n2
  app = app
  ops = ops
  postgres = postgres
  d1 = d1
  h1 = h1
  h2 = h2
  hs = hs
  Absent = Absent
  Nodes = {n1, n2}
  Roles = {app, ops, postgres, dbaas_replicator}
  Databases = {d1, postgres}
  Hashes = {h1, h2, hs}
  SystemRoles = {postgres, dbaas_replicator}
  SystemDatabases = {postgres}
  Superuser = postgres
  SystemHash = hs
  MaxSync = 1
  Payloads <- PairPayloads
  MaxPublished = 0
  MaxFailovers = 0
  MaxEdits = 0
  MaxFaults = 1
INVARIANT OpenOnlyWhileCreating
CHECK_DEADLOCK FALSE
