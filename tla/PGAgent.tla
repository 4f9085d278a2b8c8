------------------------------ MODULE PGAgent ------------------------------
(***************************************************************************)
(* The universal agent of every node with the PG capability driver         *)
(* (agent/universal/drivers/pg.py).  Each agent loops: fetch the target,   *)
(* create / compare and update / delete, one SQL statement or one call of  *)
(* Patroni's API at a time; between any two of them other agents, Patroni  *)
(* and the control plane take steps.                                       *)
(***************************************************************************)
EXTENDS PGCluster

CONSTANT MaxFaults  \* bound: exceptions and crashes of agents
ASSUME FaultsAssumption == MaxFaults \in Nat

VARIABLES
  pc,      \* where the agent is in its iteration
  ver,     \* the publication its target comes from
  seen,    \* rows of the last SELECTs, amended as statements are executed
  meta,    \* nodes_number kept in pg_meta.json, 0 when there is no file entry
  cache,   \* the memoised answer of is_primary for the current 20 s bucket
  faults

agentVars == <<pc, ver, seen, meta, cache, faults>>
vars == <<clusterVars, agentVars>>

Reading == {"list_users", "list_databases", "list_dcs"}
Writing == {"dcs", "select_users", "users", "databases", "revoke"}
Locations == {"idle", "delete", "update", "dump", "save"} \cup Reading \cup Writing

Rows ==
  [roles : [Roles -> Hashes \cup {Absent}],
   owners : [Databases -> Roles \cup {Absent}],
   creating : Databases \cup {Absent}]  \* the database created but not closed yet

NothingSeen ==
  [roles |-> [r \in Roles |-> Absent],
   owners |-> [d \in Databases |-> Absent],
   creating |-> Absent]

Target(n) == pub[ver[n]]

AgentTypeOK ==
  /\ pc \in [Nodes -> Locations]
  /\ ver \in [Nodes -> 1..Latest]
  /\ seen \in [Nodes -> Rows]
  /\ meta \in [Nodes -> Nat]
  /\ cache \in [Nodes -> {"unknown", "primary", "replica"}]
  /\ faults \in 0..MaxFaults

(* TypeOK: every variable of the cluster and of the agents keeps its type. *)
TypeOK == ClusterTypeOK /\ AgentTypeOK

Init ==
  /\ ClusterInit
  /\ pc = [n \in Nodes |-> "idle"]
  /\ ver = [n \in Nodes |-> 1]
  /\ seen = [n \in Nodes |-> NothingSeen]
  /\ meta = [n \in Nodes |-> 0]
  /\ cache = [n \in Nodes |-> "unknown"]
  /\ faults = 0

Goto(n, label) == pc' = [pc EXCEPT ![n] = label]

(* The iteration ends: the target and the rows read are dropped. *)
GoIdle(n) ==
  /\ Goto(n, "idle")
  /\ seen' = [seen EXCEPT ![n] = NothingSeen]

-----------------------------------------------------------------------------
(* Mutant: the SELECT of the users does not filter the reserved ones. *)
AllRoles(n) == pg[n].roles

(* The rows a SELECT of the driver returns on this node. *)
ManagedRoles(n) ==
  [r \in Roles |-> IF r \in SystemRoles THEN Absent ELSE pg[n].roles[r]]
ManagedDatabases(n) ==
  [d \in Databases |-> IF d \in SystemDatabases THEN Absent ELSE pg[n].owners[d]]

(* on_primary_only: is_primary is an HTTP call, memoised per time bucket. *)
Primary(n) == cache[n] = "primary" \/ (cache[n] = "unknown" /\ n = leader)
AskPrimary(n) ==
  cache' = [cache EXCEPT ![n] = IF Primary(n) THEN "primary" ELSE "replica"]

(* Work left by the loops of _reconcile_target_users and _databases. *)
UsersToApply(n) ==
  {r \in Roles : Target(n).users[r] \notin {Absent, seen[n].roles[r]}}
UsersToDrop(n) ==
  {r \in Roles : Target(n).users[r] = Absent /\ seen[n].roles[r] # Absent}
DatabasesToApply(n) ==
  {d \in Databases : Target(n).databases[d] \notin {Absent, seen[n].owners[d]}}
DatabasesToDrop(n) ==
  {d \in Databases : Target(n).databases[d] = Absent /\ seen[n].owners[d] # Absent}

MarkRole(n, r) ==
  seen' = [seen EXCEPT ![n] = WithRole(@, r, Target(n).users[r])]
MarkDatabase(n, d) ==
  seen' = [seen EXCEPT ![n] = WithOwner(@, d, Target(n).databases[d])]

-----------------------------------------------------------------------------
(* The agent's loop around the driver. *)

(* Mutant: the agent may work from any payload it has been given. *)
FetchAny(n) ==
  /\ pc[n] = "idle"
  /\ n \in Current.nodes \/ meta[n] > 0
  /\ \E v \in 1..Latest : ver' = [ver EXCEPT ![n] = v]
  /\ Goto(n, CASE n \notin Current.nodes -> "delete"
               [] meta[n] = 0            -> "dump"
               [] OTHER                  -> "list_users")
  /\ UNCHANGED <<clusterVars, seen, meta, cache, faults>>

(* A target the meta file does not know is created; a known one is listed and
   compared; a known one that is not targeted at this agent is deleted. *)
Fetch(n) ==
  /\ pc[n] = "idle"
  /\ n \in Current.nodes \/ meta[n] > 0
  /\ ver' = [ver EXCEPT ![n] = Latest]
  /\ Goto(n, CASE n \notin Current.nodes -> "delete"
               [] meta[n] = 0            -> "dump"
               [] OTHER                  -> "list_users")
  /\ UNCHANGED <<clusterVars, seen, meta, cache, faults>>

FillActualUsers(n) ==
  /\ pc[n] = "list_users"
  /\ seen' = [seen EXCEPT ![n].roles = ManagedRoles(n)]
  /\ Goto(n, "list_databases")
  /\ UNCHANGED <<clusterVars, ver, meta, cache, faults>>

FillActualDatabases(n) ==
  /\ pc[n] = "list_databases"
  /\ seen' = [seen EXCEPT ![n].owners = ManagedDatabases(n)]
  /\ Goto(n, "list_dcs")
  /\ UNCHANGED <<clusterVars, ver, meta, cache, faults>>

(* Mutant: the DCS is not compared. *)
NoDifferenceInRows(n) ==
  /\ seen[n].roles = Target(n).users
  /\ seen[n].owners = Target(n).databases
  /\ meta[n] = NodesNumber(Target(n))

(* Mutant: the node counts itself among the standbys. *)
NoDifferenceWithSelf(n) ==
  /\ NoDifferenceInRows(n)
  /\ dcs.count + 1 = Target(n).sync

(* The restored resource (nodes_number comes from the meta file, the rest from
   Postgres and the DCS) is equal to the target. *)
NoDifference(n) ==
  /\ seen[n].roles = Target(n).users
  /\ seen[n].owners = Target(n).databases
  /\ dcs.count = Target(n).sync
  /\ meta[n] = NodesNumber(Target(n))

FillDCS(n) ==
  /\ pc[n] = "list_dcs"
  /\ IF NoDifference(n)
     THEN GoIdle(n)
     ELSE Goto(n, "update") /\ UNCHANGED seen
  /\ UNCHANGED <<clusterVars, ver, meta, cache, faults>>

(* update_on_dp and dump_to_dp each ask whether this node is the primary; a
   node that is not skips the work and returns as if it had been done. *)
UpdateOnDP(n) ==
  /\ pc[n] = "update"
  /\ AskPrimary(n)
  /\ Goto(n, IF Primary(n) THEN "dump" ELSE "save")
  /\ UNCHANGED <<clusterVars, ver, seen, meta, faults>>

DumpToDP(n) ==
  /\ pc[n] = "dump"
  /\ AskPrimary(n)
  /\ Goto(n, IF Primary(n) THEN "dcs" ELSE "save")
  /\ UNCHANGED <<clusterVars, ver, seen, meta, faults>>

-----------------------------------------------------------------------------
(* dump_to_dp *)

(* Mutant: the mode follows sync_replica_number only. *)
ReconcileDCSWithoutNodes(n) ==
  /\ pc[n] = "dcs"
  /\ dcs' = [mode |-> Target(n).sync > 0, count |-> Target(n).sync]
  /\ Goto(n, "select_users")
  /\ UNCHANGED <<pub, leader, pg, failovers, edits, ver, seen, meta, cache, faults>>

(* Mutant: every node is counted as a synchronous standby. *)
ReconcileDCSCountingNodes(n) ==
  /\ pc[n] = "dcs"
  /\ dcs' = [mode |-> SyncEnabled(Target(n)), count |-> NodesNumber(Target(n))]
  /\ Goto(n, "select_users")
  /\ UNCHANGED <<pub, leader, pg, failovers, edits, ver, seen, meta, cache, faults>>

(* Patroni accepts the patch on any member. *)
ReconcileDCS(n) ==
  /\ pc[n] = "dcs"
  /\ dcs' = [mode |-> SyncEnabled(Target(n)), count |-> Target(n).sync]
  /\ Goto(n, "select_users")
  /\ UNCHANGED <<pub, leader, pg, failovers, edits, ver, seen, meta, cache, faults>>

(* Mutant: a target that is created is taken to start from nothing. *)
SelectUsersOnUpdate(n) ==
  /\ pc[n] = "select_users"
  /\ seen' = IF meta[n] = 0 THEN seen ELSE [seen EXCEPT ![n].roles = ManagedRoles(n)]
  /\ Goto(n, "users")
  /\ UNCHANGED <<clusterVars, ver, meta, cache, faults>>

SelectUsers(n) ==
  /\ pc[n] = "select_users"
  /\ seen' = [seen EXCEPT ![n].roles = ManagedRoles(n)]
  /\ Goto(n, "users")
  /\ UNCHANGED <<clusterVars, ver, meta, cache, faults>>

(* CREATE USER when the SELECT did not return it, else ALTER USER. *)
RoleStatementOK(n, r) ==
  (pg[n].roles[r] = Absent) <=> (seen[n].roles[r] = Absent)

ApplyUser(n, r) ==
  /\ pc[n] = "users"
  /\ r \in UsersToApply(n)
  /\ RoleStatementOK(n, r)
  /\ Write(n, WithRole(pg[n], r, Target(n).users[r]))
  /\ MarkRole(n, r)
  /\ UNCHANGED <<pub, leader, dcs, failovers, edits, pc, ver, meta, cache, faults>>

(* Mutant: the owner of a database is dropped too. *)
DropOwner(n, r) ==
  /\ pc[n] = "users"
  /\ UsersToApply(n) = {}
  /\ r \in UsersToDrop(n)
  /\ Write(n, WithRole(pg[n], r, Absent))
  /\ MarkRole(n, r)
  /\ UNCHANGED <<pub, leader, dcs, failovers, edits, pc, ver, meta, cache, faults>>

(* DROP USER IF EXISTS, after the first loop.  A role on which objects depend
   stays, with a warning: one that owns a database does, and any other may own
   tables or hold privileges inside of one, even after it was handed over. *)
DropUser(n, r) ==
  /\ pc[n] = "users"
  /\ UsersToApply(n) = {}
  /\ r \in UsersToDrop(n)
  /\ \/ n = leader /\ UNCHANGED pg
     \/ /\ \A d \in Databases : pg[n].owners[d] # r
        /\ Write(n, WithRole(pg[n], r, Absent))
  /\ MarkRole(n, r)
  /\ UNCHANGED <<pub, leader, dcs, failovers, edits, pc, ver, meta, cache, faults>>

SelectDatabases(n) ==
  /\ pc[n] = "users"
  /\ UsersToApply(n) \cup UsersToDrop(n) = {}
  /\ seen' = [seen EXCEPT ![n].owners = ManagedDatabases(n)]
  /\ Goto(n, "databases")
  /\ UNCHANGED <<clusterVars, ver, meta, cache, faults>>

(* CREATE DATABASE when the SELECT did not return it, else ALTER DATABASE
   OWNER; the owner must be a role of the cluster. *)
DatabaseStatementOK(n, d) ==
  /\ (pg[n].owners[d] = Absent) <=> (seen[n].owners[d] = Absent)
  /\ pg[n].roles[Target(n).databases[d]] # Absent

AlterDatabaseOwner(n, d) ==
  /\ pc[n] = "databases"
  /\ d \in DatabasesToApply(n)
  /\ seen[n].owners[d] # Absent
  /\ DatabaseStatementOK(n, d)
  /\ Write(n, WithOwner(pg[n], d, Target(n).databases[d]))
  /\ MarkDatabase(n, d)
  /\ UNCHANGED <<pub, leader, dcs, failovers, edits, pc, ver, meta, cache, faults>>

(* Mutant: REVOKE is left out. *)
CreateDatabaseOpen(n, d) ==
  /\ pc[n] = "databases"
  /\ d \in DatabasesToApply(n)
  /\ seen[n].owners[d] = Absent
  /\ DatabaseStatementOK(n, d)
  /\ Write(n, WithPublic(WithOwner(pg[n], d, Target(n).databases[d]),
                         pg[n].public \cup {d}))
  /\ MarkDatabase(n, d)
  /\ UNCHANGED <<pub, leader, dcs, failovers, edits, pc, ver, meta, cache, faults>>

(* Mutant: OWNER is left out, the superuser who creates it owns the database. *)
CreateDatabaseUnowned(n, d) ==
  /\ pc[n] = "databases"
  /\ d \in DatabasesToApply(n)
  /\ seen[n].owners[d] = Absent
  /\ DatabaseStatementOK(n, d)
  /\ Write(n, WithPublic(WithOwner(pg[n], d, Superuser), pg[n].public \cup {d}))
  /\ seen' = [seen EXCEPT ![n].creating = d]
  /\ Goto(n, "revoke")
  /\ UNCHANGED <<pub, leader, dcs, failovers, edits, ver, meta, cache, faults>>

CreateDatabase(n, d) ==
  /\ pc[n] = "databases"
  /\ d \in DatabasesToApply(n)
  /\ seen[n].owners[d] = Absent
  /\ DatabaseStatementOK(n, d)
  /\ Write(n, WithPublic(WithOwner(pg[n], d, Target(n).databases[d]),
                         pg[n].public \cup {d}))
  /\ seen' = [seen EXCEPT ![n].creating = d]
  /\ Goto(n, "revoke")
  /\ UNCHANGED <<pub, leader, dcs, failovers, edits, ver, meta, cache, faults>>

(* REVOKE CONNECT ... FROM PUBLIC, a statement of its own. *)
RevokeConnect(n) ==
  /\ pc[n] = "revoke"
  /\ LET d == seen[n].creating IN
       /\ pg[n].owners[d] # Absent
       /\ Write(n, WithPublic(pg[n], pg[n].public \ {d}))
       /\ seen' = [seen EXCEPT
                     ![n] = [WithOwner(@, d, Target(n).databases[d]) EXCEPT !.creating = Absent]]
  /\ Goto(n, "databases")
  /\ UNCHANGED <<pub, leader, dcs, failovers, edits, ver, meta, cache, faults>>

(* DROP DATABASE IF EXISTS ... WITH (FORCE), after the first loop. *)
DropDatabase(n, d) ==
  /\ pc[n] = "databases"
  /\ DatabasesToApply(n) = {}
  /\ d \in DatabasesToDrop(n)
  /\ Write(n, WithPublic(WithOwner(pg[n], d, Absent), pg[n].public \ {d}))
  /\ MarkDatabase(n, d)
  /\ UNCHANGED <<pub, leader, dcs, failovers, edits, pc, ver, meta, cache, faults>>

-----------------------------------------------------------------------------
(* Mutant: the databases that are not wanted any more are left for later. *)
SaveBeforeDrops(n) ==
  /\ \/ pc[n] = "save"
     \/ pc[n] = "databases" /\ DatabasesToApply(n) = {}
  /\ meta' = [meta EXCEPT ![n] = NodesNumber(Target(n))]
  /\ GoIdle(n)
  /\ UNCHANGED <<clusterVars, ver, cache, faults>>

(* The driver returned: the agent stores the meta fields. *)
Save(n) ==
  /\ \/ pc[n] = "save"
     \/ /\ pc[n] = "databases"
        /\ DatabasesToApply(n) \cup DatabasesToDrop(n) = {}
  /\ meta' = [meta EXCEPT ![n] = NodesNumber(Target(n))]
  /\ GoIdle(n)
  /\ UNCHANGED <<clusterVars, ver, cache, faults>>

(* delete_from_dp does nothing on the primary and is skipped elsewhere. *)
DeleteFromDP(n) ==
  /\ pc[n] = "delete"
  /\ AskPrimary(n)
  /\ meta' = [meta EXCEPT ![n] = 0]
  /\ GoIdle(n)
  /\ UNCHANGED <<clusterVars, ver, faults>>

(* Postgres refuses the next statement: the node is read-only (or lost its
   connection when it was demoted), or what the statement needs is not as the
   SELECT saw it.  The exception ends the iteration, nothing is saved. *)
Refused(n) ==
  \/ /\ pc[n] = "users"
     /\ \/ n # leader /\ UsersToApply(n) \cup UsersToDrop(n) # {}
        \/ \E r \in UsersToApply(n) : ~RoleStatementOK(n, r)
  \/ /\ pc[n] = "databases"
     /\ \/ n # leader /\ DatabasesToApply(n) \cup DatabasesToDrop(n) # {}
        \/ \E d \in DatabasesToApply(n) : ~DatabaseStatementOK(n, d)
  \/ /\ pc[n] = "revoke"
     /\ n # leader \/ pg[n].owners[seen[n].creating] = Absent

Raise(n) ==
  /\ Refused(n)
  /\ GoIdle(n)
  /\ UNCHANGED <<clusterVars, ver, meta, cache, faults>>

(* Any call of the iteration fails: Patroni answers 5XX, the socket breaks. *)
Fault(n) ==
  /\ faults < MaxFaults
  /\ pc[n] # "idle"
  /\ faults' = faults + 1
  /\ GoIdle(n)
  /\ UNCHANGED <<clusterVars, ver, meta, cache>>

(* The agent process dies and systemd restarts it. *)
Crash(n) ==
  /\ faults < MaxFaults
  /\ faults' = faults + 1
  /\ GoIdle(n)
  /\ cache' = [cache EXCEPT ![n] = "unknown"]
  /\ UNCHANGED <<clusterVars, ver, meta>>

(* The time bucket of get_ttl_hash ends. *)
Tick(n) ==
  /\ cache[n] # "unknown"
  /\ cache' = [cache EXCEPT ![n] = "unknown"]
  /\ UNCHANGED <<clusterVars, pc, ver, seen, meta, faults>>

(* A node that joins is a new machine: its agent starts from nothing. *)
PublishPayload(p) ==
  LET joining == p.nodes \ Current.nodes
      Fresh(f, v) == [n \in Nodes |-> IF n \in joining THEN v ELSE f[n]]
  IN /\ Publish(p)
     /\ pc' = Fresh(pc, "idle")
     /\ seen' = Fresh(seen, NothingSeen)
     /\ meta' = Fresh(meta, 0)
     /\ cache' = Fresh(cache, "unknown")
     /\ UNCHANGED <<ver, faults>>

-----------------------------------------------------------------------------
Dump(n) ==
  \/ ReconcileDCS(n) \/ SelectUsers(n) \/ SelectDatabases(n) \/ RevokeConnect(n)
  \/ \E r \in Roles : ApplyUser(n, r) \/ DropUser(n, r)
  \/ \E d \in Databases :
       AlterDatabaseOwner(n, d) \/ CreateDatabase(n, d) \/ DropDatabase(n, d)

Step(n) ==
  \/ Fetch(n) \/ FillActualUsers(n) \/ FillActualDatabases(n) \/ FillDCS(n)
  \/ UpdateOnDP(n) \/ DumpToDP(n) \/ Dump(n)
  \/ Save(n) \/ DeleteFromDP(n) \/ Raise(n)

Environment ==
  \/ \E p \in Payloads : PublishPayload(p)
  \/ /\ \/ \E n \in Nodes : Replicate(n) \/ Failover(n)
        \/ \E k \in 0..MaxSync : EditDCS(k)
     /\ UNCHANGED agentVars

Next ==
  \/ \E n \in Nodes : Step(n) \/ Fault(n) \/ Crash(n) \/ Tick(n)
  \/ Environment

Spec == Init /\ [][Next]_vars

(* The agents are services that loop for ever and the buckets elapse; Patroni
   keeps streaming, and replaces a leader that is gone.  Nothing obliges the
   control plane, an operator or a fault to act. *)
Fairness ==
  /\ \A n \in Nodes : WF_vars(Step(n)) /\ WF_vars(Tick(n))
  /\ \A n \in Nodes : WF_vars(Replicate(n) /\ UNCHANGED agentVars)
  /\ WF_vars(/\ leader \notin Current.nodes
             /\ \E n \in Nodes : Failover(n)
             /\ UNCHANGED agentVars)

FairSpec == Spec /\ Fairness

-----------------------------------------------------------------------------
(* The rows an agent works from never name a reserved object, and the database
   it is about to close is one its target wants: what SystemObjectsKept rests on. *)
RowsManaged ==
  \A n \in Nodes :
    /\ \A r \in SystemRoles : seen[n].roles[r] = Absent
    /\ \A d \in SystemDatabases : seen[n].owners[d] = Absent
    /\ pc[n] = "revoke" =>
         /\ seen[n].creating \in Databases \ SystemDatabases
         /\ Target(n).databases[seen[n].creating] # Absent

(* No reserved role or database is ever altered or dropped on any node,
   whatever is published and whoever writes (PG_SYSTEM_* filters). *)
SystemObjectsKept ==
  \A n \in Nodes :
    /\ \A r \in SystemRoles : pg[n].roles[r] = SystemHash
    /\ \A d \in SystemDatabases : pg[n].owners[d] = Superuser

(* Whatever an agent was doing when it failed or lost the leader key, no node
   holds a password or an owner that was never published for that name. *)
OnlyPublished ==
  \A n \in Nodes :
    /\ \A r \in Roles \ SystemRoles :
         pg[n].roles[r] # Absent =>
           \E i \in 1..Latest : pub[i].users[r] = pg[n].roles[r]
    /\ \A d \in Databases \ SystemDatabases :
         pg[n].owners[d] # Absent =>
           \E i \in 1..Latest : pub[i].databases[d] = pg[n].owners[d]

(* The cluster keeps its first leader, which every target names. *)
LeaderStays == failovers = 0 /\ leader \in Current.nodes

(* Some payload names d and a later one does not: it was deleted via the API. *)
Deleted(d) ==
  \E i, j \in 1..Latest :
    i < j /\ pub[i].databases[d] # Absent /\ pub[j].databases[d] = Absent

Dropped(d) ==
  leader' = leader /\ pg[leader].owners[d] # Absent /\ pg'[leader].owners[d] = Absent

(* "Clean up deleted DBs": only a database that was deleted through the API is
   ever dropped on the leader, so no user loses data that is still wanted. *)
DropsOnlyDeleted == [][\A d \in Databases : Dropped(d) => Deleted(d)]_vars

(* The same as long as the leader does not change: an agent of a single leader
   never works from a payload older than one it has already applied. *)
LeaderDropsOnlyDeleted ==
  [][\A d \in Databases : LeaderStays /\ Dropped(d) => Deleted(d)]_vars

(* Postgres can take a payload's statements: every owner is one of the users, and
   no database has a reserved name. *)
Feasible(p) ==
  \A d \in Databases :
    p.databases[d] # Absent => d \notin SystemDatabases /\ p.users[p.databases[d]] # Absent

(* No transaction spans the SELECTs and the statements chosen by them, and a retry
   finds what a failed iteration has left.  Still, as long as the leader stays, none
   of its agent's statements is refused, unless it is the payload's own fault. *)
RefusedByPayload ==
  LeaderStays /\ Refused(leader) => ~Feasible(Target(leader))

(* The wanted users have their passwords, the databases and their owners are those
   of the target, and so is the DCS, unless somebody else has edited it. *)
Done(n) ==
  /\ \A r \in Roles : Target(n).users[r] # Absent => pg[n].roles[r] = Target(n).users[r]
  /\ ManagedDatabases(n) = Target(n).databases
  /\ edits = 0 => dcs = [mode |-> SyncEnabled(Target(n)), count |-> Target(n).sync]

(* As long as the leader stays, an iteration of its agent that reports success has
   done all of its work, whatever failed, crashed or was published before and
   meanwhile; what it skips, or believes to be there already, is there. *)
SavesWhatIsDone == [][LeaderStays /\ Save(leader) => Done(leader)]_vars

(* A managed database that PUBLIC may connect to is one whose creator is about
   to revoke that: CREATE DATABASE never outlives its REVOKE. *)
OpenOnlyWhileCreating ==
  \A d \in pg[leader].public \ SystemDatabases :
    \E n \in Nodes : pc[n] = "revoke" /\ seen[n].creating = d

(* The same for a leader that stays and agents that do not fail. *)
ConnectRevoked == LeaderStays /\ faults = 0 => OpenOnlyWhileCreating

(* What the agents compare: between two iterations, every scheduled node would
   report the current target. *)
NoAgentSeesDifference ==
  \A n \in Current.nodes :
    /\ pc[n] = "idle"
    /\ ManagedRoles(n) = Current.users
    /\ ManagedDatabases(n) = Current.databases
    /\ dcs.count = Current.sync
    /\ meta[n] = NodesNumber(Current)

(* The synchronous mode of a payload whose iterations patch the DCS, but never
   come to the point of saving the nodes_number they did it for. *)
ModeLeft == \E i \in 1..Latest : ~Feasible(pub[i]) /\ dcs.mode = SyncEnabled(pub[i])

(* For a leader that stays, agents that do not fail and a DCS nobody else edits:
   when no agent sees a difference any more, synchronous_mode is what the target
   asks for, so that what the other agents skipped is not lost; only a payload
   that could not be carried out may have left its own. *)
SyncModeApplied ==
  LeaderStays /\ faults = 0 /\ edits = 0 /\ NoAgentSeesDifference
    => dcs.mode = SyncEnabled(Current) \/ ModeLeft

(* In general: the cluster ends up in the synchronous mode of its target. *)
SyncModeConverges == <>[](dcs.mode = SyncEnabled(Current))

(* Once publications, faults and edits stop, every scheduled node comes to
   hold exactly the users and databases of the target, and the DCS its count. *)
Converged ==
  \A n \in Current.nodes :
    /\ ManagedRoles(n) = Current.users
    /\ ManagedDatabases(n) = Current.databases
    /\ dcs.count = Current.sync
Converges == <>[]Converged

(* ... and the agents then stop writing: no two of them undo each other. *)
Quiesces == <>[](\A n \in Nodes : pc[n] \notin Writing)

(* The agents implement the abstract cluster: whatever they remember, cache or
   lose, every statement they execute is justified by a payload they adopted. *)
Managed == INSTANCE ManagedCluster
ImplementsManaged == Managed!Spec
=============================================================================
