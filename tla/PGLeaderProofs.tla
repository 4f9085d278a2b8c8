--------------------------- MODULE PGLeaderProofs ---------------------------
(***************************************************************************)
(* What holds of the agents as long as the cluster keeps its first leader: *)
(* only databases that were deleted are dropped, databases do not stay     *)
(* open to PUBLIC, Postgres takes the statements, what is reported as done *)
(* is done, and the synchronous mode follows the target.                   *)
(***************************************************************************)
EXTENDS PGAgentProofs

-----------------------------------------------------------------------------
(* Steps of the managed cluster, seen from the leader. *)

(* A node only ever adopts newer payloads. *)
LEMMA VersionsGrow ==
  ASSUME TypeOK, [Managed!Next]_<<clusterVars, ver>>, NEW n \in Nodes
  PROVE  ver[n] \in 1..Latest /\ ver'[n] \in Nat /\ ver[n] <= ver'[n]
<1>0. ver \in [Nodes -> 1..Latest] /\ Latest \in Nat
  BY CurrentType DEF TypeOK, AgentTypeOK
<1>1. ASSUME NEW m \in Nodes, Managed!Adopt(m)
      PROVE  ver'[n] \in Nat /\ ver[n] <= ver'[n]
  BY <1>0, <1>1, SameCluster DEF Managed!Adopt
<1>2. ASSUME NEW m \in Nodes, Managed!Configure(m) \/ Managed!Statement(m)
      PROVE  UNCHANGED ver
  BY <1>2 DEF Managed!Configure, Managed!Statement, Managed!SetRole, Managed!DropRole,
     Managed!SetOwner, Managed!CloseDatabase, Managed!DropDatabase, Managed!Execute
<1>3. CASE Managed!Environment
  BY <1>0, <1>3 DEF Managed!Environment
<1> QED BY <1>0, <1>1, <1>2, <1>3 DEF Managed!Next

(* A leader that stays has always been there. *)
LEMMA LeaderKept ==
  ASSUME TypeOK, [Managed!Next]_<<clusterVars, ver>>, LeaderStays'
  PROVE  LeaderStays /\ leader' = leader
<1>0. failovers \in Nat /\ ClusterTypeOK
  BY DEF TypeOK, ClusterTypeOK
<1>1. ASSUME NEW p \in Payloads, Publish(p) PROVE LeaderStays /\ leader' = leader
  <2>1. Current' = p
    BY <1>0, <1>1, CurrentType DEF Publish, Current, Latest, ClusterTypeOK
  <2> QED BY <1>1, <2>1 DEF Publish, LeaderStays
<1>2. ASSUME NEW n \in Nodes PROVE ~Failover(n)
  BY <1>0 DEF Failover, LeaderStays
<1>3. CASE UNCHANGED <<pub, leader, failovers>>
  BY <1>3 DEF LeaderStays, Current, Latest
<1>4. CASE Managed!Environment
  BY <1>1, <1>2, <1>3, <1>4, SameEnvironment DEF Managed!Environment, Replicate, EditDCS
<1>5. ASSUME NEW m \in Nodes, Managed!Adopt(m) \/ Managed!Configure(m)
      PROVE  UNCHANGED <<pub, leader, failovers>>
  BY <1>5 DEF Managed!Adopt, Managed!Configure, Managed!clusterVars
<1>6. ASSUME NEW m \in Nodes, Managed!Statement(m)
      PROVE  UNCHANGED <<pub, leader, failovers>>
  BY <1>6 DEF Managed!Statement, Managed!SetRole, Managed!DropRole, Managed!SetOwner,
     Managed!CloseDatabase, Managed!DropDatabase, Managed!Execute
<1> QED BY <1>3, <1>4, <1>5, <1>6 DEF Managed!Next, clusterVars

OwnerAsTargeted(d) ==
  d \notin SystemDatabases /\ pg'[leader].owners[d] = Target(leader).databases[d]

(* What a statement may do to the databases of the leader. *)
LEMMA StatementOwners ==
  ASSUME TypeOK, NEW n \in Nodes, Managed!Statement(n), NEW d \in Databases
  PROVE  pg'[leader].owners[d] = pg[leader].owners[d] \/ OwnerAsTargeted(d)
<1>0. /\ pg \in [Nodes -> Copy] /\ pg[n] \in Copy
      /\ Managed!Adopted(n) = Target(n)
  BY DEF TypeOK, ClusterTypeOK, Managed!Adopted, Target
<1>1. ASSUME NEW r, NEW h, Managed!Execute(n, WithRole(pg[n], r, h))
      PROVE  pg'[leader].owners[d] = pg[leader].owners[d]
  BY <1>0, <1>1, SameCluster DEF Managed!Execute, Write, WithRole, Copy
<1>2. ASSUME NEW e \in Databases \ SystemDatabases, NEW o, NEW ds,
             \/ Managed!Execute(n, WithOwner(pg[n], e, o))
             \/ Managed!Execute(n, WithPublic(WithOwner(pg[n], e, o), ds)),
             o = Target(n).databases[e]
      PROVE  pg'[leader].owners[d] = pg[leader].owners[d] \/ OwnerAsTargeted(d)
  <2>1. /\ n = leader
        /\ \/ pg'[n] = WithOwner(pg[n], e, o)
           \/ pg'[n] = WithPublic(WithOwner(pg[n], e, o), ds)
    BY <1>0, <1>2, SameCluster DEF Managed!Execute, Write
  <2>2. pg'[n].owners[d] = IF d = e THEN o ELSE pg[n].owners[d]
    BY <1>0, <2>1 DEF WithOwner, WithPublic, Copy
  <2> QED BY <1>2, <2>1, <2>2 DEF OwnerAsTargeted
<1>3. ASSUME NEW ds, Managed!Execute(n, WithPublic(pg[n], ds))
      PROVE  pg'[leader].owners[d] = pg[leader].owners[d]
  BY <1>0, <1>3, SameCluster DEF Managed!Execute, Write, WithPublic, Copy
<1>4. ASSUME NEW r \in Roles \ SystemRoles, Managed!SetRole(n, r) \/ Managed!DropRole(n, r)
      PROVE  pg'[leader].owners[d] = pg[leader].owners[d]
  BY <1>1, <1>4, SameCluster DEF Managed!SetRole, Managed!DropRole
<1>5. ASSUME NEW e \in Databases \ SystemDatabases,
             Managed!SetOwner(n, e) \/ Managed!CloseDatabase(n, e) \/ Managed!DropDatabase(n, e)
      PROVE  pg'[leader].owners[d] = pg[leader].owners[d] \/ OwnerAsTargeted(d)
  BY <1>0, <1>2, <1>3, <1>5, SameCluster
     DEF Managed!SetOwner, Managed!CloseDatabase, Managed!DropDatabase
<1> QED BY <1>4, <1>5 DEF Managed!Statement

(* As long as the leader is the same, its databases change only to what the
   payload it has adopted says. *)
LEMMA LeaderOwners ==
  ASSUME TypeOK, [Managed!Next]_<<clusterVars, ver>>, leader' = leader, NEW d \in Databases
  PROVE  pg'[leader].owners[d] = pg[leader].owners[d] \/ OwnerAsTargeted(d)
<1>0. leader \in Nodes /\ pg \in [Nodes -> Copy]
  BY DEF TypeOK, ClusterTypeOK
<1>1. ASSUME NEW p \in Payloads, Publish(p) PROVE pg'[leader] = pg[leader]
  BY <1>0, <1>1 DEF Publish
<1>2. ASSUME NEW n \in Nodes, Replicate(n) \/ Failover(n) PROVE pg'[leader] = pg[leader]
  BY <1>0, <1>2 DEF Replicate, Failover
<1>3. CASE Managed!Environment
  BY <1>1, <1>2, <1>3, SameEnvironment DEF Managed!Environment, EditDCS
<1>4. ASSUME NEW n \in Nodes, Managed!Adopt(n) \/ Managed!Configure(n) PROVE pg' = pg
  BY <1>4 DEF Managed!Adopt, Managed!Configure, Managed!clusterVars
<1> QED BY <1>3, <1>4, StatementOwners DEF Managed!Next, clusterVars

-----------------------------------------------------------------------------
(* Every database of a leader that stays is one of a payload that its agent has
   adopted. *)
Named(d) == \E i \in 1..ver[leader] : pub[i].databases[d] # Absent
LeaderNamed ==
  LeaderStays =>
    \A d \in Databases \ SystemDatabases : pg[leader].owners[d] # Absent => Named(d)

LEMMA NamedStays ==
  ASSUME IInv, LeaderNamed, [Next]_vars
  PROVE  LeaderNamed'
<1> SUFFICES ASSUME LeaderStays', NEW d \in Databases \ SystemDatabases,
                    pg'[leader'].owners[d] # Absent
             PROVE  Named(d)'
  BY DEF LeaderNamed
<1>1. TypeOK /\ [Managed!Next]_<<clusterVars, ver>>
  BY NextSimulated DEF IInv
<1>2. LeaderStays /\ leader' = leader
  BY <1>1, LeaderKept
<1>3. leader \in Nodes
  BY <1>1 DEF TypeOK, ClusterTypeOK
<1>4. /\ ver[leader] \in 1..Latest /\ ver'[leader] \in Nat /\ ver[leader] <= ver'[leader]
      /\ Latest \in Nat
      /\ \A i \in 1..Latest : pub'[i] = pub[i]
  BY <1>1, <1>3, VersionsGrow, NextJustified, CurrentType DEF TypeOK
<1>5. \E i \in 1..ver[leader] : pub[i].databases[d] # Absent
  <2>1. CASE pg'[leader].owners[d] = pg[leader].owners[d]
    BY <1>2, <2>1 DEF LeaderNamed, Named
  <2>2. CASE OwnerAsTargeted(d)
    BY <1>2, <1>4, <2>2 DEF OwnerAsTargeted, Target
  <2> QED BY <1>1, <1>2, <2>1, <2>2, LeaderOwners
<1> QED BY <1>2, <1>4, <1>5 DEF Named

LEMMA InitNamed == Init => LeaderNamed
<1> SUFFICES ASSUME Init, NEW d \in Databases \ SystemDatabases
             PROVE  pg[leader].owners[d] = Absent
  BY DEF LeaderNamed
<1>1. leader \in Nodes /\ pg = [n \in Nodes |-> BootstrapCopy]
  BY PayloadsAssumption DEF Init, ClusterInit, Payload
<1> QED BY <1>1 DEF BootstrapCopy

(* A leader that stays drops only what an older payload named and its own one
   does not, so only databases that were deleted: with any number of faults,
   crashes, edits of the DCS and lagging standbys. *)
THEOREM LeaderDropsRight == Spec => LeaderDropsOnlyDeleted
<1>1. ASSUME IInv, LeaderNamed, [Next]_vars, LeaderStays,
             NEW d \in Databases, Dropped(d)
      PROVE  Deleted(d)
  <2>1. TypeOK /\ [Managed!Next]_<<clusterVars, ver>>
    BY <1>1, NextSimulated DEF IInv
  <2>2. OwnerAsTargeted(d)
    BY <1>1, <2>1, LeaderOwners DEF Dropped
  <2>3. leader \in Nodes /\ ver[leader] \in 1..Latest /\ Latest \in Nat
    BY <2>1, CurrentType DEF TypeOK, ClusterTypeOK, AgentTypeOK
  <2>4. pub[ver[leader]].databases[d] = Absent
    BY <1>1, <2>2, NamesAssumption DEF OwnerAsTargeted, Dropped, Target
  <2>5. PICK i \in 1..ver[leader] : pub[i].databases[d] # Absent
    BY <1>1, <2>2 DEF LeaderNamed, Named, Dropped, OwnerAsTargeted
  <2> QED BY <2>3, <2>4, <2>5 DEF Deleted
<1>2. IInv /\ LeaderNamed /\ [Next]_vars
        => [\A d \in Databases : LeaderStays /\ Dropped(d) => Deleted(d)]_vars
  BY <1>1
<1> QED BY <1>2, InitNamed, NamedStays, Invariance, PTL DEF Spec, LeaderDropsOnlyDeleted
-----------------------------------------------------------------------------
(* The inductive invariant behind ConnectRevoked: while the leader stays and no
   agent has failed, the only managed database open to PUBLIC is the one the
   leader's own agent has just created, and that one is still there. *)
NothingOpen(c) == c.public \subseteq SystemDatabases
LeaderCloses ==
  LeaderStays /\ faults = 0 =>
    IF pc[leader] = "revoke"
    THEN /\ pg[leader].public \subseteq SystemDatabases \cup {seen[leader].creating}
         /\ pg[leader].owners[seen[leader].creating] # Absent
    ELSE NothingOpen(pg[leader])

(* The agent of another node changes nothing of the leader's. *)
LEMMA OtherAgent ==
  ASSUME TypeOK, NEW n \in Nodes, n # leader, Step(n) \/ Fault(n) \/ Crash(n) \/ Tick(n)
  PROVE  UNCHANGED <<pc[leader], seen[leader], pg[leader]>>
<1>0. /\ pc \in [Nodes -> Locations] /\ seen \in [Nodes -> Rows] /\ pg \in [Nodes -> Copy]
      /\ leader \in Nodes
  BY DEF TypeOK, ClusterTypeOK, AgentTypeOK
<1>1. CASE \/ Fetch(n) \/ FillActualUsers(n) \/ FillActualDatabases(n) \/ FillDCS(n)
           \/ UpdateOnDP(n) \/ DumpToDP(n) \/ ReconcileDCS(n) \/ SelectUsers(n)
           \/ SelectDatabases(n) \/ Save(n) \/ DeleteFromDP(n) \/ Raise(n)
           \/ Fault(n) \/ Crash(n) \/ Tick(n)
  BY <1>0, <1>1 DEF Fetch, FillActualUsers, FillActualDatabases, FillDCS, UpdateOnDP, DumpToDP,
     ReconcileDCS, SelectUsers, SelectDatabases, Save, DeleteFromDP, Raise, Fault, Crash, Tick,
     Goto, GoIdle, clusterVars
<1>2. ~RevokeConnect(n) /\ \A r \in Roles : ~ApplyUser(n, r)
  BY DEF RevokeConnect, ApplyUser, Write
<1>3. \A r \in Roles : ~DropUser(n, r)
  BY DEF DropUser, Write
<1>4. \A d \in Databases :
        ~AlterDatabaseOwner(n, d) /\ ~CreateDatabase(n, d) /\ ~DropDatabase(n, d)
  BY DEF AlterDatabaseOwner, CreateDatabase, DropDatabase, Write
<1> QED BY <1>1, <1>2, <1>3, <1>4 DEF Step, Dump

(* The agent of the leader. *)
LEMMA LeaderAgent ==
  ASSUME IInv, LeaderCloses, LeaderStays, faults = 0, faults' = 0, leader' = leader,
         Step(leader) \/ Fault(leader) \/ Crash(leader) \/ Tick(leader)
  PROVE  LeaderCloses'
<1> DEFINE n == leader
<1>0. /\ pc \in [Nodes -> Locations] /\ seen \in [Nodes -> Rows] /\ pg \in [Nodes -> Copy]
      /\ n \in Nodes /\ pg[n] \in Copy
  BY DEF IInv, TypeOK, ClusterTypeOK, AgentTypeOK
<1>1. ASSUME pc[n] # "revoke", pc'[n] # "revoke", pg'[n].public \subseteq pg[n].public
      PROVE  LeaderCloses'
  BY <1>1 DEF LeaderCloses, NothingOpen
<1>2. CASE \/ Fetch(n) \/ FillActualUsers(n) \/ FillActualDatabases(n) \/ FillDCS(n)
           \/ UpdateOnDP(n) \/ DumpToDP(n) \/ ReconcileDCS(n) \/ SelectUsers(n)
           \/ SelectDatabases(n) \/ Save(n) \/ DeleteFromDP(n)
  <2>1. pg' = pg /\ pc[n] # "revoke"
    BY <1>2 DEF Fetch, FillActualUsers, FillActualDatabases, FillDCS, UpdateOnDP, DumpToDP,
       ReconcileDCS, SelectUsers, SelectDatabases, Save, DeleteFromDP, clusterVars
  <2>2. pc'[n] # "revoke"
    BY <1>0, <1>2 DEF Fetch, FillActualUsers, FillActualDatabases, FillDCS, UpdateOnDP, DumpToDP,
       ReconcileDCS, SelectUsers, SelectDatabases, Save, DeleteFromDP, Goto, GoIdle
  <2> QED BY <1>1, <2>1, <2>2
<1>3. CASE Raise(n)
  <2>1. pc[n] # "revoke"
    BY <1>3 DEF Raise, Refused, LeaderCloses
  <2> QED BY <1>0, <1>1, <1>3, <2>1 DEF Raise, GoIdle, Goto, clusterVars
<1>4. CASE Tick(n)
  BY <1>4 DEF Tick, LeaderCloses, NothingOpen, clusterVars
<1>5. ~Fault(n) /\ ~Crash(n)
  BY DEF Fault, Crash
<1>6. ASSUME NEW r \in Roles, ApplyUser(n, r) \/ DropUser(n, r) PROVE LeaderCloses'
  <2>1. pg'[n].public = pg[n].public
    BY <1>0, <1>6 DEF ApplyUser, DropUser, Write, WithRole, Copy
  <2> QED BY <1>1, <1>6, <2>1 DEF ApplyUser, DropUser
<1>7. ASSUME NEW d \in Databases, AlterDatabaseOwner(n, d) \/ DropDatabase(n, d)
      PROVE  LeaderCloses'
  <2>1. CASE AlterDatabaseOwner(n, d)
    <3>1. pg'[n].public = pg[n].public
      BY <1>0, <2>1 DEF AlterDatabaseOwner, Write, WithOwner, Copy
    <3> QED BY <1>1, <2>1, <3>1 DEF AlterDatabaseOwner
  <2>2. CASE DropDatabase(n, d)
    <3>1. pg'[n].public = pg[n].public \ {d}
      BY <1>0, <2>2 DEF DropDatabase, Write, WithOwner, WithPublic, Copy
    <3> QED BY <1>1, <2>2, <3>1 DEF DropDatabase
  <2> QED BY <1>7, <2>1, <2>2
<1>8. ASSUME NEW d \in Databases, CreateDatabase(n, d) PROVE LeaderCloses'
  <2>1. NothingOpen(pg[n]) /\ Target(n).databases[d] # Absent
    BY <1>8 DEF CreateDatabase, DatabasesToApply, LeaderCloses
  <2>2. /\ pg'[n].public = pg[n].public \cup {d}
        /\ pg'[n].owners[d] = Target(n).databases[d]
    BY <1>0, <1>8 DEF CreateDatabase, Write, WithOwner, WithPublic, Copy
  <2>3. pc'[n] = "revoke" /\ seen'[n].creating = d
    BY <1>0, <1>8 DEF CreateDatabase, Goto, Rows
  <2> QED BY <2>1, <2>2, <2>3 DEF LeaderCloses, NothingOpen
<1>9. CASE RevokeConnect(n)
  <2>1. pc[n] = "revoke" /\ pc'[n] = "databases"
    BY <1>0, <1>9 DEF RevokeConnect, Goto
  <2>2. pg'[n].public = pg[n].public \ {seen[n].creating}
    BY <1>0, <1>9 DEF RevokeConnect, Write, WithPublic, Copy
  <2> QED BY <2>1, <2>2 DEF LeaderCloses, NothingOpen
<1> QED BY <1>2, <1>3, <1>4, <1>5, <1>6, <1>7, <1>8, <1>9 DEF Step, Dump

LEMMA ClosesStays ==
  ASSUME IInv, LeaderCloses, [Next]_vars
  PROVE  LeaderCloses'
<1> SUFFICES ASSUME LeaderStays', faults' = 0 PROVE LeaderCloses'
  BY DEF LeaderCloses
<1>1. TypeOK /\ [Managed!Next]_<<clusterVars, ver>>
  BY NextSimulated DEF IInv
<1>2. LeaderStays /\ leader' = leader
  BY <1>1, LeaderKept
<1>3. leader \in Nodes /\ faults \in Nat /\ pg \in [Nodes -> Copy]
  BY <1>1, FaultsAssumption DEF TypeOK, ClusterTypeOK, AgentTypeOK
<1>4. ASSUME UNCHANGED <<pc[leader], seen[leader], pg[leader]>>, faults = 0
      PROVE  LeaderCloses'
  BY <1>2, <1>4 DEF LeaderCloses, NothingOpen
<1>5. ASSUME NEW n \in Nodes, Step(n) \/ Fault(n) \/ Crash(n) \/ Tick(n)
      PROVE  LeaderCloses'
  <2>1. faults = 0
    <3>1. CASE Step(n) \/ Tick(n)
      <4>1. UNCHANGED faults
        BY <3>1 DEF Step, Dump, Fetch, FillActualUsers, FillActualDatabases, FillDCS,
           UpdateOnDP, DumpToDP, ReconcileDCS, SelectUsers, SelectDatabases, Save, DeleteFromDP,
           Raise, Tick, ApplyUser, DropUser, AlterDatabaseOwner, CreateDatabase,
           DropDatabase, RevokeConnect
      <4> QED BY <4>1
    <3>2. CASE Fault(n) \/ Crash(n)
      BY <1>3, <3>2 DEF Fault, Crash
    <3> QED BY <1>5, <3>1, <3>2
  <2>2. CASE n = leader
    BY <1>2, <1>5, <2>1, <2>2, LeaderAgent
  <2>3. CASE n # leader
    BY <1>1, <1>4, <1>5, <2>1, <2>3, OtherAgent
  <2> QED BY <2>2, <2>3
<1>6. ASSUME NEW p \in Payloads, PublishPayload(p) PROVE LeaderCloses'
  <2>1. leader \notin p.nodes \ Current.nodes /\ UNCHANGED faults
    BY <1>6 DEF PublishPayload, Publish
  <2>2. UNCHANGED <<pc[leader], seen[leader], pg[leader]>>
    BY <1>3, <1>6, <2>1 DEF PublishPayload, Publish
  <2> QED BY <1>4, <2>1, <2>2
<1>7. ASSUME NEW n \in Nodes, Replicate(n) \/ Failover(n), UNCHANGED agentVars
      PROVE  LeaderCloses'
  <2>1. UNCHANGED pg[leader]
    BY <1>2, <1>3, <1>7 DEF Replicate, Failover
  <2>2. faults = 0 /\ UNCHANGED <<pc[leader], seen[leader]>>
    BY <1>2, <1>7 DEF agentVars
  <2> QED BY <1>4, <2>1, <2>2
<1>8. ASSUME NEW k \in 0..MaxSync, EditDCS(k), UNCHANGED agentVars PROVE LeaderCloses'
  BY <1>4, <1>8 DEF EditDCS, agentVars
<1>9. CASE UNCHANGED vars
  BY <1>4, <1>9 DEF vars, clusterVars, agentVars
<1> QED BY <1>5, <1>6, <1>7, <1>8, <1>9 DEF Next, Environment

(* As long as the leader stays and no agent fails, CREATE DATABASE never
   outlives its REVOKE: no database stays open to PUBLIC. *)
THEOREM Revoked == Spec => []ConnectRevoked
<1>1. Init => LeaderCloses
  <2>1. ASSUME Init PROVE leader \in Nodes /\ pg = [n \in Nodes |-> BootstrapCopy]
    BY <2>1, PayloadsAssumption DEF Init, ClusterInit, Payload
  <2> QED BY <2>1 DEF Init, BootstrapCopy, LeaderCloses, NothingOpen
<1>2. IInv /\ LeaderCloses => ConnectRevoked
  <2> SUFFICES ASSUME IInv, LeaderCloses, LeaderStays, faults = 0 PROVE OpenOnlyWhileCreating
    BY DEF ConnectRevoked
  <2>1. leader \in Nodes
    BY DEF IInv, TypeOK, ClusterTypeOK
  <2> QED BY <2>1 DEF LeaderCloses, NothingOpen, OpenOnlyWhileCreating
<1> QED BY <1>1, <1>2, ClosesStays, Invariance, PTL DEF Spec
-----------------------------------------------------------------------------
(* The statements of the leader's agent. *)

(* What the leader's agent has read is still so, what it has done is there: none
   of its statements is refused. *)
RowsFresh ==
  /\ pc[leader] = "users" =>
       \A r \in Roles : Target(leader).users[r] # Absent =>
         seen[leader].roles[r] = pg[leader].roles[r]
  /\ pc[leader] \in {"databases", "revoke"} =>
       /\ \A r \in Roles : Target(leader).users[r] # Absent =>
            pg[leader].roles[r] = Target(leader).users[r]
       /\ \A d \in Databases \ SystemDatabases :
            IF pc[leader] = "revoke" /\ d = seen[leader].creating
            THEN pg[leader].owners[d] = Target(leader).databases[d]
            ELSE seen[leader].owners[d] = pg[leader].owners[d]

LEMMA LeaderTypes ==
  ASSUME IInv
  PROVE  /\ pc \in [Nodes -> Locations] /\ seen \in [Nodes -> Rows] /\ seen[leader] \in Rows
         /\ pg \in [Nodes -> Copy] /\ pg[leader] \in Copy
         /\ meta \in [Nodes -> Nat] /\ ver \in [Nodes -> 1..Latest]
         /\ cache \in [Nodes -> {"unknown", "primary", "replica"}]
         /\ dcs \in [mode : BOOLEAN, count : 0..MaxSync]
         /\ leader \in Nodes
         /\ Target(leader) \in Payloads /\ Target(leader) \in Payload
         /\ \A r \in SystemRoles : Target(leader).users[r] = Absent
<1>1. TypeOK
  BY DEF IInv
<1>2. /\ pc \in [Nodes -> Locations] /\ seen \in [Nodes -> Rows]
      /\ pg \in [Nodes -> Copy] /\ leader \in Nodes
      /\ meta \in [Nodes -> Nat] /\ ver \in [Nodes -> 1..Latest]
      /\ cache \in [Nodes -> {"unknown", "primary", "replica"}]
      /\ dcs \in [mode : BOOLEAN, count : 0..MaxSync]
      /\ pub \in Seq(Payloads)
  BY <1>1 DEF TypeOK, ClusterTypeOK, AgentTypeOK
<1>3. Target(leader) \in Payloads
  BY <1>2 DEF Target, Latest
<1> QED BY <1>2, <1>3, PayloadsAssumption DEF ValidNames

(* Rows as read are what the leader's agent decides by: Postgres refuses a statement
   only if the payload is at fault. *)
LEMMA LeaderNotRefused ==
  ASSUME IInv, RowsFresh, Feasible(Target(leader))
  PROVE  ~Refused(leader)
<1> DEFINE n == leader
<1>0. n \in Nodes /\ Target(n) \in Payload
  BY LeaderTypes
<1>1. ASSUME pc[n] = "users", NEW r \in UsersToApply(n) PROVE RoleStatementOK(n, r)
  <2>1. r \in Roles /\ Target(n).users[r] # Absent
    BY DEF UsersToApply
  <2>2. seen[n].roles[r] = pg[n].roles[r]
    BY <1>1, <2>1 DEF RowsFresh
  <2> QED BY <2>2 DEF RoleStatementOK
<1>2. ASSUME pc[n] = "databases", NEW d \in DatabasesToApply(n) PROVE DatabaseStatementOK(n, d)
  <2>1. /\ d \in Databases \ SystemDatabases
        /\ Target(n).databases[d] \in Roles
        /\ Target(n).users[Target(n).databases[d]] # Absent
    BY <1>0 DEF DatabasesToApply, Payload, Feasible
  <2>2. seen[n].owners[d] = pg[n].owners[d] /\ pg[n].roles[Target(n).databases[d]] # Absent
    BY <1>0, <1>2, <2>1 DEF RowsFresh
  <2> QED BY <2>2 DEF DatabaseStatementOK
<1>3. ASSUME pc[n] = "revoke" PROVE pg[n].owners[seen[n].creating] # Absent
  <2>1. /\ seen[n].creating \in Databases \ SystemDatabases
        /\ Target(n).databases[seen[n].creating] # Absent
    BY <1>0, <1>3 DEF IInv, RowsManaged
  <2> QED BY <1>0, <1>3, <2>1 DEF RowsFresh
<1> QED BY <1>1, <1>2, <1>3 DEF Refused

(* Each statement changes the rows read together with the data. *)
LEMMA StatementFresh ==
  ASSUME IInv, RowsFresh, Dump(leader)
  PROVE  RowsFresh'
<1> DEFINE n == leader
<1>0. /\ pc \in [Nodes -> Locations] /\ seen \in [Nodes -> Rows] /\ seen[n] \in Rows
      /\ pg \in [Nodes -> Copy] /\ pg[n] \in Copy
      /\ n \in Nodes /\ Target(n) \in Payload
      /\ \A r \in SystemRoles : Target(n).users[r] = Absent
  BY LeaderTypes
<1>1. UNCHANGED <<pub, ver, leader>> /\ Target(n)' = Target(n)
  <2>1. UNCHANGED <<pub, ver, leader>>
    BY DEF Dump, ReconcileDCS, SelectUsers, SelectDatabases, RevokeConnect, ApplyUser, DropUser,
       AlterDatabaseOwner, CreateDatabase, DropDatabase, clusterVars
  <2> QED BY <2>1 DEF Target
<1>2. CASE ReconcileDCS(n)
  <2>1. pc'[n] = "select_users"
    BY <1>0, <1>2 DEF ReconcileDCS, Goto
  <2> QED BY <1>1, <2>1 DEF RowsFresh
<1>3. CASE SelectUsers(n)
  <2>1. /\ pc'[n] = "users" /\ UNCHANGED pg
        /\ seen' = [seen EXCEPT ![n].roles = ManagedRoles(n)]
    BY <1>0, <1>3 DEF SelectUsers, Goto, clusterVars
  <2>2. \A r \in Roles : Target(n).users[r] # Absent => seen'[n].roles[r] = pg[n].roles[r]
    BY <1>0, <2>1 DEF ManagedRoles, Rows
  <2> QED BY <1>1, <2>1, <2>2 DEF RowsFresh
<1>4. ASSUME NEW r \in Roles, ApplyUser(n, r) \/ DropUser(n, r) PROVE RowsFresh'
  <2>1. /\ pc[n] = "users" /\ UNCHANGED <<pub, ver, pc>>
        /\ seen'[n].roles = [seen[n].roles EXCEPT ![r] = Target(n).users[r]]
    <3>1. /\ pc[n] = "users" /\ UNCHANGED <<pub, ver, pc>>
          /\ seen' = [seen EXCEPT ![n] = WithRole(@, r, Target(n).users[r])]
      BY <1>4 DEF ApplyUser, DropUser, MarkRole
    <3> QED BY <1>0, <3>1 DEF WithRole, Rows
  <2>2. /\ Target(n).users[r] # Absent => pg'[n].roles = [pg[n].roles EXCEPT ![r] = Target(n).users[r]]
        /\ \A q \in Roles \ {r} : pg'[n].roles[q] = pg[n].roles[q]
    <3>1. CASE ApplyUser(n, r)
      BY <1>0, <3>1 DEF ApplyUser, Write, WithRole, Copy
    <3>2. CASE DropUser(n, r)
      <4>1. Target(n).users[r] = Absent
        BY <3>2 DEF DropUser, UsersToDrop
      <4> QED BY <1>0, <3>2, <4>1 DEF DropUser, Write, WithRole, Copy
    <3> QED BY <1>4, <3>1, <3>2
  <2>3. \A q \in Roles : Target(n).users[q] # Absent => seen'[n].roles[q] = pg'[n].roles[q]
    BY <1>0, <2>1, <2>2 DEF RowsFresh, Rows, Copy
  <2> QED BY <1>1, <2>1, <2>3 DEF RowsFresh
<1>5. CASE SelectDatabases(n)
  <2>1. /\ pc'[n] = "databases" /\ UNCHANGED pg
        /\ seen' = [seen EXCEPT ![n].owners = ManagedDatabases(n)] /\ pc[n] = "users"
        /\ UsersToApply(n) = {}
    BY <1>0, <1>5 DEF SelectDatabases, Goto, clusterVars
  <2>2. \A r \in Roles : Target(n).users[r] # Absent => pg[n].roles[r] = Target(n).users[r]
    BY <1>0, <2>1 DEF RowsFresh, UsersToApply
  <2>3. \A d \in Databases \ SystemDatabases : seen'[n].owners[d] = pg[n].owners[d]
    BY <1>0, <2>1 DEF ManagedDatabases, Rows
  <2> QED BY <1>0, <1>1, <2>1, <2>2, <2>3 DEF RowsFresh
<1>6. ASSUME NEW d \in Databases, AlterDatabaseOwner(n, d) \/ DropDatabase(n, d)
      PROVE  RowsFresh'
  <2>1. /\ pc[n] = "databases" /\ UNCHANGED <<pub, ver, pc>>
        /\ seen'[n].owners = [seen[n].owners EXCEPT ![d] = Target(n).databases[d]]
    BY <1>0, <1>6 DEF AlterDatabaseOwner, DropDatabase, MarkDatabase, WithOwner, Rows
  <2>2. /\ pg'[n].roles = pg[n].roles
        /\ pg'[n].owners = [pg[n].owners EXCEPT ![d] = Target(n).databases[d]]
    <3>1. CASE AlterDatabaseOwner(n, d)
      BY <1>0, <3>1 DEF AlterDatabaseOwner, Write, WithOwner, Copy
    <3>2. CASE DropDatabase(n, d)
      <4>1. Target(n).databases[d] = Absent
        BY <3>2 DEF DropDatabase, DatabasesToDrop
      <4> QED BY <1>0, <3>2, <4>1 DEF DropDatabase, Write, WithOwner, WithPublic, Copy
    <3> QED BY <1>6, <3>1, <3>2
  <2>3. \A e \in Databases \ SystemDatabases : seen'[n].owners[e] = pg'[n].owners[e]
    BY <1>0, <2>1, <2>2 DEF RowsFresh, Rows, Copy
  <2> QED BY <1>0, <1>1, <2>1, <2>2, <2>3 DEF RowsFresh
<1>7. ASSUME NEW d \in Databases, CreateDatabase(n, d) PROVE RowsFresh'
  <2>1. /\ pc[n] = "databases" /\ pc'[n] = "revoke"
        /\ seen'[n].owners = seen[n].owners /\ seen'[n].creating = d
    BY <1>0, <1>7 DEF CreateDatabase, Goto, Rows
  <2>2. /\ pg'[n].roles = pg[n].roles
        /\ pg'[n].owners = [pg[n].owners EXCEPT ![d] = Target(n).databases[d]]
    BY <1>0, <1>7 DEF CreateDatabase, Write, WithOwner, WithPublic, Copy
  <2>3. \A e \in Databases \ SystemDatabases :
          IF e = d THEN pg'[n].owners[e] = Target(n).databases[e]
                   ELSE seen'[n].owners[e] = pg'[n].owners[e]
    BY <1>0, <2>1, <2>2 DEF RowsFresh, Copy
  <2> QED BY <1>0, <1>1, <2>1, <2>2, <2>3 DEF RowsFresh
<1>8. CASE RevokeConnect(n)
  <2>1. /\ pc[n] = "revoke" /\ pc'[n] = "databases"
        /\ seen'[n].owners =
             [seen[n].owners EXCEPT ![seen[n].creating] = Target(n).databases[seen[n].creating]]
        /\ pg'[n].roles = pg[n].roles /\ pg'[n].owners = pg[n].owners
    BY <1>0, <1>8 DEF RevokeConnect, Goto, Write, WithOwner, WithPublic, Rows, Copy
  <2>2. \A e \in Databases \ SystemDatabases : seen'[n].owners[e] = pg'[n].owners[e]
    BY <1>0, <2>1 DEF RowsFresh, Rows
  <2> QED BY <1>0, <1>1, <2>1, <2>2 DEF RowsFresh
<1> QED BY <1>2, <1>3, <1>4, <1>5, <1>6, <1>7, <1>8 DEF Dump

(* Every other step of the leader's agent leaves its statements, for good or until
   it has read the rows again. *)
LEMMA AgentFresh ==
  ASSUME IInv, RowsFresh, leader' = leader,
         Step(leader) \/ Fault(leader) \/ Crash(leader) \/ Tick(leader)
  PROVE  RowsFresh'
<1> DEFINE n == leader
<1>0. pc \in [Nodes -> Locations] /\ n \in Nodes
  BY LeaderTypes
<1>1. CASE \/ Fetch(n) \/ FillActualUsers(n) \/ FillActualDatabases(n) \/ FillDCS(n)
           \/ UpdateOnDP(n) \/ DumpToDP(n) \/ Save(n) \/ DeleteFromDP(n) \/ Raise(n)
           \/ Fault(n) \/ Crash(n)
  <2>1. pc'[n] \notin {"users", "databases", "revoke"}
    BY <1>0, <1>1 DEF Fetch, FillActualUsers, FillActualDatabases, FillDCS, UpdateOnDP, DumpToDP,
       Save, DeleteFromDP, Raise, Fault, Crash, Goto, GoIdle
  <2> QED BY <2>1 DEF RowsFresh
<1>2. CASE Tick(n)
  BY <1>2 DEF Tick, RowsFresh, Target, clusterVars
<1> QED BY <1>1, <1>2, StatementFresh DEF Step

LEMMA FreshStays ==
  ASSUME IInv, LeaderStays => RowsFresh, [Next]_vars
  PROVE  (LeaderStays => RowsFresh)'
<1> SUFFICES ASSUME LeaderStays' PROVE RowsFresh'
  OBVIOUS
<1>1. TypeOK /\ [Managed!Next]_<<clusterVars, ver>>
  BY NextSimulated DEF IInv
<1>2. leader' = leader /\ RowsFresh
  BY <1>1, LeaderKept
<1>3. /\ leader \in Nodes /\ pg \in [Nodes -> Copy] /\ ver \in [Nodes -> 1..Latest]
      /\ pub \in Seq(Payloads)
  BY <1>1 DEF TypeOK, ClusterTypeOK, AgentTypeOK
<1>4. ASSUME UNCHANGED <<pc[leader], seen[leader], pg[leader]>>, Target(leader)' = Target(leader)
      PROVE  RowsFresh'
  BY <1>2, <1>4 DEF RowsFresh
<1>5. ASSUME NEW n \in Nodes, Step(n) \/ Fault(n) \/ Crash(n) \/ Tick(n) PROVE RowsFresh'
  <2>1. CASE n = leader
    BY <1>2, <1>5, <2>1, AgentFresh
  <2>2. CASE n # leader
    <3>1. UNCHANGED <<pub, ver[leader]>>
      BY <1>3, <1>5, <2>2 DEF Step, Dump, Fetch, FillActualUsers, FillActualDatabases, FillDCS,
         UpdateOnDP, DumpToDP, ReconcileDCS, SelectUsers, SelectDatabases, Save, DeleteFromDP,
         Raise, Fault, Crash, Tick, ApplyUser, DropUser, AlterDatabaseOwner, CreateDatabase,
         DropDatabase, RevokeConnect, clusterVars
    <3> QED BY <1>1, <1>4, <1>5, <2>2, <3>1, OtherAgent DEF Target
  <2> QED BY <2>1, <2>2
<1>6. ASSUME NEW p \in Payloads, PublishPayload(p) PROVE RowsFresh'
  <2>1. leader \notin p.nodes \ Current.nodes /\ pub' = Append(pub, p) /\ UNCHANGED ver
    BY <1>6 DEF PublishPayload, Publish
  <2>2. UNCHANGED <<pc[leader], seen[leader], pg[leader]>>
    BY <1>3, <1>6, <2>1 DEF PublishPayload, Publish
  <2>3. Target(leader)' = Target(leader)
    BY <1>2, <1>3, <2>1 DEF Target, Latest
  <2> QED BY <1>4, <2>2, <2>3
<1>7. ASSUME UNCHANGED agentVars, UNCHANGED <<pub, pg[leader]>> PROVE RowsFresh'
  BY <1>2, <1>4, <1>7 DEF agentVars, Target
<1>8. ASSUME NEW n \in Nodes, Replicate(n) \/ Failover(n), UNCHANGED agentVars PROVE RowsFresh'
  <2>1. UNCHANGED <<pub, pg[leader]>>
    BY <1>2, <1>3, <1>8 DEF Replicate, Failover
  <2> QED BY <1>7, <1>8, <2>1
<1>9. ASSUME NEW k \in 0..MaxSync, EditDCS(k), UNCHANGED agentVars PROVE RowsFresh'
  BY <1>7, <1>9 DEF EditDCS
<1>10. CASE UNCHANGED vars
  BY <1>7, <1>10 DEF vars, clusterVars
<1> QED BY <1>5, <1>6, <1>8, <1>9, <1>10 DEF Next, Environment

LEMMA InitFresh == Init => RowsFresh
<1> SUFFICES ASSUME Init PROVE RowsFresh
  OBVIOUS
<1>1. leader \in Nodes /\ pc = [n \in Nodes |-> "idle"]
  BY PayloadsAssumption DEF Init, ClusterInit, Payload
<1> QED BY <1>1 DEF RowsFresh

(* As long as the leader stays, Postgres refuses a statement of its agent only for
   what the payload asks: whatever fails, crashes or is retried in between. *)
THEOREM StatementsTaken == Spec => []RefusedByPayload
<1>1. IInv /\ (LeaderStays => RowsFresh) => RefusedByPayload
  BY LeaderNotRefused DEF RefusedByPayload
<1>2. Init => (LeaderStays => RowsFresh)
  BY InitFresh
<1> QED BY <1>1, <1>2, FreshStays, Invariance, PTL DEF Spec
-----------------------------------------------------------------------------
(* What the leader's agent has done, and the synchronous mode. *)

(* Only the leader's own agent takes itself for the primary, so that no other one
   writes to the DCS, and it never skips its work. *)
OneWriter ==
  /\ cache[leader] # "replica" /\ pc[leader] \notin {"save", "delete"}
  /\ \A n \in Nodes \ {leader} : cache[n] # "primary" /\ pc[n] \notin Writing

(* The loops over users and databases come after the patch of the DCS. *)
Patched == {"select_users", "users", "databases", "revoke"}

(* While the leader's agent works on its target, the DCS is what that asks for. *)
DCSPatched ==
  pc[leader] \in Patched =>
    dcs = [mode |-> SyncEnabled(Target(leader)), count |-> Target(leader).sync]

(* Ever after the mode is what the agent made of it: the meta file tells the
   nodes_number it was made of, unless an iteration was refused between the two. *)
MetaTells ==
  pc[leader] \notin Patched /\ meta[leader] # 0 =>
    dcs.mode = (meta[leader] > 1 /\ dcs.count > 0) \/ ModeLeft

LeaderFollows ==
  LeaderStays =>
    /\ OneWriter /\ RowsFresh
    /\ edits = 0 => DCSPatched
    /\ edits = 0 /\ faults = 0 => MetaTells

(* What was published stays published. *)
LEMMA ModeLeftKept ==
  ASSUME ClusterTypeOK, ModeLeft, UNCHANGED dcs,
         \/ UNCHANGED pub
         \/ \E p \in Payloads : pub' = Append(pub, p)
  PROVE  ModeLeft'
<1>1. PICK i \in 1..Latest : ~Feasible(pub[i]) /\ dcs.mode = SyncEnabled(pub[i])
  BY DEF ModeLeft
<1>2. pub \in Seq(Payloads)
  BY DEF ClusterTypeOK
<1>3. CASE UNCHANGED pub
  BY <1>1, <1>3 DEF ModeLeft, Latest, Feasible, SyncEnabled, NodesNumber
<1>4. ASSUME NEW p \in Payloads, pub' = Append(pub, p) PROVE ModeLeft'
  <2>1. i \in 1..Latest' /\ pub'[i] = pub[i]
    BY <1>2, <1>4 DEF Latest
  <2> QED BY <1>1, <2>1 DEF ModeLeft, Feasible, SyncEnabled, NodesNumber
<1> QED BY <1>3, <1>4

LEMMA CountersGrow ==
  ASSUME TypeOK, [Next]_vars
  PROVE  (faults' = 0 => faults = 0) /\ (edits' = 0 => edits = 0)
<1>0. faults \in Nat /\ edits \in Nat
  BY FaultsAssumption, BoundsAssumption DEF TypeOK, AgentTypeOK, ClusterTypeOK
<1>1. ASSUME NEW n \in Nodes, Step(n) \/ Tick(n) PROVE UNCHANGED <<faults, edits>>
  BY <1>1 DEF Step, Dump, Fetch, FillActualUsers, FillActualDatabases, FillDCS,
     UpdateOnDP, DumpToDP, ReconcileDCS, SelectUsers, SelectDatabases, Save, DeleteFromDP,
     Raise, Tick, ApplyUser, DropUser, AlterDatabaseOwner, CreateDatabase,
     DropDatabase, RevokeConnect, clusterVars
<1>2. ASSUME NEW n \in Nodes, Fault(n) \/ Crash(n)
      PROVE  faults' = faults + 1 /\ UNCHANGED edits
  BY <1>2 DEF Fault, Crash, clusterVars
<1>3. ASSUME NEW p \in Payloads, PublishPayload(p) PROVE UNCHANGED <<faults, edits>>
  BY <1>3 DEF PublishPayload, Publish
<1>4. ASSUME NEW n \in Nodes, Replicate(n) \/ Failover(n), UNCHANGED agentVars
      PROVE  UNCHANGED <<faults, edits>>
  BY <1>4 DEF Replicate, Failover, agentVars
<1>5. ASSUME NEW k \in 0..MaxSync, EditDCS(k), UNCHANGED agentVars
      PROVE  edits' = edits + 1 /\ UNCHANGED faults
  BY <1>5 DEF EditDCS, agentVars
<1>6. UNCHANGED vars => UNCHANGED <<faults, edits>>
  BY DEF vars, clusterVars, agentVars
<1> QED BY <1>0, <1>1, <1>2, <1>3, <1>4, <1>5, <1>6 DEF Next, Environment

(* A step that leaves the leader's agent, its data and the DCS alone, and makes no
   other agent a writer, keeps the invariant. *)
LEMMA FollowsUntouched ==
  ASSUME LeaderFollows, LeaderStays, leader' = leader, ModeLeft => ModeLeft',
         faults' = 0 => faults = 0, edits' = 0 => edits = 0,
         UNCHANGED <<pc[leader], seen[leader], meta[leader], cache[leader], pg[leader], dcs>>,
         Target(leader)' = Target(leader),
         \A n \in Nodes \ {leader} : cache'[n] # "primary" /\ pc'[n] \notin Writing
  PROVE  LeaderFollows'
<1>1. OneWriter'
  BY DEF LeaderFollows, OneWriter
<1>2. RowsFresh'
  BY DEF LeaderFollows, RowsFresh
<1>3. (edits = 0 => DCSPatched')
  BY DEF LeaderFollows, DCSPatched, SyncEnabled, NodesNumber
<1>4. (edits = 0 /\ faults = 0 => MetaTells')
  BY DEF LeaderFollows, MetaTells
<1> QED BY <1>1, <1>2, <1>3, <1>4 DEF LeaderFollows

(* The agents of the other nodes skip the work. *)
LEMMA OtherAgentSkips ==
  ASSUME TypeOK, LeaderFollows, LeaderStays, leader' = leader,
         faults' = 0 => faults = 0, edits' = 0 => edits = 0,
         NEW n \in Nodes, n # leader, Step(n) \/ Fault(n) \/ Crash(n) \/ Tick(n)
  PROVE  LeaderFollows'
<1>0. /\ pc \in [Nodes -> Locations] /\ meta \in [Nodes -> Nat] /\ ver \in [Nodes -> 1..Latest]
      /\ cache \in [Nodes -> {"unknown", "primary", "replica"}]
      /\ leader \in Nodes /\ cache[n] # "primary" /\ pc[n] \notin Writing
      /\ \A m \in Nodes \ {leader} : cache[m] # "primary" /\ pc[m] \notin Writing
      /\ ~Primary(n)
  BY DEF TypeOK, ClusterTypeOK, AgentTypeOK, LeaderFollows, OneWriter, Primary
<1>1. UNCHANGED <<pc[leader], seen[leader], pg[leader]>>
  BY OtherAgent
<1>2. ~Dump(n)
  BY <1>0 DEF Dump, Writing, ReconcileDCS, SelectUsers, SelectDatabases, RevokeConnect,
     ApplyUser, DropUser, AlterDatabaseOwner, CreateDatabase, DropDatabase
<1>3. ~Raise(n)
  BY <1>0 DEF Raise, Refused, Writing
<1>4. ASSUME UNCHANGED <<meta[leader], cache[leader], ver[leader], pub, dcs>>,
             \A m \in Nodes \ {n} : cache'[m] = cache[m] /\ pc'[m] = pc[m],
             cache'[n] # "primary", pc'[n] \notin Writing
      PROVE  LeaderFollows'
  <2>1. Target(leader)' = Target(leader)
    BY <1>4 DEF Target
  <2>2. \A m \in Nodes \ {leader} : cache'[m] # "primary" /\ pc'[m] \notin Writing
    BY <1>0, <1>4
  <2>3. ModeLeft => ModeLeft'
    BY <1>4, ModeLeftKept DEF TypeOK
  <2> QED BY <1>1, <1>4, <2>1, <2>2, <2>3, FollowsUntouched
<1>5. CASE Fetch(n) \/ FillActualUsers(n) \/ FillActualDatabases(n) \/ FillDCS(n)
  BY <1>0, <1>4, <1>5 DEF Fetch, FillActualUsers, FillActualDatabases, FillDCS, Goto, GoIdle,
     Writing, clusterVars
<1>6. CASE UpdateOnDP(n) \/ DumpToDP(n)
  BY <1>0, <1>4, <1>6 DEF UpdateOnDP, DumpToDP, AskPrimary, Goto, Writing, clusterVars
<1>7. CASE Save(n) \/ DeleteFromDP(n) \/ Tick(n)
  BY <1>0, <1>4, <1>7 DEF Save, DeleteFromDP, Tick, AskPrimary, Goto, GoIdle, Writing, clusterVars
<1>8. CASE Fault(n) \/ Crash(n)
  BY <1>0, <1>4, <1>8 DEF Fault, Crash, Goto, GoIdle, Writing, clusterVars
<1> QED BY <1>2, <1>3, <1>5, <1>6, <1>7, <1>8 DEF Step

(* How the leader's agent asks who it is. *)
LEMMA LeaderIsPrimary ==
  ASSUME IInv, LeaderFollows, LeaderStays
  PROVE  leader \in Current.nodes /\ Primary(leader)
<1>1. leader \in Nodes /\ cache \in [Nodes -> {"unknown", "primary", "replica"}]
  BY LeaderTypes
<1> QED BY <1>1 DEF Primary, LeaderFollows, OneWriter, LeaderStays

(* The statements of the leader's agent come after its patch of the DCS. *)
LEMMA LeaderStatement ==
  ASSUME IInv, LeaderFollows, LeaderStays, leader' = leader, Dump(leader)
  PROVE  /\ edits = 0 => DCSPatched'
         /\ pc'[leader] \in Patched
         /\ UNCHANGED cache /\ \A n \in Nodes \ {leader} : pc'[n] = pc[n]
<1> DEFINE n == leader
<1>0. pc \in [Nodes -> Locations] /\ n \in Nodes /\ (edits = 0 => DCSPatched)
  BY LeaderTypes DEF LeaderFollows
<1>1. ASSUME UNCHANGED <<pub, ver>> PROVE Target(n)' = Target(n) /\ SyncEnabled(Target(n))' = SyncEnabled(Target(n))
  BY <1>1 DEF Target, SyncEnabled, NodesNumber
<1>2. CASE ReconcileDCS(n)
  <2>1. /\ pc' = [pc EXCEPT ![n] = "select_users"] /\ UNCHANGED <<pub, ver, cache>>
        /\ dcs' = [mode |-> SyncEnabled(Target(n)), count |-> Target(n).sync]
    BY <1>2 DEF ReconcileDCS, Goto
  <2> QED BY <1>0, <1>1, <2>1 DEF DCSPatched, Patched
<1>3. ASSUME UNCHANGED <<pub, ver, dcs, cache>>, pc[n] \in Patched, NEW to \in Patched,
             pc' = [pc EXCEPT ![n] = to]
      PROVE  /\ edits = 0 => DCSPatched'
             /\ pc'[n] \in Patched
             /\ UNCHANGED cache /\ \A m \in Nodes \ {n} : pc'[m] = pc[m]
  BY <1>0, <1>1, <1>3 DEF DCSPatched
<1>4. CASE SelectUsers(n) \/ SelectDatabases(n) \/ RevokeConnect(n)
  BY <1>0, <1>3, <1>4 DEF SelectUsers, SelectDatabases, RevokeConnect, Goto, clusterVars, Patched
<1>5. ASSUME NEW r \in Roles, ApplyUser(n, r) \/ DropUser(n, r)
      PROVE  UNCHANGED <<pub, ver, dcs, cache, pc>> /\ pc[n] = "users"
  BY <1>5 DEF ApplyUser, DropUser
<1>6. ASSUME NEW d \in Databases, AlterDatabaseOwner(n, d) \/ DropDatabase(n, d)
      PROVE  UNCHANGED <<pub, ver, dcs, cache, pc>> /\ pc[n] = "databases"
  BY <1>6 DEF AlterDatabaseOwner, DropDatabase
<1>7. ASSUME NEW d \in Databases, CreateDatabase(n, d)
      PROVE  /\ UNCHANGED <<pub, ver, dcs, cache>> /\ pc[n] = "databases"
             /\ pc' = [pc EXCEPT ![n] = "revoke"]
  BY <1>7 DEF CreateDatabase, Goto
<1>8. pc = [pc EXCEPT ![n] = pc[n]]
  BY <1>0
<1> QED BY <1>2, <1>3, <1>4, <1>5, <1>6, <1>7, <1>8 DEF Dump, Patched

(* The leader's agent around its statements. *)
LEMMA LeaderAgentFollows ==
  ASSUME IInv, LeaderFollows, LeaderStays, leader' = leader,
         faults' = 0 => faults = 0, edits' = 0 => edits = 0,
         Step(leader) \/ Fault(leader) \/ Crash(leader) \/ Tick(leader)
  PROVE  LeaderFollows'
<1> DEFINE n == leader
<1>0. /\ pc \in [Nodes -> Locations] /\ meta \in [Nodes -> Nat]
      /\ cache \in [Nodes -> {"unknown", "primary", "replica"}]
      /\ n \in Nodes /\ n \in Current.nodes /\ Primary(n)
      /\ OneWriter /\ RowsFresh' /\ (edits = 0 => DCSPatched)
      /\ edits = 0 /\ faults = 0 => MetaTells
  BY LeaderTypes, LeaderIsPrimary, AgentFresh DEF LeaderFollows
<1>1. ASSUME OneWriter', edits = 0 => DCSPatched',
             edits' = 0 /\ faults' = 0 => MetaTells'
      PROVE  LeaderFollows'
  BY <1>0, <1>1 DEF LeaderFollows
<1>2. ASSUME cache'[n] # "replica", pc'[n] \notin {"save", "delete"},
             \A m \in Nodes \ {n} : cache'[m] = cache[m] /\ pc'[m] = pc[m]
      PROVE  OneWriter'
  BY <1>0, <1>2 DEF OneWriter
<1>3. pc'[n] \notin Patched => DCSPatched'
  BY DEF DCSPatched
<1>4. ASSUME pc[n] \notin Patched, pc'[n] \notin Patched, UNCHANGED <<meta, dcs, pub>>
      PROVE  edits = 0 /\ faults = 0 => MetaTells'
  <2>1. ModeLeft => ModeLeft'
    BY <1>4, ModeLeftKept DEF IInv, TypeOK
  <2> QED BY <1>0, <1>4, <2>1 DEF MetaTells
<1>5. CASE Dump(n)
  <2>1. OneWriter'
    BY <1>0, <1>2, <1>5, LeaderStatement DEF OneWriter, Patched
  <2>2. MetaTells'
    BY <1>5, LeaderStatement DEF MetaTells
  <2> QED BY <1>1, <1>5, <2>1, <2>2, LeaderStatement
<1>6. CASE Fetch(n) \/ FillActualUsers(n) \/ FillActualDatabases(n) \/ FillDCS(n)
  <2>1. /\ pc[n] \notin Patched /\ pc'[n] \notin Patched \cup {"save", "delete"}
        /\ UNCHANGED <<meta, dcs, pub, cache>> /\ \A m \in Nodes \ {n} : pc'[m] = pc[m]
    BY <1>0, <1>6 DEF Fetch, FillActualUsers, FillActualDatabases, FillDCS, Goto, GoIdle,
       Patched, clusterVars
  <2> QED BY <1>0, <1>1, <1>2, <1>3, <1>4, <2>1 DEF OneWriter
<1>7. CASE UpdateOnDP(n) \/ DumpToDP(n)
  <2>1. /\ pc[n] \notin Patched /\ pc'[n] \in {"dump", "dcs"} /\ cache'[n] = "primary"
        /\ UNCHANGED <<meta, dcs, pub>>
        /\ \A m \in Nodes \ {n} : cache'[m] = cache[m] /\ pc'[m] = pc[m]
    BY <1>0, <1>7 DEF UpdateOnDP, DumpToDP, AskPrimary, Goto, Patched, clusterVars
  <2> QED BY <1>1, <1>2, <1>3, <1>4, <2>1 DEF Patched
<1>8. CASE Save(n)
  <2>1. /\ pc[n] = "databases" /\ pc' = [pc EXCEPT ![n] = "idle"]
        /\ UNCHANGED <<dcs, cache, edits>>
        /\ meta' = [meta EXCEPT ![n] = NodesNumber(Target(n))]
    BY <1>0, <1>8 DEF Save, GoIdle, Goto, OneWriter, clusterVars
  <2>2. edits = 0 => dcs' = [mode |-> SyncEnabled(Target(n)), count |-> Target(n).sync]
    BY <1>0, <2>1 DEF DCSPatched, Patched
  <2>3. edits = 0 => MetaTells'
    BY <1>0, <2>1, <2>2 DEF MetaTells, SyncEnabled
  <2> QED BY <1>0, <1>1, <1>2, <1>3, <2>1, <2>3 DEF OneWriter, Patched
<1>9. ~DeleteFromDP(n)
  BY <1>0 DEF DeleteFromDP, OneWriter
<1>10. ASSUME pc' = [pc EXCEPT ![n] = "idle"], cache' \in {cache, [cache EXCEPT ![n] = "unknown"]},
              edits' = 0 /\ faults' = 0 => ModeLeft'
       PROVE  LeaderFollows'
  <2>1. pc'[n] = "idle" /\ \A m \in Nodes \ {n} : cache'[m] = cache[m] /\ pc'[m] = pc[m]
    BY <1>0, <1>10
  <2>2. cache'[n] # "replica"
    BY <1>0, <1>10 DEF OneWriter
  <2> QED BY <1>1, <1>2, <1>3, <1>10, <2>1, <2>2 DEF Patched, MetaTells
<1>11. CASE Raise(n)
  <2>1. ~Feasible(Target(n))
    BY <1>11, LeaderNotRefused DEF Raise, LeaderFollows
  <2>2. edits = 0 => dcs.mode = SyncEnabled(Target(n))
    <3>1. pc[n] \in Patched
      BY <1>11 DEF Raise, Refused, Patched
    <3> QED BY <1>0, <3>1 DEF DCSPatched
  <2>3. edits = 0 => ModeLeft
    BY <2>1, <2>2, LeaderTypes DEF ModeLeft, Target
  <2>4. edits' = 0 => ModeLeft'
    <3>1. UNCHANGED <<pub, dcs>>
      BY <1>11 DEF Raise, clusterVars
    <3> QED BY <2>3, <3>1, ModeLeftKept DEF IInv, TypeOK
  <2> QED BY <1>10, <1>11, <2>4 DEF Raise, GoIdle, Goto
<1>12. CASE Fault(n) \/ Crash(n)
  <2>1. faults' # 0
    <3>1. faults \in Nat /\ faults' = faults + 1
      BY <1>12, FaultsAssumption DEF Fault, Crash, IInv, TypeOK, AgentTypeOK
    <3> QED BY <3>1
  <2> QED BY <1>10, <1>12, <2>1 DEF Fault, Crash, GoIdle, Goto
<1>13. CASE Tick(n)
  <2>1. /\ cache' = [cache EXCEPT ![n] = "unknown"]
        /\ UNCHANGED <<pub, ver, pc, meta, dcs>>
    BY <1>13 DEF Tick, clusterVars
  <2>2. OneWriter'
    BY <1>0, <1>2, <2>1 DEF OneWriter
  <2>3. edits = 0 => DCSPatched'
    BY <1>0, <2>1 DEF DCSPatched, Target, SyncEnabled, NodesNumber
  <2>4. edits = 0 /\ faults = 0 => MetaTells'
    BY <1>0, <2>1, ModeLeftKept DEF MetaTells, IInv, TypeOK
  <2> QED BY <1>1, <2>2, <2>3, <2>4
<1> QED BY <1>5, <1>6, <1>7, <1>8, <1>9, <1>11, <1>12, <1>13 DEF Step

LEMMA FollowsStays ==
  ASSUME IInv, LeaderFollows, [Next]_vars
  PROVE  LeaderFollows'
<1> SUFFICES ASSUME LeaderStays' PROVE LeaderFollows'
  BY DEF LeaderFollows
<1>1. TypeOK /\ [Managed!Next]_<<clusterVars, ver>>
  BY NextSimulated DEF IInv
<1>2. /\ LeaderStays /\ leader' = leader
      /\ faults' = 0 => faults = 0
      /\ edits' = 0 => edits = 0
  BY <1>1, LeaderKept, CountersGrow
<1>3. /\ leader \in Nodes /\ pg \in [Nodes -> Copy] /\ ver[leader] \in 1..Latest
      /\ \A n \in Nodes \ {leader} : cache[n] # "primary" /\ pc[n] \notin Writing
  BY <1>1, <1>2 DEF TypeOK, ClusterTypeOK, AgentTypeOK, LeaderFollows, OneWriter
<1>4. ASSUME NEW n \in Nodes, Step(n) \/ Fault(n) \/ Crash(n) \/ Tick(n) PROVE LeaderFollows'
  BY <1>1, <1>2, <1>4, LeaderAgentFollows, OtherAgentSkips
<1>5. ASSUME NEW p \in Payloads, PublishPayload(p) PROVE LeaderFollows'
  <2>1. /\ leader \notin p.nodes \ Current.nodes
        /\ pub' = Append(pub, p) /\ UNCHANGED <<ver, dcs>>
    BY <1>5 DEF PublishPayload, Publish
  <2>2. UNCHANGED <<pc[leader], seen[leader], meta[leader], cache[leader], pg[leader]>>
    BY <1>3, <1>5, <2>1 DEF PublishPayload, Publish
  <2>3. \A n \in Nodes \ {leader} :
          /\ cache'[n] = cache[n] \/ cache'[n] = "unknown"
          /\ pc'[n] = pc[n] \/ pc'[n] = "idle"
    BY <1>5 DEF PublishPayload
  <2>4. Target(leader)' = Target(leader)
    <3>1. pub \in Seq(Payloads)
      BY <1>1 DEF TypeOK, ClusterTypeOK
    <3> QED BY <1>2, <1>3, <2>1, <3>1 DEF Target, Latest
  <2>5. \A n \in Nodes \ {leader} : cache'[n] # "primary" /\ pc'[n] \notin Writing
    BY <1>3, <2>3 DEF Writing
  <2>6. ModeLeft => ModeLeft'
    BY <1>1, <2>1, ModeLeftKept DEF TypeOK
  <2> QED BY <1>2, <2>1, <2>2, <2>4, <2>5, <2>6, FollowsUntouched
<1>6. UNCHANGED agentVars =>
        /\ UNCHANGED <<pc[leader], seen[leader], meta[leader], cache[leader]>>
        /\ \A n \in Nodes \ {leader} : cache'[n] # "primary" /\ pc'[n] \notin Writing
        /\ UNCHANGED pub => Target(leader)' = Target(leader)
  BY <1>2, <1>3 DEF agentVars, Target
<1>7. ASSUME UNCHANGED agentVars, UNCHANGED <<pub, pg[leader], dcs>> PROVE LeaderFollows'
  <2>1. ModeLeft => ModeLeft'
    BY <1>1, <1>7, ModeLeftKept DEF TypeOK
  <2> QED BY <1>2, <1>6, <1>7, <2>1, FollowsUntouched
<1>8. ASSUME NEW n \in Nodes, Replicate(n) \/ Failover(n), UNCHANGED agentVars
      PROVE  LeaderFollows'
  <2>1. UNCHANGED <<pub, pg[leader], dcs>>
    BY <1>2, <1>3, <1>8 DEF Replicate, Failover
  <2> QED BY <1>7, <1>8, <2>1
<1>9. ASSUME NEW k \in 0..MaxSync, EditDCS(k), UNCHANGED agentVars PROVE LeaderFollows'
  <2>1. edits' # 0 /\ UNCHANGED <<pub, pg>>
    <3>1. edits \in Nat /\ edits' = edits + 1 /\ UNCHANGED <<pub, pg>>
      BY <1>1, <1>9, BoundsAssumption DEF EditDCS, TypeOK, ClusterTypeOK
    <3> QED BY <3>1
  <2>2. OneWriter' /\ RowsFresh'
    BY <1>2, <1>6, <1>9, <2>1 DEF LeaderFollows, OneWriter, RowsFresh
  <2> QED BY <2>1, <2>2 DEF LeaderFollows
<1>10. CASE UNCHANGED vars
  BY <1>7, <1>10 DEF vars, clusterVars
<1> QED BY <1>4, <1>5, <1>8, <1>9, <1>10 DEF Next, Environment

LEMMA InitFollows == Init => LeaderFollows
<1> SUFFICES ASSUME Init PROVE OneWriter /\ RowsFresh /\ DCSPatched /\ MetaTells
  BY DEF LeaderFollows
<1>1. /\ leader \in Nodes /\ pc = [n \in Nodes |-> "idle"]
      /\ cache = [n \in Nodes |-> "unknown"] /\ meta = [n \in Nodes |-> 0]
  BY PayloadsAssumption DEF Init, ClusterInit, Payload
<1> QED BY <1>1 DEF OneWriter, RowsFresh, DCSPatched, MetaTells, Writing, Patched

(* As long as the leader stays, an iteration of its agent that reports success has
   done all of its work: no fault, crash or publication makes it skip any. *)
THEOREM SavesDone == Spec => SavesWhatIsDone
<1>1. ASSUME IInv, LeaderFollows, LeaderStays, Save(leader) PROVE Done(leader)
  <2> DEFINE n == leader
  <2>0. /\ seen[n] \in Rows /\ pg[n] \in Copy /\ Target(n) \in Payload /\ n \in Nodes
        /\ \A d \in SystemDatabases : seen[n].owners[d] = Absent
    BY <1>1, LeaderTypes DEF IInv, RowsManaged
  <2>1. /\ pc[n] = "databases" /\ RowsFresh /\ (edits = 0 => DCSPatched)
        /\ \A d \in Databases : d \notin DatabasesToApply(n) \cup DatabasesToDrop(n)
    BY <1>1 DEF Save, LeaderFollows, OneWriter
  <2>2. \A d \in Databases : seen[n].owners[d] = Target(n).databases[d]
    BY <2>1 DEF DatabasesToApply, DatabasesToDrop
  <2>3. \A d \in Databases : ManagedDatabases(n)[d] = Target(n).databases[d]
    BY <2>0, <2>1, <2>2 DEF ManagedDatabases, RowsFresh
  <2>4. ManagedDatabases(n) = Target(n).databases
    <3>1. Target(n).databases \in [Databases -> Roles \cup {Absent}]
      BY <2>0 DEF Payload
    <3> QED BY <2>3, <3>1 DEF ManagedDatabases
  <2>5. \A r \in Roles : Target(n).users[r] # Absent => pg[n].roles[r] = Target(n).users[r]
    BY <2>1 DEF RowsFresh
  <2> QED BY <2>1, <2>4, <2>5 DEF Done, DCSPatched, Patched
<1>2. IInv /\ LeaderFollows /\ [Next]_vars => [LeaderStays /\ Save(leader) => Done(leader)]_vars
  BY <1>1
<1> QED BY <1>2, InitFollows, FollowsStays, Invariance, PTL DEF Spec, SavesWhatIsDone

(* As long as the leader stays, no agent fails and nobody edits the DCS: when the
   agents see no difference, the synchronous mode is the one their target asks
   for, or that of a payload which could not be carried out. *)
THEOREM ModeApplied == Spec => []SyncModeApplied
<1>1. IInv /\ LeaderFollows => SyncModeApplied
  <2> SUFFICES ASSUME IInv, LeaderFollows, LeaderStays, faults = 0, edits = 0, NoAgentSeesDifference
               PROVE  dcs.mode = SyncEnabled(Current) \/ ModeLeft
    BY DEF SyncModeApplied
  <2>1. /\ leader \in Current.nodes /\ leader \in Nodes
        /\ dcs \in [mode : BOOLEAN, count : 0..MaxSync]
        /\ Current \in Payload
    BY PayloadsAssumption, CurrentType
       DEF IInv, TypeOK, ClusterTypeOK, LeaderStays
  <2>2. /\ pc[leader] = "idle" /\ dcs.count = Current.sync
        /\ meta[leader] = NodesNumber(Current)
    BY <2>1 DEF NoAgentSeesDifference
  <2>3. NodesNumber(Current) # 0
    <3>1. IsFiniteSet(Current.nodes)
      BY <2>1, PayloadsAssumption, FS_Subset DEF Payload
    <3> QED BY <2>1, <3>1, FS_EmptySet DEF NodesNumber
  <2>4. dcs.mode = (NodesNumber(Current) > 1 /\ Current.sync > 0) \/ ModeLeft
    BY <2>2, <2>3 DEF LeaderFollows, MetaTells, Patched
  <2> QED BY <2>4 DEF SyncEnabled
<1>2. IInv /\ LeaderFollows /\ [Next]_vars => LeaderFollows'
  BY FollowsStays
<1> QED BY <1>1, <1>2, InitFollows, Invariance, PTL DEF Spec
=============================================================================
