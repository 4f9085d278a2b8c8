--------------------------- MODULE PGAgentProofs ---------------------------
(***************************************************************************)
(* What the agents guarantee for every set of nodes, names and payloads,   *)
(* with any number of failovers, faults, crashes and operator edits.       *)
(***************************************************************************)
EXTENDS PGAgent, FiniteSetTheorems, TLAPS

-----------------------------------------------------------------------------
(* Types of what the model computes with. *)

(* The target of an agent is a payload. *)
LEMMA TargetType ==
  ASSUME TypeOK, NEW n \in Nodes
  PROVE  /\ Target(n) \in Payloads
         /\ Target(n) \in Payload
BY PayloadsAssumption DEF TypeOK, ClusterTypeOK, AgentTypeOK, Target, Latest

(* The current payload is a payload. *)
LEMMA CurrentType ==
  ASSUME ClusterTypeOK
  PROVE  /\ Latest \in Nat \ {0}
         /\ Current \in Payloads
         /\ Current \in Payload
BY PayloadsAssumption DEF ClusterTypeOK, Current, Latest

(* A payload is for a natural number of nodes. *)
LEMMA NodesNumberType ==
  ASSUME NEW p \in Payload
  PROVE  NodesNumber(p) \in Nat
<1>1. p.nodes \subseteq Nodes
  BY DEF Payload
<1>2. IsFiniteSet(p.nodes)
  BY <1>1, PayloadsAssumption, FS_Subset
<1> QED
  BY <1>2, FS_CardinalityType DEF NodesNumber

(* One statement changes a copy to a copy. *)
LEMMA CopyUpdates ==
  ASSUME NEW c \in Copy
  PROVE  /\ \A r \in Roles, h \in Hashes \cup {Absent} : WithRole(c, r, h) \in Copy
         /\ \A d \in Databases, o \in Roles \cup {Absent} : WithOwner(c, d, o) \in Copy
         /\ \A ds \in SUBSET Databases : WithPublic(c, ds) \in Copy
         /\ c.public \in SUBSET Databases
BY DEF Copy, WithRole, WithOwner, WithPublic

(* Rows read and amended are rows. *)
LEMMA RowsUpdates ==
  ASSUME NEW c \in Rows
  PROVE  /\ \A r \in Roles, h \in Hashes \cup {Absent} : WithRole(c, r, h) \in Rows
         /\ \A d \in Databases, o \in Roles \cup {Absent} : WithOwner(c, d, o) \in Rows
         /\ \A d \in Databases \cup {Absent} : [c EXCEPT !.creating = d] \in Rows
         /\ \A f \in [Roles -> Hashes \cup {Absent}] : [c EXCEPT !.roles = f] \in Rows
         /\ \A f \in [Databases -> Roles \cup {Absent}] : [c EXCEPT !.owners = f] \in Rows
BY DEF Rows, WithRole, WithOwner

(* Changing a row there is no name for changes nothing. *)
LEMMA NoSuchRow ==
  ASSUME NEW c \in Rows, NEW d, NEW o, d \notin Databases
  PROVE  WithOwner(c, d, o) = c
<1>1. [c.owners EXCEPT ![d] = o] = c.owners
  BY DEF Rows
<1> QED
  BY <1>1 DEF WithOwner, Rows

(* No row at all has the type of rows read. *)
LEMMA NothingSeenType == NothingSeen \in Rows
BY DEF Rows, NothingSeen

(* The bootstrap copy is a copy. *)
LEMMA BootstrapType == BootstrapCopy \in Copy
BY NamesAssumption DEF BootstrapCopy, Copy

(* A SELECT returns rows of the right types. *)
LEMMA ManagedType ==
  ASSUME ClusterTypeOK, NEW n \in Nodes
  PROVE  /\ ManagedRoles(n) \in [Roles -> Hashes \cup {Absent}]
         /\ ManagedDatabases(n) \in [Databases -> Roles \cup {Absent}]
BY DEF ClusterTypeOK, Copy, ManagedRoles, ManagedDatabases

(* A write keeps the type of the copies. *)
LEMMA WriteType ==
  ASSUME ClusterTypeOK, NEW n \in Nodes, NEW c \in Copy, Write(n, c)
  PROVE  pg' \in [Nodes -> Copy]
BY DEF ClusterTypeOK, Write

-----------------------------------------------------------------------------
(* The steps of the environment keep the types of the cluster. *)
LEMMA EnvironmentType ==
  ASSUME ClusterTypeOK
  PROVE  /\ \A p \in Payloads : Publish(p) => ClusterTypeOK'
         /\ \A n \in Nodes : Replicate(n) \/ Failover(n) => ClusterTypeOK'
         /\ \A k \in 0..MaxSync : EditDCS(k) => ClusterTypeOK'
<1>1. ASSUME NEW p \in Payloads, Publish(p) PROVE ClusterTypeOK'
  BY <1>1 DEF ClusterTypeOK, Publish
<1>2. ASSUME NEW n \in Nodes, Replicate(n) PROVE ClusterTypeOK'
  BY <1>2 DEF ClusterTypeOK, Replicate
<1>3. ASSUME NEW n \in Nodes, Failover(n) PROVE ClusterTypeOK'
  BY <1>3 DEF ClusterTypeOK, Failover
<1>4. ASSUME NEW k \in 0..MaxSync, EditDCS(k) PROVE ClusterTypeOK'
  BY <1>4, BoundsAssumption DEF ClusterTypeOK, EditDCS
<1> QED
  BY <1>1, <1>2, <1>3, <1>4

-----------------------------------------------------------------------------
(* TypeOK is inductive. *)

(* The initial states have the types of TypeOK. *)
LEMMA InitType == Init => TypeOK
<1> SUFFICES ASSUME Init PROVE TypeOK
  OBVIOUS
<1> PICK p \in Payloads :
      /\ pub = <<p>>
      /\ leader \in p.nodes
      /\ pg = [n \in Nodes |-> BootstrapCopy]
      /\ dcs = [mode |-> p.sync > 0, count |-> p.sync]
      /\ failovers = 0
      /\ edits = 0
  BY DEF Init, ClusterInit
<1>1. p \in Payload /\ pub \in Seq(Payloads) /\ pub # << >> /\ Latest = 1
  BY PayloadsAssumption DEF Latest
<1>2. leader \in Nodes /\ dcs \in [mode : BOOLEAN, count : 0..MaxSync]
  BY <1>1 DEF Payload
<1>3. failovers \in Nat /\ edits \in 0..MaxEdits /\ 0 \in 0..MaxFaults
  BY BoundsAssumption, FaultsAssumption
<1>4. pg \in [Nodes -> Copy]
  BY BootstrapType
<1>5. ClusterTypeOK
  BY <1>1, <1>2, <1>3, <1>4 DEF ClusterTypeOK
<1>6. AgentTypeOK
  BY <1>1, <1>3, NothingSeenType DEF AgentTypeOK, Init, Locations
<1> QED
  BY <1>5, <1>6 DEF TypeOK

(* A step of an agent before its first write keeps the types. *)
LEMMA ReadType ==
  ASSUME TypeOK, NEW n \in Nodes,
         \/ Fetch(n) \/ FillActualUsers(n) \/ FillActualDatabases(n) \/ FillDCS(n)
         \/ UpdateOnDP(n) \/ DumpToDP(n) \/ SelectUsers(n) \/ SelectDatabases(n)
         \/ Raise(n) \/ Fault(n) \/ Crash(n) \/ Tick(n)
  PROVE  TypeOK'
<1>1. UNCHANGED clusterVars
  BY DEF Fetch, FillActualUsers, FillActualDatabases, FillDCS, UpdateOnDP, DumpToDP,
         SelectUsers, SelectDatabases, Raise, Fault, Crash, Tick
<1>2. ClusterTypeOK'
  BY <1>1 DEF TypeOK, ClusterTypeOK, clusterVars
<1>3. Latest' = Latest /\ Latest \in 1..Latest
  BY <1>1, CurrentType DEF clusterVars, Latest, TypeOK
<1>4. /\ ManagedRoles(n) \in [Roles -> Hashes \cup {Absent}]
      /\ ManagedDatabases(n) \in [Databases -> Roles \cup {Absent}]
  BY ManagedType DEF TypeOK
<1>5. CASE Fetch(n)
  BY <1>2, <1>3, <1>5 DEF TypeOK, AgentTypeOK, Fetch, Goto, Locations, Reading, Writing
<1>6. CASE FillActualUsers(n) \/ FillActualDatabases(n) \/ SelectUsers(n) \/ SelectDatabases(n)
  <2>1. seen' \in [Nodes -> Rows]
    <3>1. seen[n] \in Rows /\ seen \in [Nodes -> Rows]
      BY DEF TypeOK, AgentTypeOK
    <3>2. /\ [seen[n] EXCEPT !.roles = ManagedRoles(n)] \in Rows
          /\ [seen[n] EXCEPT !.owners = ManagedDatabases(n)] \in Rows
      BY <1>4, <3>1, RowsUpdates
    <3>3. CASE FillActualUsers(n) \/ SelectUsers(n)
      BY <3>1, <3>2, <3>3 DEF FillActualUsers, SelectUsers
    <3>4. CASE FillActualDatabases(n) \/ SelectDatabases(n)
      BY <3>1, <3>2, <3>4 DEF FillActualDatabases, SelectDatabases
    <3> QED
      BY <1>6, <3>3, <3>4
  <2>2. pc' \in [Nodes -> Locations]
    BY <1>6 DEF TypeOK, AgentTypeOK, FillActualUsers, FillActualDatabases, SelectUsers,
       SelectDatabases, Goto, Locations, Reading, Writing
  <2>3. UNCHANGED <<ver, meta, cache, faults>>
    BY <1>6 DEF FillActualUsers, FillActualDatabases, SelectUsers, SelectDatabases
  <2> QED
    BY <1>2, <1>3, <2>1, <2>2, <2>3 DEF TypeOK, AgentTypeOK
<1>7. CASE FillDCS(n)
  <2>1. seen' \in [Nodes -> Rows] /\ pc' \in [Nodes -> Locations]
    BY <1>7, NothingSeenType DEF TypeOK, AgentTypeOK, FillDCS, GoIdle, Goto, Locations
  <2>2. UNCHANGED <<ver, meta, cache, faults>>
    BY <1>7 DEF FillDCS
  <2> QED
    BY <1>2, <1>3, <2>1, <2>2 DEF TypeOK, AgentTypeOK
<1>8. CASE UpdateOnDP(n) \/ DumpToDP(n)
  BY <1>2, <1>3, <1>8 DEF TypeOK, AgentTypeOK, UpdateOnDP, DumpToDP, AskPrimary, Goto,
     Locations, Reading, Writing
<1>9. CASE Raise(n) \/ Fault(n) \/ Crash(n)
  <2>1. /\ pc' \in [Nodes -> Locations]
        /\ seen' \in [Nodes -> Rows]
    BY <1>9, NothingSeenType
       DEF TypeOK, AgentTypeOK, Raise, Fault, Crash, GoIdle, Goto, Locations
  <2>2. cache' \in [Nodes -> {"unknown", "primary", "replica"}]
    BY <1>9 DEF TypeOK, AgentTypeOK, Raise, Fault, Crash
  <2>3. faults' \in 0..MaxFaults
    BY <1>9, FaultsAssumption DEF TypeOK, AgentTypeOK, Raise, Fault, Crash
  <2>4. ver' = ver /\ meta' = meta
    BY <1>9 DEF Raise, Fault, Crash
  <2> QED
    BY <1>2, <1>3, <2>1, <2>2, <2>3, <2>4 DEF TypeOK, AgentTypeOK
<1>10. CASE Tick(n)
  BY <1>2, <1>3, <1>10 DEF TypeOK, AgentTypeOK, Tick
<1> QED
  BY <1>5, <1>6, <1>7, <1>8, <1>9, <1>10

(* A step of an agent that writes keeps the types. *)
LEMMA WriteStepType ==
  ASSUME TypeOK, NEW n \in Nodes, Dump(n) \/ Save(n) \/ DeleteFromDP(n)
  PROVE  TypeOK'
<1>0. /\ pg[n] \in Copy
      /\ Target(n) \in Payload
      /\ NodesNumber(Target(n)) \in Nat
  BY TargetType, NodesNumberType DEF TypeOK, ClusterTypeOK
<1>1. CASE ReconcileDCS(n)
  <2>1. dcs' \in [mode : BOOLEAN, count : 0..MaxSync]
    BY <1>0, <1>1 DEF ReconcileDCS, SyncEnabled, Payload
  <2> QED
    BY <1>1, <2>1 DEF TypeOK, ClusterTypeOK, AgentTypeOK, ReconcileDCS, Goto, Latest,
       Locations, Writing
<1>2. CASE SelectUsers(n) \/ SelectDatabases(n)
  BY <1>2, ReadType
<1>3. ASSUME NEW r \in Roles, ApplyUser(n, r) \/ DropUser(n, r)
      PROVE  TypeOK'
  <2>1. Target(n).users[r] \in Hashes \cup {Absent}
    BY <1>0 DEF Payload
  <2>2. pg' \in [Nodes -> Copy]
    <3>1. CASE ApplyUser(n, r)
      BY <1>0, <2>1, <3>1, CopyUpdates, WriteType DEF ApplyUser, TypeOK
    <3>2. CASE DropUser(n, r)
      BY <1>0, <2>1, <3>2, CopyUpdates, WriteType DEF DropUser, TypeOK, ClusterTypeOK
    <3> QED
      BY <1>3, <3>1, <3>2
  <2>3. seen' \in [Nodes -> Rows]
    BY <1>3, <2>1, RowsUpdates DEF ApplyUser, DropUser, MarkRole, TypeOK, AgentTypeOK
  <2>4. UNCHANGED <<pub, leader, dcs, failovers, edits, pc, ver, meta, cache, faults>>
    BY <1>3 DEF ApplyUser, DropUser
  <2> QED
    BY <2>2, <2>3, <2>4 DEF TypeOK, ClusterTypeOK, AgentTypeOK, Latest
<1>4. ASSUME NEW d \in Databases,
             AlterDatabaseOwner(n, d) \/ CreateDatabase(n, d) \/ DropDatabase(n, d)
      PROVE  TypeOK'
  <2>1. Target(n).databases[d] \in Roles \cup {Absent}
    BY <1>0 DEF Payload
  <2>2. DEFINE c == WithOwner(pg[n], d, Target(n).databases[d])
               e == WithOwner(pg[n], d, Absent)
  <2>3. pg' \in [Nodes -> Copy]
    <3>1. /\ c \in Copy
          /\ WithPublic(c, pg[n].public \cup {d}) \in Copy
          /\ WithPublic(e, pg[n].public \ {d}) \in Copy
      BY <1>0, <2>1, CopyUpdates
    <3>2. CASE AlterDatabaseOwner(n, d)
      BY <3>1, <3>2, WriteType DEF AlterDatabaseOwner, TypeOK
    <3>3. CASE CreateDatabase(n, d)
      BY <3>1, <3>3, WriteType DEF CreateDatabase, TypeOK
    <3>4. CASE DropDatabase(n, d)
      BY <3>1, <3>4, WriteType DEF DropDatabase, TypeOK
    <3> QED
      BY <1>4, <3>2, <3>3, <3>4
  <2>4. seen' \in [Nodes -> Rows]
    BY <1>4, <2>1, RowsUpdates DEF AlterDatabaseOwner, CreateDatabase, DropDatabase,
       MarkDatabase, TypeOK, AgentTypeOK
  <2>5. pc' \in [Nodes -> Locations]
    BY <1>4 DEF AlterDatabaseOwner, CreateDatabase, DropDatabase, Goto, TypeOK,
       AgentTypeOK, Locations, Writing
  <2>6. UNCHANGED <<pub, leader, dcs, failovers, edits, ver, meta, cache, faults>>
    BY <1>4 DEF AlterDatabaseOwner, CreateDatabase, DropDatabase
  <2> QED
    BY <2>3, <2>4, <2>5, <2>6 DEF TypeOK, ClusterTypeOK, AgentTypeOK, Latest
<1>5. CASE RevokeConnect(n)
  <2> DEFINE d == seen[n].creating
  <2>1. WithPublic(pg[n], pg[n].public \ {d}) \in Copy
    BY <1>0, CopyUpdates
  <2>2. pg' \in [Nodes -> Copy]
    BY <1>5, <2>1, WriteType DEF RevokeConnect, TypeOK
  <2>3. d \in Databases => Target(n).databases[d] \in Roles \cup {Absent}
    BY <1>0 DEF Payload
  <2>4. seen' \in [Nodes -> Rows]
    <3>1. seen[n] \in Rows /\ Absent \in Databases \cup {Absent}
      BY DEF TypeOK, AgentTypeOK
    <3>2. WithOwner(seen[n], d, Target(n).databases[d]) \in Rows
      BY <2>3, <3>1, NoSuchRow, RowsUpdates
    <3> QED
      BY <1>5, <3>1, <3>2, RowsUpdates DEF RevokeConnect, TypeOK, AgentTypeOK
  <2>5. pc' \in [Nodes -> Locations]
    BY <1>5 DEF RevokeConnect, Goto, TypeOK, AgentTypeOK, Locations, Writing
  <2>6. UNCHANGED <<pub, leader, dcs, failovers, edits, ver, meta, cache, faults>>
    BY <1>5 DEF RevokeConnect
  <2> QED
    BY <2>2, <2>4, <2>5, <2>6 DEF TypeOK, ClusterTypeOK, AgentTypeOK, Latest
<1>6. CASE Save(n)
  <2>1. meta' \in [Nodes -> Nat]
    BY <1>0, <1>6 DEF Save, TypeOK, AgentTypeOK
  <2> QED
    BY <1>6, <2>1, NothingSeenType DEF Save, GoIdle, Goto, TypeOK, ClusterTypeOK,
       AgentTypeOK, clusterVars, Latest, Locations
<1>7. CASE DeleteFromDP(n)
  BY <1>7 DEF DeleteFromDP, AskPrimary, GoIdle, Goto, TypeOK, ClusterTypeOK, AgentTypeOK,
     clusterVars, Latest, Locations, Rows, NothingSeen
<1> QED
  BY <1>1, <1>2, <1>3, <1>4, <1>5, <1>6, <1>7 DEF Dump

(* A step of the environment keeps the types. *)
LEMMA EnvironmentStepType == TypeOK /\ Environment => TypeOK'
<1> SUFFICES ASSUME TypeOK, Environment PROVE TypeOK'
  OBVIOUS
<1>1. ASSUME NEW p \in Payloads, PublishPayload(p) PROVE TypeOK'
  <2>1. ClusterTypeOK'
    BY <1>1, EnvironmentType DEF PublishPayload, TypeOK
  <2>2. Latest \in Nat /\ Latest' = Latest + 1
    BY <1>1, CurrentType DEF PublishPayload, Publish, Latest, TypeOK, ClusterTypeOK
  <2>3. ver' \in [Nodes -> 1..Latest'] /\ faults' \in 0..MaxFaults
    BY <1>1, <2>2 DEF PublishPayload, TypeOK, AgentTypeOK
  <2>4. /\ pc' \in [Nodes -> Locations]
        /\ seen' \in [Nodes -> Rows]
        /\ meta' \in [Nodes -> Nat]
        /\ cache' \in [Nodes -> {"unknown", "primary", "replica"}]
    BY <1>1, NothingSeenType DEF PublishPayload, TypeOK, AgentTypeOK, Locations
  <2> QED
    BY <2>1, <2>3, <2>4 DEF TypeOK, AgentTypeOK
<1>2. ASSUME \/ \E n \in Nodes : Replicate(n) \/ Failover(n)
             \/ \E k \in 0..MaxSync : EditDCS(k),
             UNCHANGED agentVars
      PROVE  TypeOK'
  <2>1. ClusterTypeOK'
    BY <1>2, EnvironmentType DEF TypeOK
  <2>2. Latest' = Latest
    BY <1>2 DEF Replicate, Failover, EditDCS, Latest
  <2> QED
    BY <1>2, <2>1, <2>2 DEF TypeOK, AgentTypeOK, agentVars
<1> QED
  BY <1>1, <1>2 DEF Environment

(* A step keeps the types of TypeOK. *)
LEMMA StepType == TypeOK /\ [Next]_vars => TypeOK'
<1> SUFFICES ASSUME TypeOK, [Next]_vars PROVE TypeOK'
  OBVIOUS
<1>1. ASSUME NEW n \in Nodes, Step(n) \/ Fault(n) \/ Crash(n) \/ Tick(n)
      PROVE  TypeOK'
  BY <1>1, ReadType, WriteStepType DEF Step
<1>2. CASE Environment
  BY <1>2, EnvironmentStepType
<1>3. CASE UNCHANGED vars
  BY <1>3 DEF vars, clusterVars, agentVars, TypeOK, ClusterTypeOK, AgentTypeOK, Latest
<1> QED
  BY <1>1, <1>2, <1>3 DEF Next

(* TypeOK holds in every reachable state, for every value of the constants. *)
THEOREM TypeCorrect == Spec => []TypeOK
BY InitType, StepType, PTL DEF Spec

-----------------------------------------------------------------------------
(* The rows an agent works from. *)

(* Nothing that only changes the cluster, or one agent, can harm the others. *)
LEMMA RowsOfOthers ==
  ASSUME RowsManaged, TypeOK, NEW n \in Nodes,
         \A m \in Nodes \ {n} :
           pc'[m] = pc[m] /\ seen'[m] = seen[m] /\ Target(m)' = Target(m),
         \A r \in SystemRoles : seen'[n].roles[r] = Absent,
         \A d \in SystemDatabases : seen'[n].owners[d] = Absent,
         pc'[n] = "revoke" =>
           /\ seen'[n].creating \in Databases \ SystemDatabases
           /\ Target(n)'.databases[seen'[n].creating] # Absent
  PROVE  RowsManaged'
BY DEF RowsManaged

(* A step of an agent keeps its rows managed. *)
LEMMA StepRows ==
  ASSUME TypeOK, RowsManaged, SystemObjectsKept, NEW n \in Nodes,
         Step(n) \/ Fault(n) \/ Crash(n) \/ Tick(n)
  PROVE  RowsManaged'
<1>0. /\ seen \in [Nodes -> Rows] /\ seen[n] \in Rows
      /\ pc \in [Nodes -> Locations] /\ ver \in [Nodes -> 1..Latest]
      /\ SystemRoles \subseteq Roles /\ SystemDatabases \subseteq Databases
      /\ pg[n] \in Copy
      /\ Target(n) \in Payloads /\ Target(n) \in Payload
  BY NamesAssumption, TargetType DEF TypeOK, ClusterTypeOK, AgentTypeOK
<1>1. /\ \A r \in SystemRoles : seen[n].roles[r] = Absent /\ Target(n).users[r] = Absent
      /\ \A d \in SystemDatabases : seen[n].owners[d] = Absent
  BY <1>0, PayloadsAssumption DEF ValidNames, RowsManaged
<1>2. CASE Fetch(n)
  BY <1>0, <1>1, <1>2, RowsOfOthers DEF Fetch, Goto, clusterVars, Target
<1>3. CASE FillActualUsers(n) \/ SelectUsers(n)
  <2>1. \A r \in SystemRoles : seen'[n].roles[r] = Absent
    BY <1>0, <1>3 DEF FillActualUsers, SelectUsers, ManagedRoles, Rows
  <2>2. \A d \in SystemDatabases : seen'[n].owners[d] = Absent
    BY <1>0, <1>1, <1>3 DEF FillActualUsers, SelectUsers, Rows
  <2> QED
    BY <1>0, <1>3, <2>1, <2>2, RowsOfOthers
       DEF FillActualUsers, SelectUsers, Goto, clusterVars, Target
<1>4. CASE FillActualDatabases(n) \/ SelectDatabases(n)
  <2>1. \A d \in SystemDatabases : seen'[n].owners[d] = Absent
    BY <1>0, <1>4 DEF FillActualDatabases, SelectDatabases, ManagedDatabases, Rows
  <2>2. \A r \in SystemRoles : seen'[n].roles[r] = Absent
    BY <1>0, <1>1, <1>4 DEF FillActualDatabases, SelectDatabases, Rows
  <2> QED
    BY <1>0, <1>4, <2>1, <2>2, RowsOfOthers
       DEF FillActualDatabases, SelectDatabases, Goto, clusterVars, Target
<1>5. CASE Raise(n) \/ Fault(n) \/ Crash(n) \/ Save(n) \/ DeleteFromDP(n)
           \/ (FillDCS(n) /\ GoIdle(n))
  <2>1. GoIdle(n) /\ UNCHANGED <<pub, ver>>
    BY <1>5 DEF Raise, Fault, Crash, Save, DeleteFromDP, FillDCS, clusterVars
  <2>2. /\ \A r \in SystemRoles : seen'[n].roles[r] = Absent
        /\ \A d \in SystemDatabases : seen'[n].owners[d] = Absent
    BY <1>0, <2>1 DEF GoIdle, NothingSeen
  <2> QED
    BY <1>0, <2>1, <2>2, RowsOfOthers DEF GoIdle, Goto, Target
<1>6. CASE \/ UpdateOnDP(n) \/ DumpToDP(n) \/ ReconcileDCS(n)
           \/ (FillDCS(n) /\ Goto(n, "update") /\ UNCHANGED seen)
  <2>1. /\ UNCHANGED <<pub, ver, seen>>
        /\ \E l \in Locations \ {"revoke"} : pc' = [pc EXCEPT ![n] = l]
    BY <1>6 DEF UpdateOnDP, DumpToDP, ReconcileDCS, FillDCS, Goto, clusterVars,
       Locations, Writing
  <2> QED
    BY <1>0, <1>1, <2>1, RowsOfOthers DEF Target
<1>7. CASE Tick(n)
  BY <1>7 DEF Tick, RowsManaged, Target, clusterVars
<1>8. ASSUME NEW r \in Roles, ApplyUser(n, r) \/ DropUser(n, r)
      PROVE  RowsManaged'
  <2>1. /\ UNCHANGED <<pub, ver, pc>>
        /\ pc[n] = "users"
        /\ seen' = [seen EXCEPT ![n] = WithRole(seen[n], r, Target(n).users[r])]
    BY <1>8 DEF ApplyUser, DropUser, MarkRole
  <2>2. /\ \A s \in SystemRoles : seen'[n].roles[s] = Absent
        /\ \A d \in SystemDatabases : seen'[n].owners[d] = Absent
    BY <1>0, <1>1, <2>1 DEF WithRole, Rows
  <2> QED
    BY <1>0, <2>1, <2>2, RowsOfOthers DEF Target
<1>9. ASSUME NEW d \in Databases, AlterDatabaseOwner(n, d) \/ DropDatabase(n, d)
      PROVE  RowsManaged'
  <2>1. /\ UNCHANGED <<pub, ver, pc>>
        /\ pc[n] = "databases"
        /\ seen[n].owners[d] # Absent
        /\ seen' = [seen EXCEPT ![n] = WithOwner(seen[n], d, Target(n).databases[d])]
    BY <1>9 DEF AlterDatabaseOwner, DropDatabase, MarkDatabase, DatabasesToDrop
  <2>2. d \notin SystemDatabases
    BY <1>1, <2>1
  <2>3. /\ \A s \in SystemRoles : seen'[n].roles[s] = Absent
        /\ \A e \in SystemDatabases : seen'[n].owners[e] = Absent
    BY <1>0, <1>1, <2>1, <2>2 DEF WithOwner, Rows
  <2> QED
    BY <1>0, <2>1, <2>3, RowsOfOthers DEF Target
<1>10. ASSUME NEW d \in Databases, CreateDatabase(n, d)
       PROVE  RowsManaged'
  <2>1. /\ UNCHANGED <<pub, ver>>
        /\ pc' = [pc EXCEPT ![n] = "revoke"]
        /\ pg[n].owners[d] = Absent
        /\ Target(n).databases[d] # Absent
        /\ seen' = [seen EXCEPT ![n] = [seen[n] EXCEPT !.creating = d]]
    BY <1>10 DEF CreateDatabase, DatabaseStatementOK, DatabasesToApply, Goto
  <2>2. d \notin SystemDatabases
    BY <2>1, NamesAssumption DEF SystemObjectsKept
  <2>3. seen'[n] = [seen[n] EXCEPT !.creating = d]
    BY <1>0, <2>1
  <2>4. /\ seen'[n].creating = d
        /\ seen'[n].roles = seen[n].roles
        /\ seen'[n].owners = seen[n].owners
    BY <1>0, <2>3 DEF Rows
  <2>5. Target(n)' = Target(n)
    BY <2>1 DEF Target
  <2>6. \A m \in Nodes \ {n} :
          pc'[m] = pc[m] /\ seen'[m] = seen[m] /\ Target(m)' = Target(m)
    BY <1>0, <2>1 DEF Target
  <2> QED
    BY <1>1, <2>1, <2>2, <2>4, <2>5, <2>6, RowsOfOthers
<1>11. CASE RevokeConnect(n)
  <2> DEFINE d == seen[n].creating
  <2>1. /\ UNCHANGED <<pub, ver>>
        /\ pc[n] = "revoke"
        /\ pc' = [pc EXCEPT ![n] = "databases"]
        /\ seen' = [seen EXCEPT ![n] = [WithOwner(seen[n], d, Target(n).databases[d])
                                         EXCEPT !.creating = Absent]]
    BY <1>11 DEF RevokeConnect, Goto
  <2>2. d \in Databases \ SystemDatabases
    BY <2>1 DEF RowsManaged
  <2>3. /\ \A s \in SystemRoles : seen'[n].roles[s] = Absent
        /\ \A e \in SystemDatabases : seen'[n].owners[e] = Absent
    BY <1>0, <1>1, <2>1, <2>2 DEF WithOwner, Rows
  <2> QED
    BY <1>0, <2>1, <2>3, RowsOfOthers DEF Target
<1> QED
  BY <1>2, <1>3, <1>4, <1>5, <1>6, <1>7, <1>8, <1>9, <1>10, <1>11 DEF Step, Dump, FillDCS

(* A published payload keeps its place. *)
LEMMA PublishedStays ==
  ASSUME ClusterTypeOK, NEW p \in Payloads, Publish(p)
  PROVE  /\ Latest' = Latest + 1
         /\ \A i \in 1..Latest : pub'[i] = pub[i]
BY DEF ClusterTypeOK, Publish, Latest

(* A step of the environment keeps the rows managed. *)
LEMMA EnvironmentRows ==
  ASSUME TypeOK, RowsManaged, Environment
  PROVE  RowsManaged'
<1>1. ASSUME NEW p \in Payloads, PublishPayload(p) PROVE RowsManaged'
  <2>1. \A n \in Nodes : Target(n)' = Target(n)
    BY <1>1, PublishedStays DEF PublishPayload, TypeOK, AgentTypeOK, Target
  <2>2. \A n \in Nodes : \/ pc'[n] = "idle" /\ seen'[n] = NothingSeen
                         \/ pc'[n] = pc[n] /\ seen'[n] = seen[n]
    BY <1>1 DEF PublishPayload
  <2>3. /\ \A r \in SystemRoles : NothingSeen.roles[r] = Absent
        /\ \A d \in SystemDatabases : NothingSeen.owners[d] = Absent
    BY NamesAssumption DEF NothingSeen
  <2> QED
    BY <2>1, <2>2, <2>3 DEF RowsManaged
<1>2. CASE UNCHANGED agentVars /\ pub' = pub
  BY <1>2 DEF agentVars, RowsManaged, Target
<1> QED
  BY <1>1, <1>2 DEF Environment, Replicate, Failover, EditDCS

-----------------------------------------------------------------------------
(* The managed cluster is an instance with this module's own variables, so that
   what it takes from PGCluster means the same here and there. *)
LEMMA SameCluster ==
  /\ Managed!Latest = Latest
  /\ Managed!Current = Current
  /\ Managed!clusterVars = clusterVars
  /\ \A n, c : Managed!Write(n, c) <=> Write(n, c)
  /\ \A c, r, h : Managed!WithRole(c, r, h) = WithRole(c, r, h)
  /\ \A c, d, o : Managed!WithOwner(c, d, o) = WithOwner(c, d, o)
  /\ \A c, ds : Managed!WithPublic(c, ds) = WithPublic(c, ds)
  /\ \A p : Managed!SyncEnabled(p) = SyncEnabled(p)
<1>1. /\ Managed!Latest = Latest
      /\ Managed!Current = Current
      /\ Managed!clusterVars = clusterVars
  BY DEF Managed!Latest, Latest, Managed!Current, Current, Managed!clusterVars, clusterVars
<1>2. Managed!Acknowledged <=> Acknowledged
  BY <1>1 DEF Managed!Acknowledged, Acknowledged
<1>3. \A n, c : Managed!Write(n, c) <=> Write(n, c)
  BY <1>2 DEF Managed!Write, Write
<1>4. /\ \A c, r, h : Managed!WithRole(c, r, h) = WithRole(c, r, h)
      /\ \A c, d, o : Managed!WithOwner(c, d, o) = WithOwner(c, d, o)
      /\ \A c, ds : Managed!WithPublic(c, ds) = WithPublic(c, ds)
  BY DEF Managed!WithRole, WithRole, Managed!WithOwner, WithOwner,
     Managed!WithPublic, WithPublic
<1>5. \A p : Managed!SyncEnabled(p) = SyncEnabled(p)
  <2>1. \A p : Managed!NodesNumber(p) = NodesNumber(p)
    BY DEF Managed!NodesNumber, NodesNumber, Managed!Cardinality, Cardinality
  <2> QED
    BY <2>1, Zenon DEF Managed!SyncEnabled, SyncEnabled
<1> QED
  BY <1>1, <1>3, <1>4, <1>5

(* So do the steps of the environment. *)
LEMMA SameEnvironment ==
  /\ \A p \in Payloads : Managed!Publish(p) <=> Publish(p)
  /\ \A n \in Nodes : /\ Managed!Replicate(n) <=> Replicate(n)
                      /\ Managed!Failover(n) <=> Failover(n)
  /\ \A k \in 0..MaxSync : Managed!EditDCS(k) <=> EditDCS(k)
<1>1. \A p \in Payloads : Managed!Publish(p) <=> Publish(p)
  BY SameCluster DEF Managed!Publish, Publish
<1>2. \A n \in Nodes : Managed!Replicate(n) <=> Replicate(n)
  BY DEF Managed!Replicate, Replicate
<1>3. \A n \in Nodes : Managed!Failover(n) <=> Failover(n)
  BY SameCluster DEF Managed!Failover, Failover
<1>4. \A k \in 0..MaxSync : Managed!EditDCS(k) <=> EditDCS(k)
  BY DEF Managed!EditDCS, EditDCS
<1> QED
  BY <1>1, <1>2, <1>3, <1>4

(* Every step of the agents is a step of the managed cluster, or changes
   nothing of it. *)
LEMMA StepSimulated ==
  ASSUME TypeOK, RowsManaged, SystemObjectsKept, NEW n \in Nodes,
         Step(n) \/ Fault(n) \/ Crash(n) \/ Tick(n)
  PROVE  [Managed!Next]_<<clusterVars, ver>>
<1>0. /\ Managed!Adopted(n) = Target(n)
      /\ \A r \in SystemRoles : Target(n).users[r] = Absent /\ seen[n].roles[r] = Absent
      /\ \A d \in SystemDatabases : seen[n].owners[d] = Absent /\ pg[n].owners[d] # Absent
  BY TargetType, PayloadsAssumption, NamesAssumption
     DEF ValidNames, Managed!Adopted, Target, RowsManaged, SystemObjectsKept
<1>1. CASE Fetch(n)
  <2>1. ver' = [ver EXCEPT ![n] = Latest] /\ UNCHANGED clusterVars
    BY <1>1 DEF Fetch
  <2>2. Managed!Adopt(n)
    BY <2>1, SameCluster DEF Managed!Adopt, Managed!clusterVars, clusterVars
  <2> QED
    BY <2>2 DEF Managed!Next
<1>2. CASE ReconcileDCS(n)
  BY <1>0, <1>2, SameCluster DEF ReconcileDCS, Managed!Next, Managed!Configure
<1>3. CASE \/ FillActualUsers(n) \/ FillActualDatabases(n) \/ FillDCS(n)
           \/ UpdateOnDP(n) \/ DumpToDP(n) \/ SelectUsers(n) \/ SelectDatabases(n)
           \/ Save(n) \/ DeleteFromDP(n) \/ Raise(n) \/ Fault(n) \/ Crash(n) \/ Tick(n)
  BY <1>3 DEF FillActualUsers, FillActualDatabases, FillDCS, UpdateOnDP, DumpToDP,
     SelectUsers, SelectDatabases, Save, DeleteFromDP, Raise, Fault, Crash, Tick
<1>4. ASSUME NEW r \in Roles, ApplyUser(n, r)
      PROVE  Managed!Statement(n)
  <2>1. r \in Roles \ SystemRoles /\ Target(n).users[r] # Absent
    BY <1>0, <1>4 DEF ApplyUser, UsersToApply
  <2>2. Managed!SetRole(n, r)
    BY <1>0, <1>4, <2>1, SameCluster DEF ApplyUser, Managed!SetRole, Managed!Execute
  <2> QED
    BY <2>1, <2>2 DEF Managed!Statement
<1>5. ASSUME NEW r \in Roles, DropUser(n, r)
      PROVE  Managed!Statement(n) \/ UNCHANGED <<clusterVars, ver>>
  <2>1. r \in Roles \ SystemRoles /\ Target(n).users[r] = Absent
    BY <1>0, <1>5 DEF DropUser, UsersToDrop
  <2>2. CASE UNCHANGED pg
    BY <1>5, <2>2 DEF DropUser, clusterVars
  <2>3. CASE /\ \A d \in Databases : pg[n].owners[d] # r
             /\ Write(n, WithRole(pg[n], r, Absent))
    BY <1>0, <1>5, <2>1, <2>3, SameCluster
       DEF DropUser, Managed!DropRole, Managed!Execute, Managed!Statement
  <2> QED
    BY <1>5, <2>2, <2>3 DEF DropUser
<1>6. ASSUME NEW d \in Databases, AlterDatabaseOwner(n, d)
      PROVE  Managed!Statement(n)
  <2>1. d \in Databases \ SystemDatabases /\ Target(n).databases[d] # Absent
    BY <1>0, <1>6 DEF AlterDatabaseOwner, DatabasesToApply
  <2>2. Managed!SetOwner(n, d)
    BY <1>0, <1>6, <2>1, SameCluster
       DEF AlterDatabaseOwner, DatabaseStatementOK, Managed!SetOwner, Managed!Execute
  <2> QED
    BY <2>1, <2>2 DEF Managed!Statement
<1>7. ASSUME NEW d \in Databases, CreateDatabase(n, d)
      PROVE  Managed!Statement(n)
  <2>1. /\ Target(n).databases[d] # Absent
        /\ pg[n].owners[d] = Absent
    BY <1>7 DEF CreateDatabase, DatabasesToApply, DatabaseStatementOK
  <2>2. d \in Databases \ SystemDatabases
    BY <1>0, <2>1
  <2>3. Managed!SetOwner(n, d)
    BY <1>0, <1>7, <2>1, SameCluster
       DEF CreateDatabase, DatabaseStatementOK, Managed!SetOwner, Managed!Execute
  <2> QED
    BY <2>2, <2>3 DEF Managed!Statement
<1>8. CASE RevokeConnect(n)
  <2> DEFINE d == seen[n].creating
  <2>1. d \in Databases \ SystemDatabases /\ Target(n).databases[d] # Absent
    BY <1>8 DEF RevokeConnect, RowsManaged
  <2>2. Managed!CloseDatabase(n, d)
    BY <1>0, <1>8, <2>1, SameCluster DEF RevokeConnect, Managed!CloseDatabase, Managed!Execute
  <2> QED
    BY <2>1, <2>2 DEF Managed!Statement, Managed!Next
<1>9. ASSUME NEW d \in Databases, DropDatabase(n, d)
      PROVE  Managed!Statement(n)
  <2>1. d \in Databases \ SystemDatabases /\ Target(n).databases[d] = Absent
    BY <1>0, <1>9 DEF DropDatabase, DatabasesToDrop
  <2>2. Managed!DropDatabase(n, d)
    BY <1>0, <1>9, <2>1, SameCluster DEF DropDatabase, Managed!DropDatabase, Managed!Execute
  <2> QED
    BY <2>1, <2>2 DEF Managed!Statement
<1> QED
  BY <1>1, <1>2, <1>3, <1>4, <1>5, <1>6, <1>7, <1>8, <1>9 DEF Step, Dump, Managed!Next

(* Next, seen as steps of the managed cluster. *)
LEMMA NextSimulated ==
  ASSUME TypeOK, RowsManaged, SystemObjectsKept, [Next]_vars
  PROVE  [Managed!Next]_<<clusterVars, ver>>
<1>1. CASE Environment
  BY <1>1, SameEnvironment
     DEF Environment, PublishPayload, agentVars, Managed!Next, Managed!Environment
<1>2. CASE UNCHANGED vars
  BY <1>2 DEF vars, agentVars
<1> QED
  BY <1>1, <1>2, StepSimulated DEF Next

-----------------------------------------------------------------------------
(* What a step of the managed cluster can do to the copies: each role and each
   database of a node is as it was on some node, or is not reserved and is now
   missing or what that node's target says. *)
RoleJustified(m, k, r) ==
  \/ pg'[m].roles[r] = pg[k].roles[r]
  \/ r \notin SystemRoles /\ pg'[m].roles[r] \in {Absent, Target(k).users[r]}

DatabaseJustified(m, k, d) ==
  \/ pg'[m].owners[d] = pg[k].owners[d]
  \/ d \notin SystemDatabases /\ pg'[m].owners[d] \in {Absent, Target(k).databases[d]}

CopyJustified(m) ==
  \E k \in Nodes : /\ \A r \in Roles : RoleJustified(m, k, r)
                   /\ \A d \in Databases : DatabaseJustified(m, k, d)

(* A copy taken over from some node is justified. *)
LEMMA CopyTaken ==
  ASSUME NEW m \in Nodes, NEW k \in Nodes, pg'[m] = pg[k]
  PROVE  CopyJustified(m)
BY DEF CopyJustified, RoleJustified, DatabaseJustified

(* A statement on one role or database leaves the others as they are. *)
LEMMA StatementJustified ==
  ASSUME TypeOK, NEW n \in Nodes, Managed!Statement(n), NEW m \in Nodes
  PROVE  CopyJustified(m)
<1>0. /\ pg \in [Nodes -> Copy] /\ pg[n] \in Copy
      /\ Managed!Adopted(n) = Target(n)
  BY DEF TypeOK, ClusterTypeOK, Managed!Adopted, Target
<1>1. ASSUME NEW c, Write(n, c), m # n PROVE CopyJustified(m)
  BY <1>0, <1>1, CopyTaken DEF Write
<1>2. ASSUME NEW r \in Roles \ SystemRoles, NEW h \in {Absent, Target(n).users[r]},
             Write(n, WithRole(pg[n], r, h))
      PROVE  CopyJustified(n)
  <2>1. pg'[n] = WithRole(pg[n], r, h)
    BY <1>0, <1>2 DEF Write
  <2>2. /\ \A s \in Roles : pg'[n].roles[s] = IF s = r THEN h ELSE pg[n].roles[s]
        /\ pg'[n].owners = pg[n].owners
    BY <1>0, <2>1 DEF WithRole, Copy
  <2> QED
    BY <1>2, <2>2 DEF CopyJustified, RoleJustified, DatabaseJustified
<1>3. ASSUME NEW d \in Databases \ SystemDatabases,
             NEW o \in {Absent, Target(n).databases[d]}, NEW ds,
             \/ Write(n, WithOwner(pg[n], d, o))
             \/ Write(n, WithPublic(WithOwner(pg[n], d, o), ds))
      PROVE  CopyJustified(n)
  <2>1. \/ pg'[n] = WithOwner(pg[n], d, o)
        \/ pg'[n] = WithPublic(WithOwner(pg[n], d, o), ds)
    BY <1>0, <1>3 DEF Write
  <2>2. /\ \A e \in Databases : pg'[n].owners[e] = IF e = d THEN o ELSE pg[n].owners[e]
        /\ pg'[n].roles = pg[n].roles
    BY <1>0, <2>1 DEF WithOwner, WithPublic, Copy
  <2> QED
    BY <1>3, <2>2 DEF CopyJustified, RoleJustified, DatabaseJustified
<1>4. ASSUME NEW ds, Write(n, WithPublic(pg[n], ds))
      PROVE  CopyJustified(n)
  <2>1. pg'[n] = WithPublic(pg[n], ds)
    BY <1>0, <1>4 DEF Write
  <2>2. pg'[n].roles = pg[n].roles /\ pg'[n].owners = pg[n].owners
    BY <1>0, <2>1 DEF WithPublic, Copy
  <2> QED
    BY <2>2 DEF CopyJustified, RoleJustified, DatabaseJustified
<1>5. ASSUME NEW r \in Roles \ SystemRoles, Managed!SetRole(n, r) \/ Managed!DropRole(n, r)
      PROVE  CopyJustified(m)
  BY <1>0, <1>1, <1>2, <1>5, SameCluster
     DEF Managed!SetRole, Managed!DropRole, Managed!Execute
<1>6. ASSUME NEW d \in Databases \ SystemDatabases,
             \/ Managed!SetOwner(n, d) \/ Managed!CloseDatabase(n, d)
             \/ Managed!DropDatabase(n, d)
      PROVE  CopyJustified(m)
  BY <1>0, <1>1, <1>3, <1>4, <1>6, SameCluster
     DEF Managed!SetOwner, Managed!CloseDatabase, Managed!DropDatabase, Managed!Execute
<1> QED
  BY <1>5, <1>6 DEF Managed!Statement

(* Every step changes every copy in a justified way and forgets no payload. *)
LEMMA NextJustified ==
  ASSUME TypeOK, [Managed!Next]_<<clusterVars, ver>>
  PROVE  /\ \A m \in Nodes : CopyJustified(m)
         /\ Latest' \in Nat /\ Latest <= Latest'
         /\ \A i \in 1..Latest : pub'[i] = pub[i]
<1>0. ClusterTypeOK /\ Latest \in Nat /\ leader \in Nodes /\ pg \in [Nodes -> Copy]
  BY CurrentType DEF TypeOK, ClusterTypeOK
<1>1. ASSUME NEW p \in Payloads, Publish(p)
      PROVE  /\ \A m \in Nodes : CopyJustified(m)
             /\ Latest' \in Nat /\ Latest <= Latest'
             /\ \A i \in 1..Latest : pub'[i] = pub[i]
  <2>1. \A m \in Nodes : pg'[m] = pg[leader] \/ pg'[m] = pg[m]
    BY <1>1 DEF Publish
  <2> QED
    BY <1>0, <1>1, <2>1, CopyTaken, PublishedStays
<1>2. ASSUME NEW n \in Nodes, Replicate(n) \/ Failover(n)
      PROVE  \A m \in Nodes : CopyJustified(m)
  <2>1. \A m \in Nodes : pg'[m] = pg[leader] \/ pg'[m] = pg[m]
    BY <1>0, <1>2 DEF Replicate, Failover
  <2> QED
    BY <1>0, <2>1, CopyTaken
<1>3. ASSUME UNCHANGED pg PROVE \A m \in Nodes : CopyJustified(m)
  BY <1>3, CopyTaken
<1>4. ASSUME UNCHANGED pub
      PROVE  /\ Latest' \in Nat /\ Latest <= Latest'
             /\ \A i \in 1..Latest : pub'[i] = pub[i]
  BY <1>0, <1>4 DEF Latest
<1>5. CASE Managed!Environment
  BY <1>1, <1>2, <1>3, <1>4, <1>5, SameEnvironment
     DEF Managed!Environment, Replicate, Failover, EditDCS
<1>6. ASSUME NEW n \in Nodes, Managed!Statement(n)
      PROVE  UNCHANGED pub
  BY <1>6 DEF Managed!Statement, Managed!SetRole, Managed!DropRole, Managed!SetOwner,
     Managed!CloseDatabase, Managed!DropDatabase, Managed!Execute
<1>7. ASSUME NEW n \in Nodes, Managed!Adopt(n) \/ Managed!Configure(n)
      PROVE  UNCHANGED <<pub, pg>>
  BY <1>7 DEF Managed!Adopt, Managed!Configure, Managed!clusterVars
<1> QED
  BY <1>3, <1>4, <1>5, <1>6, <1>7, StatementJustified DEF Managed!Next, clusterVars

-----------------------------------------------------------------------------
(* The inductive invariant: types, the rows the agents work from, and the two
   properties of the copies. *)
IInv == TypeOK /\ RowsManaged /\ SystemObjectsKept /\ OnlyPublished

(* The initial states satisfy it. *)
LEMMA InitInv == Init => IInv
<1> SUFFICES ASSUME Init PROVE IInv
  OBVIOUS
<1>1. TypeOK
  BY InitType
<1>2. pg = [n \in Nodes |-> BootstrapCopy]
  BY DEF Init, ClusterInit
<1>3. RowsManaged
  BY NamesAssumption DEF Init, RowsManaged, NothingSeen
<1>4. SystemObjectsKept
  BY <1>2, NamesAssumption DEF SystemObjectsKept, BootstrapCopy
<1>5. OnlyPublished
  BY <1>2, NamesAssumption DEF OnlyPublished, BootstrapCopy
<1> QED
  BY <1>1, <1>3, <1>4, <1>5 DEF IInv

(* Every step keeps it. *)
LEMMA StepInv == IInv /\ [Next]_vars => IInv'
<1> SUFFICES ASSUME IInv, [Next]_vars PROVE IInv'
  OBVIOUS
<1>0. TypeOK /\ RowsManaged /\ SystemObjectsKept /\ OnlyPublished
  BY DEF IInv
<1>1. TypeOK'
  BY <1>0, StepType
<1>2. RowsManaged'
  <2>1. CASE UNCHANGED vars
    BY <1>0, <2>1 DEF vars, clusterVars, agentVars, RowsManaged, Target
  <2> QED
    BY <1>0, <2>1, StepRows, EnvironmentRows DEF Next
<1>3. /\ \A m \in Nodes : CopyJustified(m)
      /\ Latest' \in Nat /\ Latest <= Latest'
      /\ \A i \in 1..Latest : pub'[i] = pub[i]
  BY <1>0, NextSimulated, NextJustified
<1>4. SystemObjectsKept'
  BY <1>0, <1>3, NamesAssumption
     DEF SystemObjectsKept, CopyJustified, RoleJustified, DatabaseJustified
<1>5. OnlyPublished'
  <2>1. \A k \in Nodes : ver[k] \in 1..Latest /\ Latest \in Nat
    BY <1>0, CurrentType DEF TypeOK, AgentTypeOK
  <2>2. ASSUME NEW m \in Nodes, NEW r \in Roles \ SystemRoles, pg'[m].roles[r] # Absent
        PROVE  \E i \in 1..Latest : pub[i].users[r] = pg'[m].roles[r]
    <3>1. PICK k \in Nodes : RoleJustified(m, k, r)
      BY <1>3 DEF CopyJustified
    <3> QED
      BY <1>0, <2>1, <2>2, <3>1 DEF RoleJustified, OnlyPublished, Target
  <2>3. ASSUME NEW m \in Nodes, NEW d \in Databases \ SystemDatabases,
               pg'[m].owners[d] # Absent
        PROVE  \E i \in 1..Latest : pub[i].databases[d] = pg'[m].owners[d]
    <3>1. PICK k \in Nodes : DatabaseJustified(m, k, d)
      BY <1>3 DEF CopyJustified
    <3> QED
      BY <1>0, <2>1, <2>3, <3>1 DEF DatabaseJustified, OnlyPublished, Target
  <2>4. \A i \in 1..Latest : i \in 1..Latest' /\ pub'[i] = pub[i]
    BY <1>3, <2>1, CurrentType, <1>0 DEF TypeOK
  <2> QED
    BY <2>2, <2>3, <2>4 DEF OnlyPublished
<1> QED
  BY <1>1, <1>2, <1>4, <1>5 DEF IInv

(* The inductive invariant holds in every reachable state. *)
THEOREM Invariance == Spec => []IInv
BY InitInv, StepInv, PTL DEF Spec

(* Whatever is published, fails or is edited, no agent ever alters or drops a
   reserved role or database on any node. *)
THEOREM SystemObjectsSafe == Spec => []SystemObjectsKept
<1>1. IInv => SystemObjectsKept
  BY DEF IInv
<1> QED
  BY <1>1, Invariance, PTL

(* No node ever holds a password or an owner that was not published for it. *)
THEOREM CopiesPublished == Spec => []OnlyPublished
<1>1. IInv => OnlyPublished
  BY DEF IInv
<1> QED
  BY <1>1, Invariance, PTL

(* The rows an agent works from never name a reserved object. *)
THEOREM RowsSafe == Spec => []RowsManaged
<1>1. IInv => RowsManaged
  BY DEF IInv
<1> QED
  BY <1>1, Invariance, PTL

(* The agents implement the managed cluster: each statement they execute, with
   any number of faults, crashes and failovers, is justified by a payload their
   node adopted, and payloads are adopted in order. *)
THEOREM Implementation == Spec => ImplementsManaged
<1>1. Init => Managed!Init
  BY DEF Init, Managed!Init, ClusterInit, Managed!ClusterInit, BootstrapCopy,
     Managed!BootstrapCopy
<1>2. IInv /\ [Next]_vars => [Managed!Next]_Managed!managedVars
  BY NextSimulated DEF IInv, Managed!managedVars, Managed!clusterVars, clusterVars
<1> QED
  BY <1>1, <1>2, Invariance, PTL DEF Spec, ImplementsManaged, Managed!Spec
=============================================================================
