----------------------------- MODULE PGCluster -----------------------------
(***************************************************************************)
(* What the agents of one database instance share: the target payloads the *)
(* control plane publishes for it, the Postgres cluster Patroni runs on    *)
(* its nodes, and Patroni's distributed configuration (DCS).  The cluster  *)
(* itself is external code; what is modelled is what the agent's driver    *)
(* (agent/universal/drivers/pg.py) uses of it.                             *)
(***************************************************************************)
EXTENDS Integers, Sequences, FiniteSets

CONSTANTS
  Nodes,            \* the nodes an instance may ever be given
  Roles, Databases, \* names, the reserved ones included
  Hashes,           \* password verifiers
  Absent,           \* no such role, no such database, nothing
  SystemRoles,      \* names matching PG_SYSTEM_USERS_REGEX_TMPL
  SystemDatabases,  \* names in PG_SYSTEM_DATABASES_TMPL
  Superuser,        \* the owner of the system databases
  SystemHash,       \* the password Patroni gives its own roles
  MaxSync,          \* largest sync_replica_number
  Payloads,         \* the payloads the control plane may publish
  MaxPublished,     \* bound: publications after the first one
  MaxFailovers,     \* bound: spontaneous changes of leader
  MaxEdits          \* bound: edits of the DCS by an operator

(***************************************************************************)
(* A payload is the target PGInstanceNode without its name: the users with *)
(* their hashes, the databases with their owners, sync_replica_number, and *)
(* the nodes whose agents it is scheduled on.  The builder schedules it on *)
(* exactly nodes_number nodes, so that number is not a field of its own.   *)
(* PGRoleNameType refuses reserved role names; PGNameType does not refuse  *)
(* reserved database names.                                                *)
(***************************************************************************)
Payload ==
  [users : [Roles -> Hashes \cup {Absent}],
   databases : [Databases -> Roles \cup {Absent}],
   nodes : SUBSET Nodes \ {{}},
   sync : 0..MaxSync]

(* The role names PGRoleNameType lets through; PGNameType is no restriction. *)
ValidNames(p) == \A r \in SystemRoles : p.users[r] = Absent

NodesNumber(p) == Cardinality(p.nodes)
SyncEnabled(p) == NodesNumber(p) > 1 /\ p.sync > 0

(* A node's copy of the cluster's data, as far as the driver reads or writes
   it; public holds the databases that PUBLIC may connect to. *)
Copy ==
  [roles : [Roles -> Hashes \cup {Absent}],
   owners : [Databases -> Roles \cup {Absent}],
   public : SUBSET Databases]

(* The same rows with one of them changed; for a copy and for rows read. *)
WithRole(c, r, h) == [c EXCEPT !.roles[r] = h]
WithOwner(c, d, o) == [c EXCEPT !.owners[d] = o]
WithPublic(c, ds) == [c EXCEPT !.public = ds]

(* What initdb and Patroni's bootstrap leave. *)
BootstrapCopy ==
  [roles |-> [r \in Roles |-> IF r \in SystemRoles THEN SystemHash ELSE Absent],
   owners |-> [d \in Databases |->
                 IF d \in SystemDatabases THEN Superuser ELSE Absent],
   public |-> SystemDatabases]

ASSUME NamesAssumption ==
  /\ Absent \notin Hashes \cup Roles \cup Databases
  /\ SystemHash \in Hashes
  /\ Superuser \in SystemRoles
  /\ SystemRoles \subseteq Roles
  /\ SystemDatabases \subseteq Databases

ASSUME PayloadsAssumption ==
  /\ IsFiniteSet(Nodes)
  /\ Payloads \subseteq Payload
  /\ \A p \in Payloads : ValidNames(p)

ASSUME BoundsAssumption ==
  {MaxSync, MaxPublished, MaxFailovers, MaxEdits} \subseteq Nat

VARIABLES
  pub,        \* the payloads published so far, the last one is the target
  leader,     \* the node holding Patroni's leader key
  pg,         \* each node's copy
  dcs,        \* mode: synchronous_mode (and _strict), count: synchronous_node_count
  failovers, edits  \* how many there were of each

clusterVars == <<pub, leader, pg, dcs, failovers, edits>>

Latest == Len(pub)
Current == pub[Latest]

ClusterTypeOK ==
  /\ pub \in Seq(Payloads) /\ pub # << >>
  /\ leader \in Nodes
  /\ pg \in [Nodes -> Copy]
  /\ dcs \in [mode : BOOLEAN, count : 0..MaxSync]
  /\ failovers \in Nat
  /\ edits \in 0..MaxEdits

(* A freshly bootstrapped cluster: Patroni wrote the DCS from the rendered
   configuration, which turns the synchronous mode on for any non-zero
   sync_replica_number, whatever nodes_number is. *)
ClusterInit ==
  \E p \in Payloads :
    /\ pub = <<p>>
    /\ leader \in p.nodes
    /\ pg = [n \in Nodes |-> BootstrapCopy]
    /\ dcs = [mode |-> p.sync > 0, count |-> p.sync]
    /\ failovers = 0
    /\ edits = 0

(* The control plane publishes a new target.  A node that joins is a new
   machine, so not the leader; Patroni clones it from the leader. *)
Publish(p) ==
  /\ Latest <= MaxPublished
  /\ p # Current
  /\ leader \notin p.nodes \ Current.nodes
  /\ pub' = Append(pub, p)
  /\ pg' = [n \in Nodes |-> IF n \in p.nodes \ Current.nodes THEN pg[leader] ELSE pg[n]]
  /\ UNCHANGED <<leader, dcs, failovers, edits>>

(* Streaming replication, in one step: a standby catches up. *)
Replicate(n) ==
  /\ pg[n] # pg[leader]
  /\ pg' = [pg EXCEPT ![n] = pg[leader]]
  /\ UNCHANGED <<pub, leader, dcs, failovers, edits>>

(* Another node takes the leader key.  Under synchronous mode it is one that
   has every acknowledged write; otherwise it may have missed some.  A leader
   that the target no longer names is being removed by Core: its replacement
   needs no budget. *)
Failover(n) ==
  /\ n \in Current.nodes \ {leader}
  /\ leader \in Current.nodes => failovers < MaxFailovers
  /\ failovers' = failovers + 1
  /\ leader' = n
  /\ pg' = IF dcs.mode THEN [pg EXCEPT ![n] = pg[leader]] ELSE pg
  /\ UNCHANGED <<pub, dcs, edits>>

(* An operator changes synchronous_node_count with patronictl (lab, case 4). *)
EditDCS(k) ==
  /\ edits < MaxEdits
  /\ k # dcs.count
  /\ dcs' = [dcs EXCEPT !.count = k]
  /\ edits' = edits + 1
  /\ UNCHANGED <<pub, leader, pg, failovers>>

(* Strict synchronous mode acknowledges no write while there is no standby. *)
Acknowledged == dcs.mode => Current.nodes \ {leader} # {}

(* One committed statement of node n: only the leader executes writes. *)
Write(n, copy) ==
  /\ n = leader
  /\ Acknowledged
  /\ pg' = [pg EXCEPT ![n] = copy]
=============================================================================
