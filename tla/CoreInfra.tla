----------------------------- MODULE CoreInfra -----------------------------
(***************************************************************************)
(* The infrastructure builder (infra/services/builder.py) of one instance: *)
(* it asks Core, through target resources, for a node set and for one      *)
(* Patroni configuration per node, and keeps the encryption keys of the    *)
(* nodes' agents.  Core makes and removes machines, its agent reports the  *)
(* actual node set some time later, and configurations reach the nodes one *)
(* by one.                                                                 *)
(***************************************************************************)
EXTENDS Integers, Sequences, FiniteSets, SequencesExt

CONSTANTS
  Nodes,       \* machines Core may make; one that is forgotten may come back
  MaxNodes,    \* largest nodes_number
  Sizes,       \* of a machine: cpu, ram and disk
  Absent,      \* no report, no request
  MaxUpdates   \* bound: requests of the API

ASSUME NodesAssumption ==
  /\ IsFiniteSet(Nodes)
  /\ MaxNodes \in Nat \ {0}
  /\ Sizes \subseteq Nat /\ Sizes # {}
  /\ MaxUpdates \in Nat

VARIABLES
  row,      \* the instance; nodes is 0 when it is deleted
  request,  \* the row that a request of the API has loaded
  behind,   \* the row was saved after the last iteration loaded it
  target,   \* size of the target node set and of its machines
  core,     \* the machines of the node set, oldest first
  actual,   \* the node set as last reported
  known,    \* machines whose Config was in the last report
  keys,     \* machines that have a row in the table of NodeEncryptionKey
  config,   \* raft members in the target Config of each machine, {} for none
  view,     \* raft members that Patroni runs with on each machine
  builder,  \* the builder's iteration
  tracked,  \* the report that its last iteration worked from
  updates,
  calm      \* nodes_number has changed by at most one since everything was settled

api == <<row, request, behind, updates, calm>>
machines == <<core, actual, known, view>>
targets == <<target, keys, config, tracked>>
vars == <<api, machines, targets, builder>>

NodeSet == {s \in SeqOf(Nodes, MaxNodes) : IsInjective(s)}
InstanceStatus == {"NEW", "IN_PROGRESS", "ACTIVE", "ERROR"}
Row == [nodes : 0..MaxNodes, size : Sizes, ips : NodeSet, status : InstanceStatus]
NodeSetReport == [nodes : NodeSet, status : {"ACTIVE", "SCHEDULED"}]
Reports == NodeSetReport \cup {Absent}
Idle == [at |-> "idle", row |-> Absent, actual |-> Absent, keys |-> {}]

ASSUME AbsentAssumption == Absent \notin Row \cup NodeSetReport

(* TypeOK: every variable keeps its type, and a node set never lists a machine
   twice nor grows beyond MaxNodes. *)
TypeOK ==
  /\ row \in Row
  /\ request \in Row \cup {Absent}
  /\ behind \in BOOLEAN
  /\ target \in [replicas : 0..MaxNodes, size : Sizes]
  /\ core \in NodeSet
  /\ actual \in Reports
  /\ known \subseteq Nodes
  /\ keys \subseteq Nodes
  /\ config \in [Nodes -> SUBSET Nodes]
  /\ view \in [Nodes -> SUBSET Nodes]
  /\ builder \in [at : {"idle", "loaded", "keys"}, row : Row \cup {Absent},
                  actual : Reports, keys : SUBSET Nodes]
  /\ tracked \in Reports
  /\ updates \in 0..MaxUpdates
  /\ calm \in BOOLEAN

(* get_infra: a new instance gets a target node set; there are no machines. *)
Init ==
  /\ \E k \in 1..MaxNodes, z \in Sizes :
       /\ row = [nodes |-> k, size |-> z, ips |-> << >>, status |-> "NEW"]
       /\ target = [replicas |-> k, size |-> z]
       /\ calm = (k = 1)
  /\ request = Absent
  /\ behind = FALSE
  /\ core = << >>
  /\ actual = Absent
  /\ known = {}
  /\ keys = {}
  /\ config = [n \in Nodes |-> {}]
  /\ view = [n \in Nodes |-> {}]
  /\ builder = Idle
  /\ tracked = Absent
  /\ updates = 0

Deleted == row.nodes = 0
Configured == {n \in Nodes : config[n] # {}}

(* What the core agent reports of the node set. *)
Status == IF Len(core) = target.replicas THEN "ACTIVE" ELSE "SCHEDULED"
NodeSetNow == [nodes |-> core, status |-> Status]

(* Nothing is left to do for the builder, for Core or for the nodes. *)
Resting ==
  /\ builder = Idle /\ ~behind /\ tracked = actual
  /\ actual = NodeSetNow /\ Len(core) = target.replicas
  /\ \A n \in ToSet(core) : config[n] # {} => view[n] = config[n] \cup {n}

(* ... and no key is left over. *)
Settled == Resting /\ target.replicas = row.nodes /\ keys = ToSet(core)

-----------------------------------------------------------------------------
(* The user API: a request loads the row and saves it whole when it ends. *)
Begin ==
  /\ ~Deleted
  /\ request = Absent
  /\ updates < MaxUpdates
  /\ request' = row
  /\ updates' = updates + 1
  /\ UNCHANGED <<row, behind, calm, machines, targets, builder>>

(* An update of the instance, or of a child, which changes nothing here. *)
SaveInstance(k, z) ==
  /\ ~Deleted
  /\ request # Absent
  /\ z >= request.size
  /\ row' = [request EXCEPT !.nodes = k, !.size = z]
  /\ behind' = TRUE
  /\ calm' = IF Settled THEN k - row.nodes \in -1..1 ELSE calm /\ k = row.nodes
  /\ request' = Absent
  /\ UNCHANGED <<updates, machines, targets, builder>>

DeleteInstance ==
  /\ ~Deleted
  /\ row' = [row EXCEPT !.nodes = 0]
  /\ request' = Absent
  /\ calm' = Settled
  /\ UNCHANGED <<behind, updates, machines, targets, builder>>

-----------------------------------------------------------------------------
(* The builder finds the instance gone: pre_delete_instance_resource drops the
   keys of the nodes as reported, then the targets go. *)
PreDelete ==
  /\ Deleted
  /\ builder = Idle
  /\ target.replicas # 0
  /\ keys' = IF actual = Absent THEN keys ELSE keys \ ToSet(actual.nodes)
  /\ target' = [target EXCEPT !.replicas = 0]
  /\ config' = [n \in Nodes |-> {}]
  /\ UNCHANGED <<api, machines, tracked, builder>>

(* actualize_infra, called when the row or a report is new.  Until the node set
   and every Config have been reported it fails on None and is repeated. *)
Load ==
  /\ ~Deleted
  /\ builder = Idle
  /\ behind \/ tracked # actual
  /\ actual # Absent /\ Configured \subseteq known
  /\ builder' = [at |-> "loaded", row |-> row, actual |-> actual, keys |-> {}]
  /\ behind' = FALSE
  /\ UNCHANGED <<row, request, updates, calm, machines, targets>>

(* An HTTP call: Core answers with the machines it has now. *)
GetPrivateKeys ==
  /\ builder.at = "loaded"
  /\ builder' = [builder EXCEPT !.at = "keys", !.keys = ToSet(core)]
  /\ UNCHANGED <<api, machines, targets>>

Reported == ToSet(builder.actual.nodes)

(* Mutant: the slice stops one node early. *)
MembersOffByOne(nodes, number) ==
  ToSet(SubSeq(nodes, 1, IF Len(nodes) > number THEN number - 1 ELSE Len(nodes)))

(* The first nodes_number of the nodes: when the node set is to shrink, all of
   them are still reported. *)
Members(nodes, number) ==
  ToSet(SubSeq(nodes, 1, IF Len(nodes) > number THEN number ELSE Len(nodes)))

RaftMembers == Members(builder.actual.nodes, builder.row.nodes)

(* Mutant: no clean up of the nodes that are to leave. *)
KeysKept == keys \cup builder.keys

(* Keys are upserted, then those of the nodes beyond nodes_number dropped. *)
NodeKeys == (keys \cup builder.keys) \ (Reported \ RaftMembers)

(* Mutant: only nodes that have no configuration yet get one. *)
ConfigsOfNewNodes ==
  [n \in Nodes |-> IF n \notin Reported THEN {}
                   ELSE IF config[n] = {} THEN RaftMembers ELSE config[n]]

(* Every reported node gets a new configuration, the leaving ones too. *)
Configs == [n \in Nodes |-> IF n \in Reported THEN RaftMembers ELSE {}]

(* Mutant: the difference is added to the target instead. *)
TargetByDifference ==
  [replicas |-> target.replicas + builder.row.nodes - Len(builder.actual.nodes), size |-> builder.row.size]

Target == [replicas |-> builder.row.nodes, size |-> builder.row.size]

(* Mutant: addresses are read back only while there are none. *)
ReadBackOnce ==
  [builder.row EXCEPT
     !.ips = IF @ = << >> THEN builder.actual.nodes ELSE @,
     !.status = IF builder.actual.status \in InstanceStatus THEN builder.actual.status ELSE "IN_PROGRESS"]

(* A status of the node set that an instance does not have is IN_PROGRESS. *)
ReadBack ==
  [builder.row EXCEPT
     !.ips = IF builder.actual.nodes = << >> THEN @ ELSE builder.actual.nodes,
     !.status = IF builder.actual.status \in InstanceStatus THEN builder.actual.status ELSE "IN_PROGRESS"]

(* Mutant: what was saved in between counts as seen. *)
WriteBackAndForget ==
  /\ row' = IF Deleted \/ ReadBack = builder.row THEN row ELSE ReadBack
  /\ behind' = FALSE

(* The row that was loaded is written back whole when the report changes it,
   over whatever was saved in between. *)
WriteBack ==
  IF Deleted \/ ReadBack = builder.row
  THEN UNCHANGED <<row, behind>>
  ELSE row' = ReadBack /\ behind' = FALSE

(* The iteration commits. *)
ActualizeInfra ==
  /\ builder.at = "keys"
  /\ keys' = NodeKeys
  /\ config' = Configs
  /\ target' = Target
  /\ WriteBack
  /\ tracked' = builder.actual
  /\ builder' = Idle
  /\ UNCHANGED <<request, updates, calm, machines>>

-----------------------------------------------------------------------------
(* Core and the nodes, outside this repository. *)

Listed(report) == IF report = Absent THEN {} ELSE ToSet(report.nodes)
Forgotten == Nodes \ (ToSet(core) \cup Listed(actual) \cup Listed(builder.actual) \cup Listed(tracked)
                      \cup ToSet(row.ips) \cup (IF builder.row = Absent THEN {} ELSE ToSet(builder.row.ips))
                      \cup (IF request = Absent THEN {} ELSE ToSet(request.ips))
                      \cup keys \cup builder.keys \cup known \cup Configured
                      \cup UNION {view[n] \cup config[n] : n \in Nodes})

(* A new machine has a uuid of its own; which one makes no difference. *)
AddNode ==
  /\ Len(core) < target.replicas
  /\ Forgotten # {}
  /\ core' = Append(core, CHOOSE n \in Forgotten : TRUE)
  /\ UNCHANGED <<api, actual, known, view, targets, builder>>

(* A node set shrinks from its end, which is what the builder counts on when
   it cleans up after the nodes beyond nodes_number. *)
RemoveNode ==
  /\ Len(core) > target.replicas
  /\ core' = Front(core)
  /\ view' = [view EXCEPT ![Last(core)] = {}]
  /\ UNCHANGED <<api, actual, known, targets, builder>>

Report ==
  /\ actual # NodeSetNow \/ known # Configured
  /\ actual' = NodeSetNow
  /\ known' = Configured
  /\ UNCHANGED <<api, core, view, targets, builder>>

(* A node gets its patroni.yml and reloads or restarts Patroni, which adds
   itself to partner_addrs. *)
Deliver(n) ==
  /\ n \in ToSet(core)
  /\ config[n] # {}
  /\ view[n] # config[n] \cup {n}
  /\ view' = [view EXCEPT ![n] = config[n] \cup {n}]
  /\ UNCHANGED <<api, core, actual, known, targets, builder>>

-----------------------------------------------------------------------------
Serve == Begin \/ DeleteInstance \/ \E k \in 1..MaxNodes, z \in Sizes : SaveInstance(k, z)
Build == PreDelete \/ Load \/ GetPrivateKeys \/ ActualizeInfra
Provision == RemoveNode \/ Report \/ AddNode

Next == Serve \/ Build \/ Provision \/ \E n \in Nodes : Deliver(n)

Spec == Init /\ [][Next]_vars

(* The builder loops for ever; Core provisions, reports and delivers. *)
Fairness ==
  /\ WF_vars(Build) /\ WF_vars(Report)
  /\ WF_vars(RemoveNode \/ AddNode)
  /\ \A n \in Nodes : WF_vars(Deliver(n))

FairSpec == Spec /\ Fairness

-----------------------------------------------------------------------------
(* Q may make n the raft leader: a majority of the members n knows, each of
   which knows n. *)
Elects(Q, n) ==
  /\ n \in Q
  /\ Q \subseteq view[n]
  /\ \A m \in Q : n \in view[m]
  /\ 2 * Cardinality(Q) > Cardinality(view[n])

(* As long as nodes_number changes by one and only after the last change has
   settled, the nodes never hold configurations (delivered one by one, the
   leaving nodes' included) under which two leaders could be elected apart. *)
QuorumsOverlap ==
  calm => \A n, m \in ToSet(core) : \A P, Q \in SUBSET ToSet(core) :
            Elects(P, n) /\ Elects(Q, m) => P \cap Q # {}

(* Nobody stops too early: when the builder, Core and the nodes see nothing left
   to do, the machines are those the row asks for and shows, as ready; each runs
   with exactly the others as raft partners, and the keys of all are kept:
   whatever reports, HTTP answers and saves of the row have overtaken each other. *)
RestsRight ==
  Resting /\ ~Deleted =>
    /\ row.ips = core /\ row.status = "ACTIVE"
    /\ row.nodes = Len(core) /\ row.size = target.size
    /\ \A n \in ToSet(core) : view[n] = ToSet(core)
    /\ ToSet(core) \subseteq keys

(* Once changes stop, the nodes that are left are those wanted, and each of
   them runs with exactly the others as raft partners. *)
MembersSettle ==
  <>[](/\ Len(core) = row.nodes
       /\ \A n \in ToSet(core) : view[n] = ToSet(core))

(* Once requests stop, the row shows the addresses of its machines and that they
   are ready, and the machines have the size asked for: neither a row written
   back by a request that loaded it earlier, nor a report that came while the
   builder was working, is the last word. *)
RowSettles ==
  <>[](~Deleted => /\ row.ips = core /\ row.status = "ACTIVE"
                   /\ target.size = row.size)

(* Once changes stop, every node's agent has its key, and, if the changes were
   calm, a node that was removed, or whose instance was deleted, left none. *)
KeysSettle ==
  <>[](/\ ToSet(core) \subseteq keys
       /\ calm => keys = ToSet(core))
=============================================================================
