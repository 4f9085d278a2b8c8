-------------------------- MODULE CoreInfraProofs --------------------------
(***************************************************************************)
(* Proofs about CoreInfra: for any number of machines, updates and sizes,  *)
(* the builder does not rest before members, keys and row are right, and   *)
(* the majorities by which the nodes may elect a leader overlap as long as *)
(* nodes_number changes by one at a time.                                  *)
(***************************************************************************)
EXTENDS CoreInfra, FiniteSetTheorems, SequenceTheorems, TLAPS

(* An iteration works from a row and a report, both of them there. *)
IterationLoaded ==
  builder.at # "idle" =>
    builder.row \in Row /\ builder.actual \in Reports \ {Absent}

(* A node that has members is one of its own. *)
KnowsItself == \A n \in Nodes : view[n] # {} => n \in view[n]

(* What an iteration wrote down is what the row and the report asked for, until
   the row is saved again: an iteration that is under way works from the row as
   it is, and after it the targets are those of the row and of `tracked`. *)
RowFollowed ==
  ~behind /\ ~Deleted =>
    IF builder.at # "idle" THEN builder.row = row
    ELSE tracked # Absent =>
           /\ target.replicas = row.nodes /\ target.size = row.size
           /\ tracked.nodes # << >> => row.ips = tracked.nodes
           /\ row.status = IF tracked.status \in InstanceStatus THEN tracked.status ELSE "IN_PROGRESS"
           /\ \A n \in ToSet(tracked.nodes) : config[n] = Members(tracked.nodes, row.nodes)

(* A machine that is still there, and was in the report, was there at the HTTP
   call: its key is in the answer, and kept unless it is to leave. *)
KeysFollowed ==
  /\ builder.at = "keys" => ToSet(core) \cap ToSet(builder.actual.nodes) \subseteq builder.keys
  /\ builder.at = "idle" /\ tracked # Absent /\ ~behind /\ ~Deleted =>
       ToSet(core) \cap ToSet(tracked.nodes) \cap Members(tracked.nodes, row.nodes) \subseteq keys

(* Members of a node and in its configuration while the machines are those of
   `big`, those of `small`, or on their way from one to the other. *)
NodesKnow(big, small) ==
  \A n \in ToSet(core) :
    /\ config[n] \in {{}, ToSet(big), ToSet(small)}
    /\ view[n] \in {{}, ToSet(big), ToSet(small) \cup {n}}

Between(big, small) ==
  /\ core \in {big, small}
  /\ \A report \in {actual, builder.actual} : report # Absent => report.nodes \in {big, small}
  /\ builder.at # "idle" => builder.row.nodes = row.nodes
  /\ NodesKnow(big, small)

(* nodes_number has grown by one, or is what it was: the last machine may be new. *)
Growing ==
  /\ Len(core) \in {row.nodes - 1, row.nodes}
  /\ target.replicas \in {row.nodes - 1, row.nodes}
  /\ Len(core) <= target.replicas
  /\ Between(core, SubSeq(core, 1, row.nodes - 1))

(* nodes_number is one less than the machines of `big`, the last of which goes. *)
ShrinkingFrom(big) ==
  /\ Len(big) = row.nodes + 1
  /\ target.replicas \in {row.nodes, row.nodes + 1}
  /\ core # big => target.replicas = row.nodes
  /\ Between(big, SubSeq(big, 1, row.nodes))

(* The instance is deleted, and its machines go one by one. *)
Leaving ==
  /\ builder.at = "idle"
  /\ target.replicas <= Len(core)
  /\ \E all \in NodeSet : ToSet(core) \subseteq ToSet(all) /\ NodesKnow(all, all)

(* As long as changes were calm, the nodes are in one of these phases. *)
Calm ==
  calm => IF Deleted THEN Leaving ELSE Growing \/ \E big \in NodeSet : ShrinkingFrom(big)

IInv == TypeOK /\ IterationLoaded /\ KnowsItself /\ RowFollowed /\ KeysFollowed /\ Calm

-----------------------------------------------------------------------------
(* Node sets. *)

LEMMA NodeSetDef ==
  ASSUME NEW s
  PROVE  s \in NodeSet <=> /\ s \in Seq(Nodes)
                           /\ Len(s) \in 0..MaxNodes
                           /\ \A i, j \in 1..Len(s) : s[i] = s[j] => i = j
<1>1. ASSUME s \in SeqOf(Nodes, MaxNodes)
      PROVE  s \in Seq(Nodes) /\ Len(s) \in 0..MaxNodes
  <2>1. PICK m \in 0..MaxNodes : s \in [1..m -> Nodes]
    BY <1>1 DEF SeqOf
  <2>2. m \in Nat
    BY NodesAssumption
  <2>3. s \in Seq(Nodes) /\ Len(s) = m
    BY <2>1, <2>2
  <2> QED BY <2>3
<1>2. ASSUME s \in Seq(Nodes), Len(s) \in 0..MaxNodes
      PROVE  s \in SeqOf(Nodes, MaxNodes)
  BY <1>2, LenProperties DEF SeqOf
<1>3. ASSUME s \in Seq(Nodes) PROVE DOMAIN s = 1..Len(s)
  BY <1>3, LenProperties
<1> QED BY <1>1, <1>2, <1>3 DEF NodeSet, IsInjective

LEMMA Machines ==
  ASSUME NEW s \in NodeSet
  PROVE  /\ Len(s) \in 0..MaxNodes /\ Len(s) \in Nat /\ MaxNodes \in Nat
         /\ ToSet(s) = {s[i] : i \in 1..Len(s)}
         /\ ToSet(s) \subseteq Nodes
  BY NodeSetDef, NodesAssumption, LenProperties DEF ToSet

LEMMA FirstMachines ==
  ASSUME NEW s \in NodeSet, NEW k \in 0..Len(s)
  PROVE  /\ SubSeq(s, 1, k) \in NodeSet
         /\ Len(SubSeq(s, 1, k)) = k
         /\ ToSet(SubSeq(s, 1, k)) = {s[i] : i \in 1..k}
<1>1. s \in Seq(Nodes) /\ Len(s) \in Nat /\ Len(s) <= MaxNodes /\ MaxNodes \in Nat
  BY NodeSetDef, NodesAssumption
<1>2. \A i \in 1..k : s[i] \in Nodes
  BY <1>1, ElementOfSeq
<1>3. /\ SubSeq(s, 1, k) \in Seq(Nodes)
      /\ Len(SubSeq(s, 1, k)) = k
      /\ \A i \in 1..k : SubSeq(s, 1, k)[i] = s[i]
  BY <1>1, <1>2, SubSeqProperties
<1>4. SubSeq(s, 1, k) \in NodeSet
  <2>1. \A i, j \in 1..Len(s) : s[i] = s[j] => i = j
    BY NodeSetDef
  <2> DEFINE t == SubSeq(s, 1, k)
  <2>2. Len(t) \in 0..MaxNodes /\ t \in Seq(Nodes)
    BY <1>1, <1>3
  <2>3. \A i, j \in 1..Len(t) : t[i] = t[j] => i = j
    BY <1>1, <1>3, <2>1
  <2> HIDE DEF t
  <2>4. t \in NodeSet
    BY <2>2, <2>3, NodeSetDef
  <2> QED BY <2>4 DEF t
<1> QED BY <1>3, <1>4, Machines

LEMMA AllMachines ==
  ASSUME NEW s \in NodeSet
  PROVE  SubSeq(s, 1, Len(s)) = s
  BY NodeSetDef, SubSeqFull

LEMMA OneMore ==
  ASSUME NEW s \in NodeSet, NEW n \in Nodes \ ToSet(s), Len(s) < MaxNodes
  PROVE  /\ Append(s, n) \in NodeSet
         /\ Len(Append(s, n)) = Len(s) + 1
         /\ SubSeq(Append(s, n), 1, Len(s)) = s
         /\ ToSet(Append(s, n)) = ToSet(s) \cup {n}
<1> DEFINE t == Append(s, n)
<1>1. s \in Seq(Nodes) /\ Len(s) \in Nat /\ MaxNodes \in Nat
  BY NodeSetDef, NodesAssumption
<1>2. /\ t \in Seq(Nodes) /\ Len(t) = Len(s) + 1
      /\ \A i \in 1..Len(s) : t[i] = s[i]
      /\ t[Len(s) + 1] = n
  BY <1>1, AppendProperties
<1>3. \A i \in 1..Len(s) : s[i] \in ToSet(s)
  BY Machines
<1>4. t \in NodeSet
  <2>1. \A i, j \in 1..Len(s) : s[i] = s[j] => i = j
    BY NodeSetDef
  <2>2. \A i, j \in 1..Len(t) : t[i] = t[j] => i = j
    BY <1>1, <1>2, <1>3, <2>1
  <2>3. Len(t) \in 0..MaxNodes
    BY <1>1, <1>2
  <2> HIDE DEF t
  <2> QED BY <1>2, <2>2, <2>3, NodeSetDef
<1>5. ToSet(t) = ToSet(s) \cup {n}
  <2>1. ToSet(t) = {t[i] : i \in 1..Len(t)} /\ ToSet(s) = {s[i] : i \in 1..Len(s)}
    BY <1>4, Machines
  <2> QED BY <1>1, <1>2, <2>1
<1>6. SubSeq(t, 1, Len(s)) = s
  <2>1. \A i \in 1..Len(s) : t[i] \in Nodes
    BY <1>1, <1>2, ElementOfSeq
  <2>2. /\ SubSeq(t, 1, Len(s)) \in Seq(Nodes)
        /\ Len(SubSeq(t, 1, Len(s))) = Len(s)
        /\ \A i \in 1..Len(s) : SubSeq(t, 1, Len(s))[i] = s[i]
    BY <1>1, <1>2, <2>1, SubSeqProperties
  <2> QED BY <1>1, <2>2, SeqEqual
<1> QED BY <1>2, <1>4, <1>5, <1>6

(* Members is the whole node set when that is no larger than asked for, and else
   its first machines. *)
LEMMA MembersOf ==
  ASSUME NEW s \in NodeSet, NEW k \in Nat
  PROVE  /\ Members(s, k) \subseteq Nodes
         /\ Len(s) <= k => Members(s, k) = ToSet(s)
         /\ Len(s) > k => Members(s, k) = ToSet(SubSeq(s, 1, k))
<1>1. Len(s) \in Nat /\ ToSet(s) \subseteq Nodes
  BY Machines
<1>2. ASSUME Len(s) <= k PROVE Members(s, k) = ToSet(s)
  <2>1. Members(s, k) = ToSet(SubSeq(s, 1, Len(s)))
    BY <1>1, <1>2 DEF Members
  <2> QED BY <2>1, AllMachines
<1>3. ASSUME Len(s) > k
      PROVE  Members(s, k) = ToSet(SubSeq(s, 1, k)) /\ Members(s, k) \subseteq Nodes
  <2>1. Members(s, k) = ToSet(SubSeq(s, 1, k))
    BY <1>1, <1>3 DEF Members
  <2>2. SubSeq(s, 1, k) \in NodeSet
    BY <1>1, <1>3, FirstMachines
  <2> QED BY <2>1, <2>2, Machines
<1> QED BY <1>1, <1>2, <1>3

-----------------------------------------------------------------------------
(* Type correctness. *)

Base == TypeOK /\ IterationLoaded /\ KnowsItself

LEMMA Numbers ==
  /\ MaxNodes \in Nat \ {0} /\ MaxUpdates \in Nat /\ Sizes \subseteq Nat
  /\ << >> \in NodeSet /\ Len(<< >>) = 0 /\ ToSet(<< >>) = {}
<1>1. << >> \in Seq(Nodes) /\ Len(<< >>) = 0
  BY EmptySeq
<1>2. << >> \in NodeSet
  <2>1. 0 \in 0..MaxNodes /\ \A i \in 1..0 : FALSE
    BY NodesAssumption
  <2> DEFINE e == << >>
  <2>2. e \in Seq(Nodes) /\ Len(e) = 0
    BY <1>1
  <2> HIDE DEF e
  <2>3. e \in NodeSet
    BY <2>1, <2>2, NodeSetDef
  <2> QED BY <2>3 DEF e
<1>3. ASSUME NEW s \in NodeSet, Len(s) = 0 PROVE ToSet(s) = {}
  BY <1>3, Machines
<1> QED BY <1>1, <1>2, <1>3, NodesAssumption

LEMMA InitBase == Init => Base
<1> SUFFICES ASSUME Init PROVE Base
  OBVIOUS
<1>1. PICK k \in 1..MaxNodes, z \in Sizes :
        /\ row = [nodes |-> k, size |-> z, ips |-> << >>, status |-> "NEW"]
        /\ target = [replicas |-> k, size |-> z]
        /\ calm = (k = 1)
  BY DEF Init
<1>2. row \in Row /\ target \in [replicas : 0..MaxNodes, size : Sizes]
  BY <1>1, Numbers DEF Row, InstanceStatus
<1>3. calm \in BOOLEAN /\ behind \in BOOLEAN
  BY <1>1, Zenon DEF Init
<1> QED BY <1>2, <1>3, Numbers
       DEF Init, Base, TypeOK, IterationLoaded, KnowsItself, Idle, Reports

LEMMA NextBase == Base /\ [Next]_vars => Base'
<1> SUFFICES ASSUME Base, [Next]_vars PROVE Base'
  OBVIOUS
<1> USE Numbers DEF Base, TypeOK, IterationLoaded, KnowsItself, api, machines, targets
<1>1. ASSUME NEW s \in NodeSet PROVE ToSet(s) \subseteq Nodes /\ Len(s) \in 0..MaxNodes
  BY Machines
<1>2. CASE Begin
  BY <1>2 DEF Begin
<1>3. ASSUME NEW k \in 1..MaxNodes, NEW z \in Sizes, SaveInstance(k, z) PROVE Base'
  <2>1. calm' \in BOOLEAN
    <3>1. calm' = IF Settled THEN k - row.nodes \in -1..1 ELSE calm /\ k = row.nodes
      BY <1>3, Zenon DEF SaveInstance
    <3>2. CASE Settled
      <4>1. calm' = (k - row.nodes \in -1..1)
        BY <3>1, <3>2, Zenon
      <4>2. CASE k - row.nodes \in -1..1
        BY <4>1, <4>2
      <4>3. CASE ~(k - row.nodes \in -1..1)
        BY <4>1, <4>3
      <4> QED BY <4>2, <4>3
    <3>3. CASE ~Settled
      BY <3>1, <3>3, Zenon
    <3> QED BY <3>2, <3>3
  <2>2. row' \in Row
    <3>1. request \in Row /\ row' = [request EXCEPT !.nodes = k, !.size = z]
      BY <1>3 DEF SaveInstance
    <3>2. k \in 0..MaxNodes
      BY MaxNodes \in Nat
    <3>3. row' = [nodes |-> k, size |-> z, ips |-> request.ips, status |-> request.status]
      BY <3>1 DEF Row
    <3> QED BY <3>1, <3>2, <3>3 DEF Row
  <2>3. behind' = TRUE /\ request' = Absent /\ UNCHANGED <<updates, machines, targets, builder>>
    BY <1>3 DEF SaveInstance
  <2> QED BY <2>1, <2>2, <2>3
<1>4. CASE DeleteInstance
  <2>1. calm' \in BOOLEAN
    BY <1>4, Zenon DEF DeleteInstance, Settled
  <2>2. row' \in Row
    BY <1>4 DEF DeleteInstance, Row
  <2> QED BY <1>4, <2>1, <2>2 DEF DeleteInstance
<1>5. CASE PreDelete
  BY <1>5 DEF PreDelete
<1>6. CASE Load
  BY <1>6 DEF Load
<1>7. CASE GetPrivateKeys
  BY <1>1, <1>7 DEF GetPrivateKeys
<1>8. CASE ActualizeInfra
  <2>1. builder.row \in Row /\ builder.actual \in Reports \ {Absent}
    BY <1>8 DEF ActualizeInfra
  <2>2. /\ builder.actual.nodes \in NodeSet
        /\ builder.row.nodes \in 0..MaxNodes /\ builder.row.nodes \in Nat
        /\ builder.row.size \in Sizes
    BY <2>1 DEF Reports, NodeSetReport, Row
  <2>3. RaftMembers \subseteq Nodes /\ Reported \subseteq Nodes
    BY <1>1, <2>2, MembersOf DEF RaftMembers, Reported
  <2>4. keys' \subseteq Nodes /\ config' \in [Nodes -> SUBSET Nodes]
    BY <1>8, <2>3 DEF ActualizeInfra, NodeKeys, Configs
  <2>5. ReadBack \in Row
    BY <2>1, <2>2 DEF ReadBack, Row, InstanceStatus
  <2>6. row' \in Row
    BY <1>8, <2>5 DEF ActualizeInfra, WriteBack
  <2>7. behind' \in BOOLEAN
    BY <1>8, Zenon DEF ActualizeInfra, WriteBack
  <2>8. builder' = Idle /\ tracked' \in Reports
        /\ target' \in [replicas : 0..MaxNodes, size : Sizes]
    BY <1>8, <2>1, <2>2 DEF ActualizeInfra, Target
  <2> QED BY <1>8, <2>4, <2>6, <2>7, <2>8 DEF ActualizeInfra, Idle, Reports
<1>9. CASE AddNode
  <2>1. (CHOOSE n \in Forgotten : TRUE) \in Nodes \ ToSet(core)
    BY <1>9 DEF AddNode, Forgotten
  <2>2. core' \in NodeSet
    BY <1>1, <1>9, <2>1, OneMore DEF AddNode
  <2> QED BY <1>9, <2>2 DEF AddNode
<1>10. CASE RemoveNode
  <2>1. core' \in NodeSet
    <3>1. Len(core) - 1 \in 0..Len(core)
      BY <1>1, <1>10 DEF RemoveNode
    <3> QED BY <1>10, <3>1, FirstMachines DEF RemoveNode, Front
  <2> QED BY <1>10, <2>1 DEF RemoveNode
<1>11. CASE Report
  <2>1. actual' \in Reports
    BY <1>11 DEF Report, NodeSetNow, Status, Reports, NodeSetReport
  <2>2. known' \subseteq Nodes
    BY <1>11 DEF Report, Configured
  <2> QED BY <1>11, <2>1, <2>2 DEF Report
<1>12. ASSUME NEW n \in Nodes, Deliver(n) PROVE Base'
  BY <1>12 DEF Deliver
<1>13. CASE UNCHANGED vars
  BY <1>13 DEF vars
<1> QED BY <1>2, <1>3, <1>4, <1>5, <1>6, <1>7, <1>8, <1>9, <1>10, <1>11, <1>12, <1>13
       DEF Next, Serve, Build, Provision

(* Every variable keeps its type; a node set never lists a machine twice. *)
THEOREM TypeCorrect == Spec => []TypeOK
<1>1. Base => TypeOK
  BY DEF Base
<1> QED BY <1>1, InitBase, NextBase, PTL DEF Spec
-----------------------------------------------------------------------------
(* The targets follow the row. *)

LEMMA NextRowFollowed == ASSUME Base, RowFollowed, [Next]_vars PROVE RowFollowed'
<1> USE DEF RowFollowed, Deleted, api, machines, targets
<1>1. CASE Begin
  BY <1>1 DEF Begin
<1>2. ASSUME NEW k \in 1..MaxNodes, NEW z \in Sizes, SaveInstance(k, z) PROVE RowFollowed'
  BY <1>2 DEF SaveInstance
<1>3. CASE DeleteInstance
  BY <1>3 DEF DeleteInstance, Base, TypeOK, Row
<1>4. CASE PreDelete
  BY <1>4 DEF PreDelete
<1>5. CASE Load
  BY <1>5 DEF Load
<1>6. CASE GetPrivateKeys
  BY <1>6 DEF GetPrivateKeys, Base, TypeOK
<1>7. CASE ActualizeInfra
  <2>1. builder.row \in Row /\ builder.actual \in Reports \ {Absent}
    BY <1>7 DEF ActualizeInfra, Base, IterationLoaded
  <2> SUFFICES ASSUME ~behind', ~Deleted'
               PROVE  /\ row' = ReadBack
                      /\ target' = Target
                      /\ \A n \in ToSet(builder.actual.nodes) :
                           config'[n] = Members(builder.actual.nodes, builder.row.nodes)
    BY <1>7, <2>1 DEF ActualizeInfra, Idle, ReadBack, Target, Row
  <2>2. row' = ReadBack
    BY <1>7 DEF ActualizeInfra, WriteBack
  <2>3. target' = Target
    BY <1>7 DEF ActualizeInfra
  <2>4. ToSet(builder.actual.nodes) \subseteq Nodes
    BY <2>1, Machines DEF Reports, NodeSetReport
  <2> QED BY <1>7, <2>2, <2>3, <2>4 DEF ActualizeInfra, Configs, RaftMembers, Reported
<1>8. CASE RemoveNode \/ Report \/ AddNode
  BY <1>8 DEF RemoveNode, Report, AddNode
<1>9. ASSUME NEW n \in Nodes, Deliver(n) PROVE RowFollowed'
  BY <1>9 DEF Deliver
<1>10. CASE UNCHANGED vars
  BY <1>10 DEF vars
<1> QED BY <1>1, <1>2, <1>3, <1>4, <1>5, <1>6, <1>7, <1>8, <1>9, <1>10
       DEF Next, Serve, Build, Provision

LEMMA NextKeysFollowed == ASSUME Base, RowFollowed, KeysFollowed, [Next]_vars PROVE KeysFollowed'
<1> USE DEF KeysFollowed, Deleted, api, machines, targets
<1>0. core \in NodeSet /\ Len(core) \in Nat /\ ToSet(core) = {core[i] : i \in 1..Len(core)}
  BY Machines DEF Base, TypeOK
<1>1. CASE Begin
  BY <1>1 DEF Begin
<1>2. ASSUME NEW k \in 1..MaxNodes, NEW z \in Sizes, SaveInstance(k, z) PROVE KeysFollowed'
  BY <1>2 DEF SaveInstance
<1>3. CASE DeleteInstance
  BY <1>3 DEF DeleteInstance, Base, TypeOK, Row
<1>4. CASE PreDelete
  BY <1>4 DEF PreDelete, Idle
<1>5. CASE Load
  BY <1>5 DEF Load
<1>6. CASE GetPrivateKeys
  BY <1>6 DEF GetPrivateKeys, Base, TypeOK
<1>7. CASE ActualizeInfra
  <2>1. builder.row \in Row /\ builder'.at = "idle" /\ tracked' = builder.actual /\ core' = core
    BY <1>7 DEF ActualizeInfra, Base, IterationLoaded, Idle
  <2>2. ToSet(core) \cap ToSet(builder.actual.nodes) \subseteq builder.keys
    BY <1>7 DEF ActualizeInfra
  <2>3. ToSet(core) \cap ToSet(builder.actual.nodes) \cap RaftMembers \subseteq keys'
    BY <1>7, <2>2 DEF ActualizeInfra, NodeKeys, Reported
  <2>4. ASSUME ~behind', ~Deleted' PROVE row'.nodes = builder.row.nodes
    <3>1. row' = ReadBack
      BY <1>7, <2>4 DEF RowFollowed, ActualizeInfra, WriteBack
    <3> QED BY <2>1, <3>1 DEF ReadBack, Row
  <2> QED BY <2>1, <2>3, <2>4 DEF RaftMembers
<1>8. CASE RemoveNode
  <2>1. core' = SubSeq(core, 1, Len(core) - 1) /\ Len(core) - 1 \in 0..Len(core)
    BY <1>0, <1>8 DEF RemoveNode, Front, Base, TypeOK
  <2>2. ToSet(core') \subseteq ToSet(core)
    <3>1. ToSet(core') = {core[i] : i \in 1..Len(core) - 1}
      BY <1>0, <2>1, FirstMachines
    <3> QED BY <1>0, <3>1
  <2> QED BY <1>8, <2>2 DEF RemoveNode
<1>9. CASE AddNode
  <2>1. PICK n \in Forgotten : core' = Append(core, n)
    BY <1>9 DEF AddNode
  <2>2. /\ n \in Nodes \ ToSet(core)
        /\ tracked # Absent => n \notin ToSet(tracked.nodes)
        /\ builder.actual # Absent => n \notin ToSet(builder.actual.nodes)
    BY <2>1 DEF Forgotten, Listed
  <2>3. ToSet(core') = ToSet(core) \cup {n}
    <3>1. Len(core) < MaxNodes
      BY <1>0, <1>9, Numbers DEF AddNode, Base, TypeOK
    <3> QED BY <1>0, <2>1, <2>2, <3>1, OneMore
  <2>4. builder.at = "keys" => builder.actual # Absent
    BY DEF Base, IterationLoaded
  <2> QED BY <1>9, <2>2, <2>3, <2>4 DEF AddNode
<1>10. CASE Report
  BY <1>10 DEF Report
<1>11. ASSUME NEW n \in Nodes, Deliver(n) PROVE KeysFollowed'
  BY <1>11 DEF Deliver
<1>12. CASE UNCHANGED vars
  BY <1>12 DEF vars
<1> QED BY <1>1, <1>2, <1>3, <1>4, <1>5, <1>6, <1>7, <1>8, <1>9, <1>10, <1>11, <1>12
       DEF Next, Serve, Build, Provision

(* When nobody has anything left to do, every machine knows all machines, and
   the row shows them. *)
LEMMA AtRest ==
  ASSUME Base, RowFollowed, KeysFollowed, Resting, ~Deleted
  PROVE  /\ builder = Idle
         /\ target.replicas = row.nodes /\ target.size = row.size /\ Len(core) = row.nodes
         /\ actual = NodeSetNow
         /\ \A n \in ToSet(core) : config[n] = ToSet(core) /\ view[n] = ToSet(core)
         /\ row.ips = core /\ row.status = "ACTIVE" /\ ToSet(core) \subseteq keys
<1>1. /\ builder = Idle /\ ~behind /\ tracked = actual /\ actual = NodeSetNow
      /\ Len(core) = target.replicas
      /\ \A n \in ToSet(core) : config[n] # {} => view[n] = config[n] \cup {n}
  BY DEF Resting
<1>2. core \in NodeSet /\ row.nodes \in Nat \ {0}
  BY Numbers DEF Base, TypeOK, Row, Deleted
<1>3. tracked # Absent /\ tracked.nodes = core /\ tracked.status = "ACTIVE"
  <2>1. NodeSetNow \in Reports \ {Absent}
    <3>1. NodeSetNow \in NodeSetReport
      BY <1>2 DEF NodeSetNow, Status, NodeSetReport
    <3> QED BY <3>1, AbsentAssumption DEF Reports
  <2> QED BY <1>1, <2>1 DEF NodeSetNow, Status
<1>4. /\ target.replicas = row.nodes /\ target.size = row.size
      /\ core # << >> => row.ips = core
      /\ row.status = "ACTIVE"
      /\ \A n \in ToSet(core) : config[n] = Members(core, row.nodes)
      /\ ToSet(core) \cap Members(core, row.nodes) \subseteq keys
  BY <1>1, <1>3 DEF RowFollowed, KeysFollowed, Idle, InstanceStatus
<1>5. Members(core, row.nodes) = ToSet(core) /\ core # << >>
  <2>1. Len(core) <= row.nodes /\ Len(core) # 0
    BY <1>1, <1>2, <1>4
  <2> QED BY <1>2, <2>1, MembersOf, Numbers
<1>6. ASSUME NEW n \in ToSet(core) PROVE config[n] = ToSet(core) /\ view[n] = ToSet(core)
  <2>1. config[n] = ToSet(core)
    BY <1>4, <1>5
  <2>2. view[n] = ToSet(core) \cup {n}
    BY <1>1, <2>1
  <2> QED BY <2>1, <2>2
<1> QED BY <1>1, <1>4, <1>5, <1>6

-----------------------------------------------------------------------------
(* While the machines and nodes_number stay, or the last machine goes, every
   step leaves what the nodes know between the two node sets. *)
LEMMA BetweenStays ==
  ASSUME Base, NEW big \in NodeSet, NEW small \in NodeSet,
         ToSet(small) \subseteq ToSet(big),
         \A s \in {big, small} : Members(s, row.nodes) \in {ToSet(big), ToSet(small)},
         Between(big, small), [Next]_vars,
         row'.nodes = row.nodes, ~Deleted,
         core' \in {big, small}, ToSet(core') \subseteq ToSet(core)
  PROVE  Between(big, small)'
<1> USE DEF Between, NodesKnow, api, machines, targets
<1>0. /\ core \in NodeSet /\ ToSet(core) \subseteq Nodes
      /\ config \in [Nodes -> SUBSET Nodes] /\ view \in [Nodes -> SUBSET Nodes]
  BY Machines DEF Base, TypeOK
<1>1. ASSUME UNCHANGED <<actual, builder, config, view>> PROVE Between(big, small)'
  BY <1>1
<1>2. CASE Load
  BY <1>2 DEF Load
<1>3. CASE GetPrivateKeys
  BY <1>3 DEF GetPrivateKeys, Base, TypeOK
<1>4. CASE ActualizeInfra
  <2>1. builder.actual.nodes \in {big, small} /\ builder.row.nodes = row.nodes
    BY <1>4 DEF ActualizeInfra, Base, IterationLoaded
  <2>2. RaftMembers \in {ToSet(big), ToSet(small)}
    BY <2>1 DEF RaftMembers
  <2>3. \A n \in Nodes : config'[n] \in {{}, ToSet(big), ToSet(small)}
    BY <1>4, <2>2 DEF ActualizeInfra, Configs
  <2> QED BY <1>0, <1>4, <2>3 DEF ActualizeInfra, Idle
<1>5. CASE RemoveNode
  <2>1. \A n \in Nodes : view'[n] \in {{}, view[n]}
    BY <1>0, <1>5 DEF RemoveNode
  <2> QED BY <1>0, <1>5, <2>1 DEF RemoveNode
<1>6. CASE Report
  BY <1>6 DEF Report, NodeSetNow
<1>7. ASSUME NEW n \in Nodes, Deliver(n) PROVE Between(big, small)'
  <2>1. n \in ToSet(big) /\ config[n] \in {ToSet(big), ToSet(small)}
    BY <1>7 DEF Deliver
  <2>2. view' = [view EXCEPT ![n] = config[n] \cup {n}] /\ UNCHANGED <<core, actual, builder, config>>
    BY <1>7 DEF Deliver
  <2>3. \A m \in ToSet(core) : view'[m] \in {{}, ToSet(big), ToSet(small) \cup {m}}
    BY <1>0, <2>1, <2>2
  <2> QED BY <2>2, <2>3
<1>8. CASE Begin \/ \E k \in 1..MaxNodes, z \in Sizes : SaveInstance(k, z)
  BY <1>1, <1>8 DEF Begin, SaveInstance
<1>9. CASE DeleteInstance \/ PreDelete \/ AddNode \/ UNCHANGED vars
  BY <1>1, <1>9 DEF DeleteInstance, PreDelete, AddNode, vars
<1> QED BY <1>2, <1>3, <1>4, <1>5, <1>6, <1>7, <1>8, <1>9 DEF Next, Serve, Build, Provision

(* The machines change only by AddNode and RemoveNode, the target only to what
   the row says. *)
LEMMA MachinesStep ==
  ASSUME [Next]_vars, ~Deleted, builder.at # "idle" => builder.row.nodes = row.nodes
  PROVE  /\ core' = core \/ (AddNode /\ UNCHANGED target) \/ (RemoveNode /\ UNCHANGED target)
         /\ target'.replicas \in {target.replicas, row.nodes}
<1> USE DEF api, machines, targets
<1>1. CASE Serve
  BY <1>1 DEF Serve, Begin, DeleteInstance, SaveInstance
<1>2. CASE Build
  BY <1>2 DEF Build, PreDelete, Load, GetPrivateKeys, ActualizeInfra, Target
<1>3. CASE Provision
  BY <1>3 DEF Provision, RemoveNode, AddNode, Report
<1>4. ASSUME NEW n \in Nodes, Deliver(n) PROVE core' = core /\ UNCHANGED target
  BY <1>4 DEF Deliver
<1>5. CASE UNCHANGED vars
  BY <1>5 DEF vars
<1> QED BY <1>1, <1>2, <1>3, <1>4, <1>5 DEF Next

LEMMA GrowingStays ==
  ASSUME Base, Growing, [Next]_vars, ~Deleted, row'.nodes = row.nodes
  PROVE  Growing'
<1>0. /\ core \in NodeSet /\ row.nodes \in Nat \ {0} /\ target.replicas \in Nat
      /\ row.nodes <= MaxNodes /\ MaxNodes \in Nat /\ Len(core) \in Nat
      /\ Len(core) \in {row.nodes - 1, row.nodes} /\ Len(core) <= target.replicas
      /\ target.replicas \in {row.nodes - 1, row.nodes}
      /\ builder.at # "idle" => builder.row.nodes = row.nodes
  BY Numbers, Machines DEF Base, TypeOK, Row, Deleted, Growing, Between
<1>1. PICK big \in NodeSet, small \in NodeSet :
        big = core /\ small = SubSeq(core, 1, row.nodes - 1)
  <2>1. row.nodes - 1 \in 0..Len(core)
    BY <1>0
  <2> QED BY <1>0, <2>1, FirstMachines
<1>2. /\ Between(big, small)
      /\ Len(big) \in {row.nodes - 1, row.nodes} /\ Len(small) = row.nodes - 1
      /\ ToSet(small) \subseteq ToSet(big)
  <2>1. row.nodes - 1 \in 0..Len(core)
    BY <1>0
  <2>2. /\ Len(small) = row.nodes - 1
        /\ ToSet(small) = {core[i] : i \in 1..row.nodes - 1}
        /\ ToSet(core) = {core[i] : i \in 1..Len(core)}
    BY <1>0, <1>1, <2>1, FirstMachines, Machines
  <2> QED BY <1>0, <1>1, <2>1, <2>2 DEF Growing
<1>3. /\ core' = core \/ (AddNode /\ UNCHANGED target) \/ (RemoveNode /\ UNCHANGED target)
      /\ target'.replicas \in {target.replicas, row.nodes}
  BY <1>0, MachinesStep
<1>4. ASSUME core' = core PROVE Growing'
  <2>1. /\ Len(big) <= row.nodes /\ Len(small) <= row.nodes
    BY <1>0, <1>2
  <2>2. \A s \in {big, small} : Members(s, row.nodes) \in {ToSet(big), ToSet(small)}
    BY <1>0, <2>1, MembersOf
  <2>3. Between(big, small)'
    BY <1>1, <1>2, <1>4, <2>2, BetweenStays
  <2>4. Between(core, SubSeq(core, 1, row.nodes - 1))'
    BY <1>1, <1>4, <2>3 DEF Between, NodesKnow
  <2>5. /\ Len(core') \in {row'.nodes - 1, row'.nodes}
        /\ target'.replicas \in {row'.nodes - 1, row'.nodes}
        /\ Len(core') <= target'.replicas
    BY <1>0, <1>3, <1>4
  <2> QED BY <2>4, <2>5 DEF Growing
<1>5. CASE AddNode /\ UNCHANGED target
  <2>1. Len(core) = row.nodes - 1 /\ target.replicas = row.nodes /\ Len(core) < MaxNodes
    BY <1>0, <1>5 DEF AddNode
  <2>2. small = big
    BY <1>0, <1>1, <2>1, AllMachines
  <2>3. PICK n \in Forgotten : core' = Append(core, n)
    BY <1>5 DEF AddNode
  <2>4. n \in Nodes \ ToSet(core) /\ config[n] = {} /\ view[n] = {}
    <3>1. n \in Nodes \ ToSet(core) /\ n \notin Configured /\ n \notin view[n]
      BY <2>3 DEF Forgotten
    <3> QED BY <3>1 DEF Configured, Base, KnowsItself
  <2>5. /\ core' \in NodeSet /\ Len(core') = row.nodes
        /\ SubSeq(core', 1, row.nodes - 1) = core
        /\ ToSet(core') = ToSet(core) \cup {n}
    BY <1>0, <2>1, <2>3, <2>4, OneMore
  <2>6. UNCHANGED <<actual, builder, config, view>>
    BY <1>5 DEF AddNode, targets
  <2>7. \A report \in {actual, builder.actual} : report # Absent => report.nodes = core
    BY <1>1, <1>2, <2>2 DEF Between
  <2>8. \A m \in ToSet(core) : config[m] \in {{}, ToSet(core)} /\ view[m] \in {{}, ToSet(core) \cup {m}}
    BY <1>1, <1>2, <2>2 DEF Between, NodesKnow
  <2>9. Between(core, SubSeq(core, 1, row.nodes - 1))'
    BY <1>0, <2>4, <2>5, <2>6, <2>7, <2>8 DEF Between, NodesKnow
  <2> QED BY <1>0, <1>5, <2>1, <2>5, <2>9 DEF Growing
<1>6. ~RemoveNode
  BY <1>0 DEF RemoveNode
<1> QED BY <1>3, <1>4, <1>5, <1>6

LEMMA ShrinkingStays ==
  ASSUME Base, NEW big \in NodeSet, ShrinkingFrom(big), [Next]_vars, ~Deleted, row'.nodes = row.nodes
  PROVE  ShrinkingFrom(big)'
<1>0. /\ core \in NodeSet /\ row.nodes \in Nat \ {0} /\ target.replicas \in Nat
      /\ Len(big) = row.nodes + 1
      /\ target.replicas \in {row.nodes, row.nodes + 1}
      /\ core # big => target.replicas = row.nodes
      /\ builder.at # "idle" => builder.row.nodes = row.nodes
  BY Numbers DEF Base, TypeOK, Row, Deleted, ShrinkingFrom, Between
<1>1. PICK small \in NodeSet : small = SubSeq(big, 1, row.nodes)
  <2>1. row.nodes \in 0..Len(big)
    BY <1>0
  <2> QED BY <2>1, FirstMachines
<1>2. /\ Between(big, small) /\ core \in {big, small}
      /\ Len(small) = row.nodes
      /\ ToSet(small) \subseteq ToSet(big)
  <2>1. row.nodes \in 0..Len(big)
    BY <1>0
  <2>2. /\ Len(small) = row.nodes
        /\ ToSet(small) = {big[i] : i \in 1..row.nodes}
        /\ ToSet(big) = {big[i] : i \in 1..Len(big)}
    BY <1>0, <1>1, <2>1, FirstMachines, Machines
  <2> QED BY <1>0, <1>1, <2>1, <2>2 DEF ShrinkingFrom, Between
<1>3. /\ core' = core \/ (AddNode /\ UNCHANGED target) \/ (RemoveNode /\ UNCHANGED target)
      /\ target'.replicas \in {target.replicas, row.nodes}
  BY <1>0, MachinesStep
<1>4. \A s \in {big, small} : Members(s, row.nodes) \in {ToSet(big), ToSet(small)}
  <2>1. Len(big) > row.nodes /\ Len(small) <= row.nodes
    BY <1>0, <1>2
  <2> QED BY <1>0, <1>1, <2>1, MembersOf
<1>5. ~AddNode
  BY <1>0, <1>2 DEF AddNode
<1>6. ASSUME RemoveNode, UNCHANGED target PROVE core' = small /\ core = big /\ target'.replicas = row.nodes
  <2>1. core = big
    BY <1>0, <1>2, <1>6 DEF RemoveNode
  <2>2. core' = SubSeq(big, 1, Len(big) - 1) /\ target.replicas < Len(big)
    BY <1>6, <2>1 DEF RemoveNode, Front
  <2>3. Len(big) - 1 = row.nodes
    BY <1>0
  <2> QED BY <1>0, <1>1, <1>6, <2>1, <2>2, <2>3
<1>7. /\ core' \in {big, small} /\ ToSet(core') \subseteq ToSet(core)
      /\ core' # big => target'.replicas = row.nodes
  BY <1>0, <1>2, <1>3, <1>5, <1>6
<1>8. Between(big, small)'
  BY <1>2, <1>4, <1>7, BetweenStays
<1>9. Between(big, SubSeq(big, 1, row.nodes))'
  BY <1>1, <1>8 DEF Between, NodesKnow
<1>10. /\ Len(big) = row'.nodes + 1
       /\ target'.replicas \in {row'.nodes, row'.nodes + 1}
       /\ core' # big => target'.replicas = row'.nodes
  BY <1>0, <1>3, <1>7
<1> QED BY <1>9, <1>10 DEF ShrinkingFrom

LEMMA LeavingStays ==
  ASSUME Base, Leaving, Deleted, [Next]_vars
  PROVE  Leaving'
<1> USE DEF api, machines, targets, NodesKnow, Leaving
<1>0. /\ core \in NodeSet /\ Len(core) \in Nat /\ ToSet(core) = {core[i] : i \in 1..Len(core)}
      /\ config \in [Nodes -> SUBSET Nodes] /\ view \in [Nodes -> SUBSET Nodes]
      /\ target.replicas \in Nat /\ ToSet(core) \subseteq Nodes
  BY Machines, Numbers DEF Base, TypeOK
<1>1. ASSUME UNCHANGED <<builder, target, core, config, view>> PROVE Leaving'
  BY <1>1
<1>2. CASE Serve
  BY <1>1, <1>2 DEF Serve, Begin, DeleteInstance, SaveInstance
<1>3. CASE PreDelete
  <2>1. target'.replicas = 0 /\ config' = [n \in Nodes |-> {}] /\ UNCHANGED <<builder, core, view>>
    BY <1>0, <1>3 DEF PreDelete, Base, TypeOK
  <2> QED BY <1>0, <2>1
<1>4. ~Load /\ ~GetPrivateKeys /\ ~ActualizeInfra /\ ~AddNode
  BY <1>0 DEF Load, GetPrivateKeys, ActualizeInfra, AddNode
<1>5. CASE RemoveNode
  <2>1. /\ UNCHANGED <<builder, target, config>> /\ target.replicas < Len(core)
        /\ core' = SubSeq(core, 1, Len(core) - 1)
        /\ view' = [view EXCEPT ![Last(core)] = {}]
    BY <1>0, <1>5 DEF RemoveNode, Front
  <2>2. Len(core) - 1 \in 0..Len(core)
    BY <1>0, <2>1
  <2>3. Len(core') = Len(core) - 1 /\ ToSet(core') \subseteq ToSet(core)
    <3>1. Len(core') = Len(core) - 1 /\ ToSet(core') = {core[i] : i \in 1..Len(core) - 1}
      BY <1>0, <2>1, <2>2, FirstMachines
    <3> QED BY <1>0, <3>1
  <2>4. target'.replicas <= Len(core') /\ builder'.at = "idle"
    BY <1>0, <2>1, <2>3
  <2>5. \A n \in ToSet(core) : view'[n] \in {{}, view[n]}
    BY <1>0, <2>1
  <2> QED BY <2>1, <2>3, <2>4, <2>5
<1>6. CASE Report
  BY <1>1, <1>6 DEF Report
<1>7. ASSUME NEW n \in Nodes, Deliver(n) PROVE Leaving'
  <2>1. /\ n \in ToSet(core) /\ config[n] # {} /\ view' = [view EXCEPT ![n] = config[n] \cup {n}]
        /\ UNCHANGED <<builder, target, core, config>>
    BY <1>7 DEF Deliver
  <2>2. PICK all \in NodeSet : ToSet(core) \subseteq ToSet(all) /\ NodesKnow(all, all)
    OBVIOUS
  <2>3. \A m \in ToSet(core) : view'[m] \in {{}, ToSet(all), ToSet(all) \cup {m}}
    BY <1>0, <2>1, <2>2
  <2> QED BY <2>1, <2>2, <2>3
<1>8. CASE UNCHANGED vars
  BY <1>1, <1>8 DEF vars
<1> QED BY <1>2, <1>3, <1>4, <1>5, <1>6, <1>7, <1>8 DEF Next, Build, Provision

(* A change that is made when everything is settled, by at most one machine. *)
LEMMA SettledSave ==
  ASSUME Base, RowFollowed, KeysFollowed, Settled, ~Deleted,
         row'.nodes \in Nat \ {0}, row'.nodes - row.nodes \in -1..1,
         UNCHANGED <<machines, targets, builder>>
  PROVE  Growing' \/ \E big \in NodeSet : ShrinkingFrom(big)'
<1> USE DEF machines, targets
<1>0. /\ core \in NodeSet /\ Len(core) \in Nat /\ row.nodes \in Nat
      /\ builder = Idle /\ target.replicas = row.nodes /\ Len(core) = row.nodes
      /\ actual = NodeSetNow /\ actual.nodes = core
      /\ \A n \in ToSet(core) : config[n] = ToSet(core) /\ view[n] = ToSet(core)
  BY AtRest, Machines, Numbers DEF Settled, Base, TypeOK, Row, NodeSetNow
<1>1. ASSUME NEW k \in Nat PROVE Between(core, SubSeq(core, 1, k))'
  BY <1>0 DEF Between, NodesKnow, Idle
<1>2. CASE row'.nodes \in {row.nodes, row.nodes + 1}
  <2>1. row'.nodes - 1 \in Nat
    OBVIOUS
  <2>2. Between(core, SubSeq(core, 1, row.nodes - 1))'
    BY <1>1, <2>1
  <2> QED BY <1>0, <1>2, <2>2 DEF Growing
<1>3. CASE row'.nodes = row.nodes - 1
  <2>1. PICK big \in NodeSet : big = core
    BY <1>0
  <2>2. Between(big, SubSeq(big, 1, row.nodes))'
    BY <1>1, <2>1 DEF Between, NodesKnow
  <2>3. /\ Len(big) = row'.nodes + 1 /\ core' = big
        /\ target'.replicas \in {row'.nodes, row'.nodes + 1}
    BY <1>0, <1>3, <2>1
  <2>4. ShrinkingFrom(big)'
    BY <2>2, <2>3 DEF ShrinkingFrom
  <2> QED BY <2>4
<1> QED BY <1>0, <1>2, <1>3

LEMMA NextCalm == ASSUME Base, RowFollowed, KeysFollowed, Calm, [Next]_vars PROVE Calm'
<1> DEFINE Resizing == Growing \/ \E big \in NodeSet : ShrinkingFrom(big)
<1>0. row \in Row /\ row.nodes \in Nat /\ row.nodes \in 0..MaxNodes /\ MaxNodes \in Nat
  BY Numbers DEF Base, TypeOK, Row
<1>1. ASSUME Resizing, ~Deleted, row'.nodes = row.nodes PROVE Calm'
  <2>1. Growing' \/ \E big \in NodeSet : ShrinkingFrom(big)'
    BY <1>1, GrowingStays, ShrinkingStays
  <2>2. ~Deleted'
    BY <1>1 DEF Deleted
  <2> QED BY <2>1, <2>2 DEF Calm
<1>2. ASSUME Deleted, Leaving PROVE Calm'
  <2>1. Leaving'
    BY <1>2, LeavingStays
  <2>2. Deleted'
    BY <1>2 DEF Deleted, Next, Serve, Build, Provision, Begin, SaveInstance, DeleteInstance,
       PreDelete, Load, GetPrivateKeys, ActualizeInfra, WriteBack, AddNode, RemoveNode, Report, Deliver,
       api, vars
  <2> QED BY <2>1, <2>2 DEF Calm
<1>3. ASSUME NEW k \in 1..MaxNodes, NEW z \in Sizes, SaveInstance(k, z), calm' PROVE Calm'
  <2>1. /\ ~Deleted /\ row'.nodes = k /\ UNCHANGED <<machines, targets, builder>>
        /\ k \in Nat \ {0}
    BY <1>0, <1>3 DEF SaveInstance, Base, TypeOK, Row
  <2>2. CASE Settled
    <3>1. row'.nodes - row.nodes \in -1..1
      BY <1>3, <2>1, <2>2 DEF SaveInstance
    <3>2. Growing' \/ \E big \in NodeSet : ShrinkingFrom(big)'
      BY <2>1, <2>2, <3>1, SettledSave
    <3>3. ~Deleted'
      BY <2>1 DEF Deleted
    <3> QED BY <3>2, <3>3 DEF Calm
  <2>3. CASE ~Settled
    <3>1. calm /\ row'.nodes = row.nodes
      BY <1>3, <2>1, <2>3 DEF SaveInstance
    <3> QED BY <1>1, <2>1, <3>1 DEF Calm
  <2> QED BY <2>2, <2>3
<1>4. ASSUME DeleteInstance, calm' PROVE Calm'
  <2>1. /\ Settled /\ ~Deleted /\ row'.nodes = 0
        /\ UNCHANGED <<machines, targets, builder>>
    BY <1>0, <1>4 DEF DeleteInstance, Row
  <2>2. /\ core \in NodeSet /\ builder = Idle /\ target.replicas = Len(core)
        /\ \A n \in ToSet(core) : config[n] = ToSet(core) /\ view[n] = ToSet(core)
    BY <2>1, AtRest DEF Settled, Base, TypeOK
  <2>3. Len(core) \in Nat
    BY <2>2, Machines
  <2>4. PICK all \in NodeSet : all = core
    BY <2>2
  <2>5. NodesKnow(all, all)' /\ ToSet(core') \subseteq ToSet(all)
    BY <2>1, <2>2, <2>4 DEF NodesKnow, machines, targets
  <2>6. builder'.at = "idle" /\ target'.replicas <= Len(core')
    BY <2>1, <2>2, <2>3 DEF machines, targets, Idle
  <2>7. Leaving' /\ Deleted'
    BY <2>1, <2>5, <2>6 DEF Leaving, Deleted
  <2> QED BY <2>7 DEF Calm
<1>5. ASSUME calm' = calm, row'.nodes = row.nodes PROVE Calm'
  <2>1. CASE ~calm
    BY <1>5, <2>1 DEF Calm
  <2>2. CASE calm
    BY <1>1, <1>2, <1>5, <2>2 DEF Calm
  <2> QED BY <2>1, <2>2 DEF Base, TypeOK
<1>6. CASE ActualizeInfra
  <2>1. CASE calm /\ ~Deleted
    <3>1. builder.row.nodes = row.nodes /\ builder.row \in Row
      BY <1>6, <2>1 DEF Calm, Growing, ShrinkingFrom, Between, ActualizeInfra, Base, IterationLoaded
    <3>2. row'.nodes = row.nodes
      BY <1>6, <3>1 DEF ActualizeInfra, WriteBack, ReadBack, Row
    <3> QED BY <1>1, <2>1, <3>2 DEF Calm
  <2>2. CASE calm /\ Deleted
    BY <1>2, <2>2 DEF Calm
  <2>3. CASE ~calm
    BY <1>6, <2>3 DEF ActualizeInfra, Calm
  <2> QED BY <2>1, <2>2, <2>3
<1>7. CASE Begin \/ PreDelete \/ Load \/ GetPrivateKeys
  BY <1>5, <1>7 DEF Begin, PreDelete, Load, GetPrivateKeys, api
<1>8. CASE Provision
  BY <1>5, <1>8 DEF Provision, RemoveNode, Report, AddNode, api
<1>9. ASSUME NEW n \in Nodes, Deliver(n) PROVE Calm'
  BY <1>5, <1>9 DEF Deliver, api
<1>10. CASE UNCHANGED vars
  BY <1>5, <1>10 DEF vars, api
<1>11. ~calm' => Calm'
  BY DEF Calm
<1> QED BY <1>3, <1>4, <1>6, <1>7, <1>8, <1>9, <1>10, <1>11 DEF Next, Serve, Build

LEMMA InitIInv == Init => IInv
<1> SUFFICES ASSUME Init PROVE IInv
  OBVIOUS
<1>1. Base
  BY InitBase
<1>2. RowFollowed /\ KeysFollowed
  BY DEF Init, RowFollowed, KeysFollowed, Idle
<1>3. Calm
  <2> SUFFICES ASSUME calm PROVE Growing /\ ~Deleted
    BY DEF Calm
  <2>1. /\ row.nodes = 1 /\ target.replicas = 1
        /\ core = << >> /\ actual = Absent /\ builder = Idle
        /\ config = [n \in Nodes |-> {}] /\ view = [n \in Nodes |-> {}]
    <3>1. PICK k \in 1..MaxNodes, z \in Sizes :
            /\ row = [nodes |-> k, size |-> z, ips |-> << >>, status |-> "NEW"]
            /\ target = [replicas |-> k, size |-> z]
            /\ calm = (k = 1)
      BY DEF Init
    <3>2. k = 1
      BY <3>1, Zenon
    <3> QED BY <3>1, <3>2 DEF Init
  <2>2. Between(core, SubSeq(core, 1, row.nodes - 1))
    BY <2>1, Numbers DEF Between, NodesKnow, Idle
  <2> QED BY <2>1, <2>2, Numbers DEF Growing, Deleted
<1> QED BY <1>1, <1>2, <1>3 DEF IInv, Base

LEMMA NextIInv == IInv /\ [Next]_vars => IInv'
<1> SUFFICES ASSUME IInv, [Next]_vars PROVE IInv'
  OBVIOUS
<1>1. Base /\ RowFollowed /\ KeysFollowed /\ Calm
  BY DEF IInv, Base
<1>2. Base' /\ RowFollowed' /\ KeysFollowed' /\ Calm'
  BY <1>1, NextBase, NextRowFollowed, NextKeysFollowed, NextCalm
<1> QED BY <1>2 DEF IInv, Base

LEMMA Invariance == Spec => []IInv
  BY InitIInv, NextIInv, PTL DEF Spec

(* When the builder, Core and the nodes see nothing left to do, machines, raft
   partners, keys and the row fit each other, for any number of machines and
   requests and any order of what they exchange. *)
THEOREM RestRight == Spec => []RestsRight
<1>1. IInv => RestsRight
  <2> SUFFICES ASSUME IInv, Resting, ~Deleted PROVE RestsRight
    BY DEF RestsRight
  <2>1. Base /\ RowFollowed /\ KeysFollowed
    BY DEF IInv, Base
  <2> QED BY <2>1, AtRest DEF RestsRight
<1> QED BY <1>1, Invariance, PTL

-----------------------------------------------------------------------------
(* Majorities. *)

(* Of sets of nodes that all lie between two that differ by one node at most, any
   two majorities overlap. *)
LEMMA Majorities ==
  ASSUME NEW big, IsFiniteSet(big),
         NEW small \in SUBSET big, NEW x, big \subseteq small \cup {x},
         NEW A \in SUBSET big, small \subseteq A,
         NEW B \in SUBSET big, small \subseteq B,
         NEW P \in SUBSET A, 2 * Cardinality(P) > Cardinality(A),
         NEW Q \in SUBSET B, 2 * Cardinality(Q) > Cardinality(B)
  PROVE  P \cap Q # {}
<1>1. A \subseteq big /\ B \subseteq big
  OBVIOUS
<1>2. /\ IsFiniteSet(A) /\ IsFiniteSet(B) /\ IsFiniteSet(P) /\ IsFiniteSet(Q)
      /\ IsFiniteSet(small)
  BY <1>1, FS_Subset
<1>3. /\ Cardinality(big) \in Nat /\ Cardinality(small) \in Nat
      /\ Cardinality(A) \in Nat /\ Cardinality(B) \in Nat
      /\ Cardinality(P) \in Nat /\ Cardinality(Q) \in Nat
  BY <1>2, FS_CardinalityType
<1>4. Cardinality(big) <= Cardinality(small) + 1
  <2>1. IsFiniteSet(small \cup {x}) /\ Cardinality(small \cup {x}) <= Cardinality(small) + 1
    <3>1. IsFiniteSet({x}) /\ Cardinality({x}) = 1
      BY FS_Singleton
    <3>2. /\ IsFiniteSet(small \cup {x})
          /\ Cardinality(small \cup {x}) =
               Cardinality(small) + Cardinality({x}) - Cardinality(small \cap {x})
      BY <1>2, <3>1, FS_Union
    <3>3. Cardinality(small \cap {x}) \in Nat
      BY <1>2, FS_Subset, FS_CardinalityType
    <3> QED BY <1>3, <3>1, <3>2, <3>3
  <2>2. Cardinality(big) <= Cardinality(small \cup {x})
    BY <2>1, FS_Subset
  <2>3. Cardinality(small \cup {x}) \in Nat
    BY <2>1, FS_CardinalityType
  <2> QED BY <1>3, <2>1, <2>2, <2>3
<1>5. Cardinality(small) <= Cardinality(A) /\ Cardinality(small) <= Cardinality(B)
  BY <1>2, FS_Subset
<1>6. CASE A = big \/ B = big
  <2>1. Cardinality(P) + Cardinality(Q) > Cardinality(big)
    <3>1. CASE A = big
      BY <1>3, <1>4, <1>5, <3>1
    <3>2. CASE B = big
      BY <1>3, <1>4, <1>5, <3>2
    <3> QED BY <1>6, <3>1, <3>2
  <2>2. P \subseteq big /\ Q \subseteq big
    BY <1>1
  <2> QED BY <2>1, <2>2, FS_MajoritiesIntersect
<1>7. CASE A # big /\ B # big
  <2>1. A = small /\ B = small
    BY <1>7
  <2>2. Cardinality(P) + Cardinality(Q) > Cardinality(small)
    BY <1>3, <2>1
  <2>3. P \subseteq small /\ Q \subseteq small
    BY <2>1
  <2> QED BY <1>2, <2>2, <2>3, FS_MajoritiesIntersect
<1> QED BY <1>6, <1>7

(* What the nodes know is always between two node sets of which one has a
   machine more. *)
LEMMA OneApart ==
  ASSUME IInv, calm
  PROVE  \E big, small \in SUBSET Nodes : \E x :
           /\ small \subseteq big /\ big \subseteq small \cup {x}
           /\ ToSet(core) \subseteq big
           /\ \A n \in ToSet(core) : view[n] \in {{}, big, small \cup {n}}
<1>0. /\ core \in NodeSet /\ Len(core) \in Nat /\ row.nodes \in Nat
      /\ ToSet(core) \subseteq Nodes
  BY Machines, Numbers DEF IInv, TypeOK, Row
<1>1. CASE Deleted
  <2>1. PICK all \in NodeSet : ToSet(core) \subseteq ToSet(all) /\ NodesKnow(all, all)
    BY <1>1 DEF IInv, Calm, Leaving
  <2>2. ToSet(all) \in SUBSET Nodes
    BY Machines
  <2> QED BY <2>1, <2>2 DEF NodesKnow
<1>2. ASSUME NEW big \in NodeSet, NEW k \in Nat, k = Len(big) \/ k + 1 = Len(big),
             Between(big, SubSeq(big, 1, k))
      PROVE  \E b, small \in SUBSET Nodes : \E x :
               /\ small \subseteq b /\ b \subseteq small \cup {x}
               /\ ToSet(core) \subseteq b
               /\ \A n \in ToSet(core) : view[n] \in {{}, b, small \cup {n}}
  <2> DEFINE small == SubSeq(big, 1, k)
  <2>1. Len(big) \in Nat /\ k \in 0..Len(big)
    BY <1>2, Machines
  <2>2. /\ small \in NodeSet
        /\ ToSet(small) = {big[i] : i \in 1..k} /\ ToSet(big) = {big[i] : i \in 1..Len(big)}
        /\ ToSet(small) \in SUBSET Nodes /\ ToSet(big) \in SUBSET Nodes
    BY <2>1, FirstMachines, Machines
  <2>3. ToSet(small) \subseteq ToSet(big) /\ ToSet(big) \subseteq ToSet(small) \cup {big[k + 1]}
    BY <1>2, <2>1, <2>2
  <2>4. /\ ToSet(core) \subseteq ToSet(big)
        /\ \A n \in ToSet(core) : view[n] \in {{}, ToSet(big), ToSet(small) \cup {n}}
    BY <1>2, <2>3 DEF Between, NodesKnow
  <2> HIDE DEF small
  <2> QED BY <2>2, <2>3, <2>4
<1>3. CASE ~Deleted /\ Growing
  <2>1. PICK big \in NodeSet, k \in Nat : big = core /\ k = row.nodes - 1
    BY <1>0, <1>3 DEF Deleted
  <2>2. Between(big, SubSeq(big, 1, k)) /\ (k = Len(big) \/ k + 1 = Len(big))
    BY <1>0, <1>3, <2>1 DEF Growing
  <2> QED BY <1>2, <2>2
<1>4. ASSUME NEW big \in NodeSet, ShrinkingFrom(big)
      PROVE  \E b, small \in SUBSET Nodes : \E x :
               /\ small \subseteq b /\ b \subseteq small \cup {x}
               /\ ToSet(core) \subseteq b
               /\ \A n \in ToSet(core) : view[n] \in {{}, b, small \cup {n}}
  <2>1. PICK k \in Nat : k = row.nodes
    BY <1>0
  <2>2. Between(big, SubSeq(big, 1, k)) /\ k + 1 = Len(big)
    BY <1>4, <2>1 DEF ShrinkingFrom
  <2> QED BY <1>2, <2>2
<1> QED BY <1>1, <1>3, <1>4 DEF IInv, Calm

(* As long as nodes_number changes by one at a time, and only once the change
   before has settled, no two leaders can be elected by nodes that have nothing
   in common: for any number of machines, whatever is delivered late. *)
THEOREM Overlap == Spec => []QuorumsOverlap
<1>1. IInv => QuorumsOverlap
  <2> SUFFICES ASSUME IInv, calm, NEW n \in ToSet(core), NEW m \in ToSet(core),
                      NEW P \in SUBSET ToSet(core), NEW Q \in SUBSET ToSet(core),
                      Elects(P, n), Elects(Q, m)
               PROVE  P \cap Q # {}
    BY DEF QuorumsOverlap
  <2>1. PICK big \in SUBSET Nodes, small \in SUBSET Nodes : \E x :
          /\ small \subseteq big /\ big \subseteq small \cup {x}
          /\ ToSet(core) \subseteq big
          /\ \A i \in ToSet(core) : view[i] \in {{}, big, small \cup {i}}
    BY OneApart
  <2>2. IsFiniteSet(big)
    BY NodesAssumption, FS_Subset
  <2>3. /\ n \in P /\ P \subseteq view[n] /\ 2 * Cardinality(P) > Cardinality(view[n])
        /\ m \in Q /\ Q \subseteq view[m] /\ 2 * Cardinality(Q) > Cardinality(view[m])
    BY DEF Elects
  <2>4. /\ view[n] \in SUBSET big /\ small \subseteq view[n]
        /\ view[m] \in SUBSET big /\ small \subseteq view[m]
    BY <2>1, <2>3
  <2> QED BY <2>1, <2>2, <2>3, <2>4, Majorities
<1> QED BY <1>1, Invariance, PTL
=============================================================================
