---------------------------- MODULE ControlPlane ----------------------------
(***************************************************************************)
(* The control plane of one database instance: the workers of the user API *)
(* (user_api/dm/models.py) that change its rows, the PaaS builder          *)
(* (paas/services/builder.py) that turns the rows into the payload the     *)
(* agents fetch, and the saves of the infrastructure builder.              *)
(*                                                                         *)
(* A request loads the rows it addresses when it starts and commits in one *)
(* transaction when it ends.  update() writes a whole row, and only if the *)
(* request has changed it.  Every change of a user or a database also      *)
(* writes back, by force, the whole instance row that was loaded           *)
(* (touch_parent), to bump updated_at, which is what the builder watches.  *)
(***************************************************************************)
EXTENDS Integers, FiniteSets

CONSTANTS
  Workers,                 \* concurrent requests of the user API
  UserIds, DatabaseIds,    \* uuids of rows of postgres_users and postgres_databases
  Strangers,               \* those of users of other instances
  UserNames, DatabaseNames, InstanceNames,
  LongNames,               \* those of instances with more than 64 characters
  DiskSizes, NodesNumbers, SyncNumbers,  \* values a client may set
  Absent,                  \* no row, no request, nothing published
  MaxRevision              \* bound: commits, counted by updated_at

ASSUME ValuesAssumption ==
  /\ Strangers \subseteq UserIds
  /\ LongNames \subseteq InstanceNames
  /\ DiskSizes \subseteq Nat /\ DiskSizes # {}
  /\ NodesNumbers \subseteq Nat \ {0} /\ NodesNumbers # {}
  /\ SyncNumbers \subseteq Nat /\ SyncNumbers # {}
  /\ MaxRevision \in Nat

VARIABLES
  instance,    \* the row of postgres_instances
  clock,       \* the last updated_at that was given
  users,       \* the rows of postgres_users
  databases,   \* the rows of postgres_databases
  request,     \* what each worker is doing
  replicas,    \* nodes Core has made, the actual node set
  saving,      \* the row the infrastructure builder is working on
  builder,     \* the iteration of the PaaS builder
  tracked,     \* the updated_at of the row that was last published
  published    \* the target of the PGInstanceNode resources

infra == <<replicas, saving>>
build == <<builder, tracked, published>>
vars == <<instance, clock, users, databases, request, infra, build>>

InstanceRow ==
  [name : InstanceNames, disk : DiskSizes, nodes : NodesNumbers, sync : SyncNumbers,
   ips : Nat, updated : 0..MaxRevision]
UserRow == [name : UserNames, hash : 0..MaxRevision]
DatabaseRow == [name : DatabaseNames, owner : UserIds]

Operation ==
  [op : {"create_instance", "update_instance"}, name : InstanceNames,
   disk : DiskSizes, nodes : NodesNumbers, sync : SyncNumbers]
  \cup [op : {"create_user"}, name : UserNames]
  \cup [op : {"update_user", "delete_user"}, user : UserIds]
  \cup [op : {"create_database"}, name : DatabaseNames, owner : UserIds]
  \cup [op : {"update_database"}, database : DatabaseIds,
        name : DatabaseNames, owner : UserIds]
  \cup [op : {"delete_database"}, database : DatabaseIds]
  \cup [op : {"delete_instance"}]

(* What a request has loaded: the instance and the user or database to update. *)
Request ==
  [do : Operation, row : InstanceRow \cup {Absent},
   child : UserRow \cup DatabaseRow \cup {Absent}]

(* users maps the name of a row to its hash, databases to its owner's name. *)
Target ==
  [users : SUBSET (UserNames \X (0..MaxRevision)),
   databases : SUBSET (DatabaseNames \X UserNames),
   nodes : NodesNumbers, sync : SyncNumbers]

ASSUME AbsentAssumption ==
  Absent \notin InstanceRow \cup UserRow \cup DatabaseRow \cup Target

NotBuilding == [at |-> "idle", row |-> Absent, users |-> {}]

(* TypeOK: every variable keeps its type; what is published is a valid target
   and never one for no nodes. *)
TypeOK ==
  /\ instance \in InstanceRow \cup {Absent}
  /\ users \in [UserIds -> UserRow \cup {Absent}]
  /\ databases \in [DatabaseIds -> DatabaseRow \cup {Absent}]
  /\ clock \in 0..MaxRevision
  /\ request \in [Workers -> Request \cup {Absent}]
  /\ replicas \in Nat
  /\ saving \in InstanceRow \cup {Absent}
  /\ builder \in [at : {"idle", "users", "databases"},
                  row : InstanceRow \cup {Absent},
                  users : SUBSET (UserNames \X (0..MaxRevision))]
  /\ tracked \in -1..MaxRevision
  /\ published \in Target \cup {Absent}

(* The foreign key of postgres_databases.owner. *)
OwnersExist ==
  \A d \in DatabaseIds : databases[d] # Absent => users[databases[d].owner] # Absent

(* The services start with any rows the foreign keys allow; nothing has been
   published yet, and revisions are counted from here. *)
Init ==
  /\ instance \in [name : InstanceNames, disk : DiskSizes, nodes : NodesNumbers,
                   sync : SyncNumbers, ips : {0}, updated : {0}]
  /\ clock = 0
  /\ users \in [UserIds -> [name : UserNames, hash : {0}] \cup {Absent}]
  /\ databases \in [DatabaseIds -> DatabaseRow \cup {Absent}]
  /\ OwnersExist
  /\ request = [w \in Workers |-> Absent]
  /\ replicas = 0
  /\ saving = Absent
  /\ builder = NotBuilding
  /\ tracked = -1
  /\ published = Absent

-----------------------------------------------------------------------------
(* Requests of the user API. *)

(* The controllers load the rows a request addresses, or answer 404; a user and
   a database are looked up in the instance, the owner of a database is not. *)
Addressed(o) ==
  /\ o.op = "create_instance" <=> instance = Absent
  /\ o.op \in {"update_user", "delete_user"} => users[o.user] # Absent /\ o.user \notin Strangers
  /\ o.op \in {"create_database", "update_database"} => users[o.owner] # Absent
  /\ o.op \in {"update_database", "delete_database"} => databases[o.database] # Absent

(* The row of the user or the database that is to be updated, as loaded. *)
Child(o) ==
  CASE o.op = "update_user" -> users[o.user]
    [] o.op = "update_database" -> databases[o.database]
    [] OTHER -> Absent

Begin(w, o) ==
  /\ request[w] = Absent
  /\ Addressed(o)
  /\ clock < MaxRevision
  /\ request' = [request EXCEPT ![w] = [do |-> o, row |-> instance, child |-> Child(o)]]
  /\ UNCHANGED <<instance, clock, users, databases, infra, build>>

Serving(w, op) ==
  /\ request[w] # Absent
  /\ request[w].do.op = op
  /\ op = "create_instance" <=> instance = Absent
  /\ clock < MaxRevision
Done(w) == request' = [request EXCEPT ![w] = Absent]

(* A whole row is written, with a fresh updated_at. *)
SaveRow(row) ==
  /\ clock' = clock + 1
  /\ instance' = [row EXCEPT !.updated = clock + 1]
TouchParent(w) == SaveRow(request[w].row)   \* update(force=True)

(* A client may give a new instance the uuid of a deleted one. *)
CreateInstance(w) ==
  /\ Serving(w, "create_instance")
  /\ LET o == request[w].do IN
       SaveRow([name |-> o.name, disk |-> o.disk, nodes |-> o.nodes, sync |-> o.sync,
                ips |-> 0, updated |-> 0])
  /\ Done(w)
  /\ UNCHANGED <<users, databases, infra, build>>

(* Mutant: nodes_number is counted from zero. *)
UpdateInstanceFromZero(w) ==
  /\ Serving(w, "update_instance")
  /\ request[w].do.disk >= request[w].row.disk
  /\ SaveRow([request[w].row EXCEPT !.nodes = request[w].do.nodes - 1])
  /\ Done(w)
  /\ UNCHANGED <<users, databases, infra, build>>

AskedInstance(w) ==
  [request[w].row EXCEPT !.name = request[w].do.name, !.disk = request[w].do.disk,
                         !.nodes = request[w].do.nodes, !.sync = request[w].do.sync]

(* _validate_update compares the new disk size with the one it loaded; a row
   that is not dirty is not written. *)
UpdateInstance(w) ==
  /\ Serving(w, "update_instance")
  /\ request[w].do.disk >= request[w].row.disk
  /\ IF AskedInstance(w) = request[w].row
     THEN UNCHANGED <<instance, clock>>
     ELSE SaveRow(AskedInstance(w))
  /\ Done(w)
  /\ UNCHANGED <<users, databases, infra, build>>

(* scram_sha_256 with a fresh salt: no two of them are equal. *)
PasswordHash == clock + 1

(* A user is hashed again on every insert and every update. *)
WriteUser(w, u, name) ==
  /\ users' = [users EXCEPT ![u] = [name |-> name, hash |-> PasswordHash]]
  /\ TouchParent(w)
  /\ Done(w)
  /\ UNCHANGED <<databases, infra, build>>

CreateUser(w, u) ==
  /\ Serving(w, "create_user")
  /\ users[u] = Absent /\ u \notin Strangers
  /\ WriteUser(w, u, request[w].do.name)

UpdateUser(w) ==
  /\ Serving(w, "update_user")
  /\ users[request[w].do.user] # Absent
  /\ WriteUser(w, request[w].do.user, request[w].child.name)

(* The foreign key of postgres_databases.owner refuses to delete an owner. *)
DeleteUser(w) ==
  /\ Serving(w, "delete_user")
  /\ LET u == request[w].do.user IN
       /\ users[u] # Absent
       /\ \A d \in DatabaseIds : databases[d] # Absent => databases[d].owner # u
       /\ users' = [users EXCEPT ![u] = Absent]
  /\ TouchParent(w)
  /\ Done(w)
  /\ UNCHANGED <<databases, infra, build>>

AskedDatabase(w) == [name |-> request[w].do.name, owner |-> request[w].do.owner]

WriteDatabase(w, d) ==
  /\ users[request[w].do.owner] # Absent
  /\ databases' = [databases EXCEPT ![d] = AskedDatabase(w)]

CreateDatabase(w, d) ==
  /\ Serving(w, "create_database")
  /\ databases[d] = Absent
  /\ WriteDatabase(w, d)
  /\ TouchParent(w)
  /\ Done(w)
  /\ UNCHANGED <<users, infra, build>>

(* Both the name and the owner of a database may be changed later; a row that is
   not dirty is not written, but its instance is touched all the same. *)
UpdateDatabase(w) ==
  /\ Serving(w, "update_database")
  /\ IF AskedDatabase(w) = request[w].child
     THEN UNCHANGED databases
     ELSE /\ databases[request[w].do.database] # Absent
          /\ WriteDatabase(w, request[w].do.database)
  /\ TouchParent(w)
  /\ Done(w)
  /\ UNCHANGED <<users, infra, build>>

(* Mutant: the deletion forgets to touch the instance. *)
DeleteDatabaseQuietly(w) ==
  /\ Serving(w, "delete_database")
  /\ databases[request[w].do.database] # Absent
  /\ databases' = [databases EXCEPT ![request[w].do.database] = Absent]
  /\ Done(w)
  /\ UNCHANGED <<instance, clock, users, infra, build>>

DeleteDatabase(w) ==
  /\ Serving(w, "delete_database")
  /\ databases[request[w].do.database] # Absent
  /\ databases' = [databases EXCEPT ![request[w].do.database] = Absent]
  /\ TouchParent(w)
  /\ Done(w)
  /\ UNCHANGED <<users, infra, build>>

(* remove_nested_dm *)
Removed(rows) == [r \in DOMAIN rows |-> IF r \in Strangers THEN rows[r] ELSE Absent]

(* The children are deleted first, databases before users. *)
DeleteInstance(w) ==
  /\ Serving(w, "delete_instance")
  /\ databases' = [d \in DatabaseIds |-> Absent]
  /\ users' = Removed(users)
  /\ instance' = Absent
  /\ Done(w)
  /\ UNCHANGED <<clock, infra, build>>

(* Validation, a foreign key or a missing row fails the request: nothing is
   committed. *)
Reject(w) ==
  /\ request[w] # Absent
  /\ Done(w)
  /\ UNCHANGED <<instance, clock, users, databases, infra, build>>

-----------------------------------------------------------------------------
(* The infrastructure builder: it loads the row and the actual node set, from
   which it sets ipsv4 (and status), asks Core over HTTP, and the row is saved
   if that has changed it. *)
LoadForInfra ==
  /\ saving = Absent
  /\ instance # Absent
  /\ replicas > 0 /\ instance.ips # replicas
  /\ clock < MaxRevision
  /\ saving' = [instance EXCEPT !.ips = replicas]
  /\ UNCHANGED <<instance, clock, users, databases, request, replicas, build>>

SaveFromInfra ==
  /\ saving # Absent
  /\ IF instance # Absent /\ clock < MaxRevision
     THEN SaveRow(saving)
     ELSE UNCHANGED <<instance, clock>>
  /\ saving' = Absent
  /\ UNCHANGED <<users, databases, request, replicas, build>>

(* Core, outside this repository, brings the node set to its target size. *)
TargetSize == IF instance = Absent THEN 0 ELSE instance.nodes
ScaleNodeSet ==
  /\ replicas # TargetSize
  /\ replicas' = TargetSize
  /\ UNCHANGED <<instance, clock, users, databases, request, saving, build>>

-----------------------------------------------------------------------------
(* The PaaS builder: one loop, one instance at a time. *)

ActualizeStart ==
  /\ builder.at = "idle"
  /\ instance # Absent
  /\ instance.updated # tracked
  /\ builder' = [at |-> "users", row |-> instance, users |-> {}]
  /\ UNCHANGED <<instance, clock, users, databases, request, infra, tracked, published>>

(* The rows of all users, by name; of two with one name the dict keeps one. *)
UserEntries(us) ==
  {<<us[u].name, us[u].hash>> : u \in {v \in UserIds \ Strangers : us[v] # Absent}}
OnePerName(entries) ==
  {s \in SUBSET entries :
     /\ \A e, f \in s : e[1] = f[1] => e = f
     /\ \A e \in entries : \E f \in s : f[1] = e[1]}

GetUsers ==
  /\ builder.at = "users"
  /\ \E s \in OnePerName(UserEntries(users)) :
       builder' = [builder EXCEPT !.at = "databases", !.users = s]
  /\ UNCHANGED <<instance, clock, users, databases, request, infra, tracked, published>>

(* The rows of all databases with the names of their owners, read after the
   users; then one target per node, for which there must be a node. *)
DatabaseEntries(us, ds) ==
  {<<ds[d].name, us[ds[d].owner].name>> : d \in {e \in DatabaseIds : ds[e] # Absent}}

(* The node set as Core reports it has a node for every index. *)
HasNodes(row) == row.nodes <= replicas

(* A PGInstanceNode takes the name of its instance, if it is not too long. *)
Buildable(row) == HasNodes(row) /\ row.name \notin LongNames

(* The payload of the rows read: one of the same for every node. *)
Published ==
  /\ Buildable(builder.row)
  /\ \E s \in OnePerName(DatabaseEntries(users, databases)) :
       published' = [users |-> builder.users, databases |-> s,
                     nodes |-> builder.row.nodes, sync |-> builder.row.sync]

(* Mutant: what has been published is dated when it is saved. *)
ActualizeDatedLate ==
  /\ builder.at = "databases"
  /\ Published
  /\ tracked' = IF instance = Absent THEN builder.row.updated ELSE instance.updated
  /\ builder' = NotBuilding
  /\ UNCHANGED <<instance, clock, users, databases, request, infra>>

ActualizePaasObjects ==
  /\ builder.at = "databases"
  /\ Published
  /\ tracked' = builder.row.updated
  /\ builder' = NotBuilding
  /\ UNCHANGED <<instance, clock, users, databases, request, infra>>

(* Mutant: the builder waits for the nodes of the row it loaded. *)
WaitForNodes ==
  /\ builder.at = "databases"
  /\ ~Buildable(builder.row)
  /\ UNCHANGED vars

(* nodes_by_idx[i] beyond the nodes Core has made is an IndexError, a name that
   is too long is refused; the next iteration starts again. *)
Raise ==
  /\ builder.at = "databases"
  /\ ~Buildable(builder.row)
  /\ builder' = NotBuilding
  /\ UNCHANGED <<instance, clock, users, databases, request, infra, tracked, published>>

(* Between two iterations the targets of an instance that is gone are removed. *)
Withdraw ==
  /\ builder.at = "idle"
  /\ instance = Absent
  /\ published # Absent
  /\ published' = Absent
  /\ tracked' = -1
  /\ UNCHANGED <<instance, clock, users, databases, request, infra, builder>>

-----------------------------------------------------------------------------
Serve(w) ==
  \/ CreateInstance(w) \/ UpdateInstance(w) \/ UpdateUser(w) \/ DeleteUser(w)
  \/ \E u \in UserIds : CreateUser(w, u)
  \/ \E d \in DatabaseIds : CreateDatabase(w, d)
  \/ UpdateDatabase(w) \/ DeleteDatabase(w) \/ DeleteInstance(w) \/ Reject(w)

Build == ActualizeStart \/ GetUsers \/ ActualizePaasObjects \/ Raise \/ Withdraw

Next ==
  \/ \E w \in Workers : Serve(w) \/ \E o \in Operation : Begin(w, o)
  \/ LoadForInfra \/ SaveFromInfra \/ ScaleNodeSet \/ Build

Spec == Init /\ [][Next]_vars

(* The builders are loops that always run again; Core eventually delivers. *)
FairSpec == Spec /\ WF_vars(Build) /\ WF_vars(SaveFromInfra) /\ WF_vars(ScaleNodeSet)

-----------------------------------------------------------------------------
(* What the rows ask for. *)
Wanted(t) ==
  /\ t # Absent
  /\ t.users \in OnePerName(UserEntries(users))
  /\ t.databases \in OnePerName(DatabaseEntries(users, databases))
  /\ t.nodes = instance.nodes
  /\ t.sync = instance.sync

(* When the builder has nothing left to do for the instance, what it published
   is what the rows say: no change of a user or a database goes unnoticed,
   however it interleaves with the builder's reads (touch_parent). *)
NothingUnpublished ==
  instance # Absent /\ tracked = instance.updated => Wanted(published)

(* Then, if the owners are users of the instance, each of them is among the
   published users: the agents can execute what they are asked for. *)
OwnersPublished ==
  /\ instance # Absent /\ tracked = instance.updated
  /\ (\A d \in DatabaseIds : databases[d] # Absent => databases[d].owner \notin Strangers)
  => \A e \in published.databases : \E f \in published.users : f[1] = e[2]

(* "Now we enforce dataplane updates via parent model": once requests stop, the
   last committed rows are published, or, if the instance was deleted, nothing
   is: not even by an iteration that had loaded it. *)
EventuallyPublished ==
  <>[](IF instance = Absent THEN published = Absent ELSE tracked = instance.updated)

(* The disk of an instance never shrinks: "disk_size shrink is not supported". *)
DiskNeverShrinks ==
  [][instance # Absent /\ instance' # Absent => instance'.disk >= instance.disk]_vars
=============================================================================
