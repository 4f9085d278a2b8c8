------------------------- MODULE ControlPlaneProofs -------------------------
(***************************************************************************)
(* Proofs about ControlPlane: for any number of concurrent requests, users *)
(* and databases, and any values a client may set, a payload that is taken *)
(* for up to date is what the rows say.                                    *)
(***************************************************************************)
EXTENDS ControlPlane, TLAPS

(* A request has loaded the instance, unless it is to create it, and the user
   that it is to update. *)
RequestsLoaded ==
  \A w \in Workers : request[w] # Absent =>
    /\ request[w].do.op = "create_instance" <=> request[w].row = Absent
    /\ request[w].do.op = "update_user" => request[w].child \in UserRow

(* updated_at only grows, and the last commit gave the instance its own. *)
Dated ==
  /\ instance # Absent => instance.updated = clock
  /\ tracked <= clock
  /\ builder.at # "idle" => builder.row # Absent /\ builder.row.updated <= clock

(* What the builder has read is still so, if nothing was committed since. *)
Fresh == instance # Absent /\ builder.at # "idle" /\ builder.row.updated = clock
ReadsFresh ==
  Fresh =>
    /\ builder.row = instance
    /\ builder.at = "databases" => builder.users \in OnePerName(UserEntries(users))

IInv ==
  /\ TypeOK
  /\ OwnersExist
  /\ RequestsLoaded
  /\ Dated
  /\ ReadsFresh
  /\ NothingUnpublished

-----------------------------------------------------------------------------
(* The fields that each operation has. *)
LEMMA OperationFields ==
  ASSUME NEW o \in Operation
  PROVE  /\ o.op \in {"create_instance", "update_instance"} =>
              o.name \in InstanceNames /\ o.disk \in DiskSizes /\ o.nodes \in NodesNumbers /\ o.sync \in SyncNumbers
         /\ o.op = "create_user" => o.name \in UserNames
         /\ o.op \in {"update_user", "delete_user"} => o.user \in UserIds
         /\ o.op \in {"create_database", "update_database"} =>
              o.name \in DatabaseNames /\ o.owner \in UserIds
         /\ o.op \in {"update_database", "delete_database"} => o.database \in DatabaseIds
  BY DEF Operation

(* The request a worker serves, and the row it loaded. *)
LEMMA Served ==
  ASSUME IInv, NEW w \in Workers, NEW op, Serving(w, op)
  PROVE  /\ request[w].do \in Operation /\ request[w].do.op = op
         /\ op # "create_instance" => instance \in InstanceRow /\ request[w].row \in InstanceRow
         /\ op = "create_instance" => instance = Absent
         /\ op = "update_user" => request[w].child \in UserRow
         /\ clock \in Nat /\ clock + 1 \in 0..MaxRevision
<1>1. request[w] \in Request
  BY DEF IInv, TypeOK, Serving
<1>2. op = "update_user" => request[w].child \in UserRow
  BY DEF IInv, RequestsLoaded, Serving
<1>3. op # "create_instance" => request[w].row # Absent /\ instance # Absent
  BY DEF IInv, RequestsLoaded, Serving
<1>4. clock \in 0..MaxRevision /\ clock < MaxRevision /\ MaxRevision \in Nat
  BY ValuesAssumption DEF IInv, TypeOK, Serving
<1>5. instance \in InstanceRow \cup {Absent}
  BY DEF IInv, TypeOK
<1> QED BY <1>1, <1>2, <1>3, <1>4, <1>5 DEF Serving, Request

(* A row that is saved gets the next updated_at. *)
LEMMA SavedRow ==
  ASSUME NEW row \in InstanceRow, SaveRow(row), clock \in Nat, clock + 1 \in 0..MaxRevision
  PROVE  /\ clock' = clock + 1
         /\ instance' \in InstanceRow /\ instance'.updated = clock'
         /\ instance'.disk = row.disk
  BY DEF SaveRow, InstanceRow

LEMMA DoneType ==
  ASSUME IInv, NEW w \in Workers, Done(w)
  PROVE  /\ request' \in [Workers -> Request \cup {Absent}]
         /\ RequestsLoaded'
  BY DEF Done, IInv, TypeOK, RequestsLoaded

(* After a commit that bumps updated_at nothing is taken for published. *)
LEMMA BumpKeeps ==
  ASSUME IInv, TypeOK', OwnersExist', RequestsLoaded', UNCHANGED build,
         clock' = clock + 1, instance'.updated = clock'
  PROVE  IInv'
<1>1. clock \in Nat /\ tracked \in Int /\ tracked <= clock
  BY DEF IInv, TypeOK, Dated
<1>2. NothingUnpublished'
  BY <1>1 DEF NothingUnpublished, build
<1>3. builder.at # "idle" => builder.row \in InstanceRow /\ builder.row.updated <= clock
  BY DEF IInv, TypeOK, Dated
<1>4. Dated'
  BY <1>1, <1>3 DEF IInv, Dated, build, InstanceRow
<1>5. ReadsFresh'
  BY <1>1, <1>3 DEF ReadsFresh, Fresh, build, InstanceRow
<1> QED BY <1>2, <1>4, <1>5 DEF IInv

(* A step that leaves the rows and the builder alone. *)
LEMMA QuietKeeps ==
  ASSUME IInv, RequestsLoaded', UNCHANGED <<instance, clock, users, databases, build>>,
         request' \in [Workers -> Request \cup {Absent}],
         replicas' \in Nat, saving' \in InstanceRow \cup {Absent}
  PROVE  IInv'
<1>1. TypeOK' /\ OwnersExist' /\ Dated'
  BY DEF IInv, TypeOK, OwnersExist, Dated, build
<1>2. ReadsFresh'
  BY DEF IInv, ReadsFresh, Fresh, build, OnePerName, UserEntries
<1>3. NothingUnpublished'
  BY DEF IInv, NothingUnpublished, Wanted, build, OnePerName, UserEntries, DatabaseEntries
<1> QED BY <1>1, <1>2, <1>3 DEF IInv

-----------------------------------------------------------------------------
LEMMA InitIInv == Init => IInv
<1> SUFFICES ASSUME Init PROVE IInv
  OBVIOUS
<1>1. 0 \in 0..MaxRevision /\ MaxRevision \in Nat
  BY ValuesAssumption
<1>2. TypeOK
  BY <1>1 DEF Init, TypeOK, InstanceRow, UserRow, NotBuilding
<1>3. OwnersExist /\ RequestsLoaded /\ Dated /\ ReadsFresh /\ NothingUnpublished
  BY DEF Init, OwnersExist, RequestsLoaded, Dated, ReadsFresh, Fresh, NothingUnpublished, NotBuilding
<1> QED BY <1>2, <1>3 DEF IInv

LEMMA BeginKeeps ==
  ASSUME IInv, NEW w \in Workers, NEW o \in Operation, Begin(w, o)
  PROVE  IInv'
<1>1. instance \in InstanceRow \cup {Absent}
  BY DEF IInv, TypeOK
<1>2. /\ Child(o) \in UserRow \cup DatabaseRow \cup {Absent}
      /\ o.op = "update_user" => Child(o) \in UserRow
  BY OperationFields DEF Begin, Addressed, Child, IInv, TypeOK
<1>3. request' \in [Workers -> Request \cup {Absent}]
  BY <1>1, <1>2 DEF Begin, Request, IInv, TypeOK
<1>4. RequestsLoaded'
  BY <1>2 DEF Begin, Addressed, IInv, TypeOK, RequestsLoaded
<1> QED BY <1>3, <1>4, QuietKeeps DEF Begin, infra, IInv, TypeOK

LEMMA CreateInstanceKeeps ==
  ASSUME IInv, NEW w \in Workers, CreateInstance(w)
  PROVE  IInv'
<1> DEFINE o == request[w].do
           row == [name |-> o.name, disk |-> o.disk, nodes |-> o.nodes, sync |-> o.sync,
                   ips |-> 0, updated |-> 0]
<1>1. o \in Operation /\ o.op = "create_instance" /\ clock \in Nat /\ clock + 1 \in 0..MaxRevision
  BY Served DEF CreateInstance
<1>2. row \in InstanceRow
  BY <1>1, OperationFields, ValuesAssumption DEF InstanceRow
<1>3. SaveRow(row)
  BY DEF CreateInstance
<1> HIDE DEF row
<1>4. clock' = clock + 1 /\ instance' \in InstanceRow /\ instance'.updated = clock'
  BY <1>1, <1>2, <1>3, SavedRow
<1>5. TypeOK' /\ OwnersExist' /\ RequestsLoaded'
  BY <1>1, <1>4, DoneType DEF CreateInstance, IInv, TypeOK, OwnersExist, infra, build
<1> QED BY <1>4, <1>5, BumpKeeps DEF CreateInstance

LEMMA AskedType ==
  ASSUME IInv, NEW w \in Workers, Serving(w, "update_instance")
  PROVE  AskedInstance(w) \in InstanceRow
<1>1. request[w].do \in Operation /\ request[w].do.op = "update_instance" /\ request[w].row \in InstanceRow
  BY Served
<1> QED BY <1>1, OperationFields DEF AskedInstance, InstanceRow

LEMMA UpdateInstanceKeeps ==
  ASSUME IInv, NEW w \in Workers, UpdateInstance(w)
  PROVE  IInv'
<1>1. CASE AskedInstance(w) = request[w].row
  BY <1>1, DoneType, QuietKeeps DEF UpdateInstance, infra, IInv, TypeOK
<1>2. CASE SaveRow(AskedInstance(w))
  <2>1. clock \in Nat /\ clock + 1 \in 0..MaxRevision /\ AskedInstance(w) \in InstanceRow
    BY Served, AskedType DEF UpdateInstance
  <2>2. clock' = clock + 1 /\ instance' \in InstanceRow /\ instance'.updated = clock'
    BY <1>2, <2>1, SavedRow
  <2>3. TypeOK' /\ OwnersExist' /\ RequestsLoaded'
    BY <2>1, <2>2, DoneType DEF UpdateInstance, IInv, TypeOK, OwnersExist, infra, build
  <2> QED BY <2>2, <2>3, BumpKeeps DEF UpdateInstance
<1> QED BY <1>1, <1>2 DEF UpdateInstance

(* Every change of a child saves the parent row the request loaded. *)
LEMMA TouchKeeps ==
  ASSUME IInv, NEW w \in Workers, NEW op, Serving(w, op), op # "create_instance",
         TouchParent(w), Done(w), UNCHANGED <<infra, build>>,
         users' \in [UserIds -> UserRow \cup {Absent}],
         databases' \in [DatabaseIds -> DatabaseRow \cup {Absent}],
         OwnersExist'
  PROVE  IInv'
<1>1. request[w].row \in InstanceRow /\ clock \in Nat /\ clock + 1 \in 0..MaxRevision
  BY Served
<1>2. clock' = clock + 1 /\ instance' \in InstanceRow /\ instance'.updated = clock'
  BY <1>1, SavedRow DEF TouchParent
<1>3. TypeOK' /\ RequestsLoaded'
  BY <1>1, <1>2, DoneType DEF IInv, TypeOK, infra, build
<1> QED BY <1>2, <1>3, BumpKeeps

LEMMA WriteUserKeeps ==
  ASSUME IInv, NEW w \in Workers, NEW u \in UserIds, NEW name \in UserNames,
         NEW op \in {"create_user", "update_user"}, Serving(w, op), WriteUser(w, u, name)
  PROVE  IInv'
<1>1. clock + 1 \in 0..MaxRevision
  BY Served
<1>2. [name |-> name, hash |-> PasswordHash] \in UserRow
  BY <1>1 DEF UserRow, PasswordHash
<1>3. users' \in [UserIds -> UserRow \cup {Absent}]
  BY <1>2 DEF WriteUser, IInv, TypeOK
<1>4. [name |-> name, hash |-> PasswordHash] # Absent
  BY <1>2, AbsentAssumption
<1>5. OwnersExist'
  BY <1>4 DEF WriteUser, IInv, TypeOK, OwnersExist, DatabaseRow
<1>6. databases' \in [DatabaseIds -> DatabaseRow \cup {Absent}]
  BY DEF WriteUser, IInv, TypeOK
<1> QED BY <1>3, <1>5, <1>6, TouchKeeps DEF WriteUser

LEMMA CreateUserKeeps ==
  ASSUME IInv, NEW w \in Workers, NEW u \in UserIds, CreateUser(w, u)
  PROVE  IInv'
<1>1. request[w].do.name \in UserNames
  BY Served, OperationFields DEF CreateUser
<1> QED BY <1>1, WriteUserKeeps DEF CreateUser

LEMMA UpdateUserKeeps ==
  ASSUME IInv, NEW w \in Workers, UpdateUser(w)
  PROVE  IInv'
<1>1. request[w].do.user \in UserIds /\ request[w].child \in UserRow
  BY Served, OperationFields DEF UpdateUser
<1>2. request[w].child.name \in UserNames
  BY <1>1 DEF UserRow
<1> QED BY <1>1, <1>2, WriteUserKeeps DEF UpdateUser

LEMMA DeleteUserKeeps ==
  ASSUME IInv, NEW w \in Workers, DeleteUser(w)
  PROVE  IInv'
<1> DEFINE u == request[w].do.user
<1>1. u \in UserIds
  BY Served, OperationFields DEF DeleteUser
<1>2. users' = [users EXCEPT ![u] = Absent] /\ databases' = databases
  BY DEF DeleteUser
<1>3. users' \in [UserIds -> UserRow \cup {Absent}] /\ databases' \in [DatabaseIds -> DatabaseRow \cup {Absent}]
  BY <1>1, <1>2 DEF IInv, TypeOK
<1>4. OwnersExist'
  BY <1>1, <1>2 DEF DeleteUser, IInv, TypeOK, OwnersExist, DatabaseRow
<1> QED BY <1>3, <1>4, TouchKeeps DEF DeleteUser

LEMMA WriteDatabaseKeeps ==
  ASSUME IInv, NEW w \in Workers, NEW d \in DatabaseIds,
         NEW op \in {"create_database", "update_database"}, Serving(w, op),
         WriteDatabase(w, d), TouchParent(w), Done(w), UNCHANGED <<users, infra, build>>
  PROVE  IInv'
<1>1. request[w].do.name \in DatabaseNames /\ request[w].do.owner \in UserIds
  BY Served, OperationFields
<1>2. AskedDatabase(w) \in DatabaseRow
  BY <1>1 DEF AskedDatabase, DatabaseRow
<1>3. databases' \in [DatabaseIds -> DatabaseRow \cup {Absent}] /\ users' \in [UserIds -> UserRow \cup {Absent}]
  BY <1>2 DEF WriteDatabase, IInv, TypeOK
<1>4. OwnersExist'
  BY DEF WriteDatabase, AskedDatabase, IInv, TypeOK, OwnersExist
<1> QED BY <1>3, <1>4, TouchKeeps

LEMMA UpdateDatabaseKeeps ==
  ASSUME IInv, NEW w \in Workers, UpdateDatabase(w)
  PROVE  IInv'
<1>1. request[w].do.database \in DatabaseIds
  BY Served, OperationFields DEF UpdateDatabase
<1>2. CASE UNCHANGED databases
  <2>1. OwnersExist' /\ databases' \in [DatabaseIds -> DatabaseRow \cup {Absent}]
                     /\ users' \in [UserIds -> UserRow \cup {Absent}]
    BY <1>2 DEF UpdateDatabase, IInv, TypeOK, OwnersExist
  <2> QED BY <2>1, TouchKeeps DEF UpdateDatabase
<1>3. CASE WriteDatabase(w, request[w].do.database)
  BY <1>1, <1>3, WriteDatabaseKeeps DEF UpdateDatabase
<1> QED BY <1>2, <1>3 DEF UpdateDatabase

LEMMA DeleteDatabaseKeeps ==
  ASSUME IInv, NEW w \in Workers, DeleteDatabase(w)
  PROVE  IInv'
<1>1. databases' \in [DatabaseIds -> DatabaseRow \cup {Absent}] /\ users' \in [UserIds -> UserRow \cup {Absent}]
  BY DEF DeleteDatabase, IInv, TypeOK
<1>2. OwnersExist'
  BY DEF DeleteDatabase, IInv, TypeOK, OwnersExist
<1> QED BY <1>1, <1>2, TouchKeeps DEF DeleteDatabase

LEMMA DeleteInstanceKeeps ==
  ASSUME IInv, NEW w \in Workers, DeleteInstance(w)
  PROVE  IInv'
<1>1. instance' = Absent /\ UNCHANGED <<clock, infra, build>>
  BY DEF DeleteInstance
<1>2. /\ users' \in [UserIds -> UserRow \cup {Absent}]
      /\ databases' \in [DatabaseIds -> DatabaseRow \cup {Absent}]
      /\ OwnersExist'
  BY DEF DeleteInstance, Removed, IInv, TypeOK, OwnersExist
<1>3. TypeOK' /\ RequestsLoaded'
  BY <1>1, <1>2, DoneType DEF DeleteInstance, IInv, TypeOK, infra, build
<1>4. Dated' /\ ReadsFresh' /\ NothingUnpublished'
  BY <1>1 DEF IInv, Dated, ReadsFresh, Fresh, NothingUnpublished, build
<1> QED BY <1>2, <1>3, <1>4 DEF IInv

LEMMA RejectKeeps ==
  ASSUME IInv, NEW w \in Workers, Reject(w)
  PROVE  IInv'
  BY DoneType, QuietKeeps DEF Reject, infra, IInv, TypeOK

LEMMA ServeKeeps ==
  ASSUME IInv, NEW w \in Workers, Serve(w)
  PROVE  IInv'
<1>1. ASSUME NEW d \in DatabaseIds, CreateDatabase(w, d) PROVE IInv'
  BY <1>1, WriteDatabaseKeeps DEF CreateDatabase
<1> QED BY <1>1, CreateInstanceKeeps, UpdateInstanceKeeps, CreateUserKeeps, UpdateUserKeeps,
           DeleteUserKeeps, UpdateDatabaseKeeps, DeleteDatabaseKeeps, DeleteInstanceKeeps, RejectKeeps DEF Serve

-----------------------------------------------------------------------------
LEMMA InfraKeeps ==
  ASSUME IInv, LoadForInfra \/ SaveFromInfra \/ ScaleNodeSet
  PROVE  IInv'
<1>1. /\ request' = request /\ RequestsLoaded'
      /\ request' \in [Workers -> Request \cup {Absent}]
  BY DEF LoadForInfra, SaveFromInfra, ScaleNodeSet, IInv, TypeOK, RequestsLoaded
<1>2. CASE LoadForInfra
  <2>1. instance \in InstanceRow /\ replicas \in Nat
    BY <1>2 DEF LoadForInfra, IInv, TypeOK
  <2>2. saving' \in InstanceRow
    BY <1>2, <2>1 DEF LoadForInfra, InstanceRow
  <2> QED BY <1>1, <1>2, <2>1, <2>2, QuietKeeps DEF LoadForInfra
<1>3. CASE ScaleNodeSet
  <2>1. replicas' \in Nat
    BY <1>3, ValuesAssumption DEF ScaleNodeSet, TargetSize, IInv, TypeOK, InstanceRow
  <2> QED BY <1>1, <1>3, <2>1, QuietKeeps DEF ScaleNodeSet, IInv, TypeOK
<1>4. CASE SaveFromInfra /\ instance # Absent /\ clock < MaxRevision
  <2>1. saving \in InstanceRow
    BY <1>4 DEF SaveFromInfra, IInv, TypeOK
  <2>2. SaveRow(saving)
    BY <1>4 DEF SaveFromInfra
  <2>3. clock \in Nat /\ clock + 1 \in 0..MaxRevision
    BY <1>4, ValuesAssumption DEF IInv, TypeOK
  <2>4. clock' = clock + 1 /\ instance' \in InstanceRow /\ instance'.updated = clock'
    BY <2>1, <2>2, <2>3, SavedRow
  <2>5. TypeOK' /\ OwnersExist'
    BY <1>1, <1>4, <2>3, <2>4 DEF SaveFromInfra, IInv, TypeOK, OwnersExist, build
  <2> QED BY <1>1, <1>4, <2>4, <2>5, BumpKeeps DEF SaveFromInfra
<1>5. CASE SaveFromInfra /\ ~(instance # Absent /\ clock < MaxRevision)
  BY <1>1, <1>5, QuietKeeps DEF SaveFromInfra, IInv, TypeOK
<1> QED BY <1>2, <1>3, <1>4, <1>5

LEMMA EntriesType ==
  ASSUME TypeOK, NEW s \in OnePerName(UserEntries(users))
  PROVE  s \subseteq UserNames \X (0..MaxRevision)
  BY DEF TypeOK, OnePerName, UserEntries, UserRow

LEMMA DatabaseEntriesType ==
  ASSUME TypeOK, OwnersExist, NEW s \in OnePerName(DatabaseEntries(users, databases))
  PROVE  s \subseteq DatabaseNames \X UserNames
<1>1. \A d \in DatabaseIds : databases[d] # Absent =>
        databases[d].name \in DatabaseNames /\ users[databases[d].owner].name \in UserNames
  BY DEF TypeOK, OwnersExist, DatabaseRow, UserRow
<1> QED BY <1>1 DEF OnePerName, DatabaseEntries

LEMMA ActualizeKeeps ==
  ASSUME IInv, ActualizePaasObjects
  PROVE  IInv'
<1>1. /\ builder.at = "databases" /\ builder.row \in InstanceRow
      /\ builder.row.updated <= clock /\ builder.row.updated \in 0..MaxRevision
  BY DEF ActualizePaasObjects, IInv, TypeOK, Dated, InstanceRow
<1>2. PICK s \in OnePerName(DatabaseEntries(users, databases)) :
        published' = [users |-> builder.users, databases |-> s,
                      nodes |-> builder.row.nodes, sync |-> builder.row.sync]
  BY DEF ActualizePaasObjects, Published
<1>3. s \subseteq DatabaseNames \X UserNames
  BY DatabaseEntriesType DEF IInv
<1>4. published' \in Target
  BY <1>1, <1>2, <1>3 DEF IInv, TypeOK, Target, InstanceRow
<1>5. builder' = NotBuilding /\ tracked' = builder.row.updated
      /\ UNCHANGED <<instance, clock, users, databases, request, infra>>
  BY DEF ActualizePaasObjects
<1>6. TypeOK' /\ OwnersExist' /\ RequestsLoaded' /\ Dated' /\ ReadsFresh'
  BY <1>1, <1>4, <1>5 DEF IInv, TypeOK, OwnersExist, RequestsLoaded, Dated, ReadsFresh, Fresh,
                           NotBuilding, infra
<1>7. NothingUnpublished'
  <2> SUFFICES ASSUME instance' # Absent, tracked' = instance'.updated PROVE Wanted(published)'
    BY DEF NothingUnpublished
  <2>1. builder.row = instance /\ builder.users \in OnePerName(UserEntries(users))
    BY <1>1, <1>5 DEF IInv, Dated, ReadsFresh, Fresh
  <2>2. published' # Absent
    BY <1>4, AbsentAssumption
  <2>3. users' = users /\ databases' = databases /\ instance' = instance
    BY <1>5
  <2>4. OnePerName(UserEntries(users))' = OnePerName(UserEntries(users))
    BY <2>3 DEF OnePerName, UserEntries
  <2>5. OnePerName(DatabaseEntries(users, databases))' = OnePerName(DatabaseEntries(users, databases))
    BY <2>3 DEF OnePerName, DatabaseEntries
  <2> QED BY <1>2, <2>1, <2>2, <2>3, <2>4, <2>5 DEF Wanted
<1> QED BY <1>6, <1>7 DEF IInv

LEMMA BuildKeeps ==
  ASSUME IInv, Build
  PROVE  IInv'
<1>1. CASE ActualizeStart
  <2>1. instance \in InstanceRow /\ instance.updated = clock
    BY <1>1 DEF ActualizeStart, IInv, TypeOK, Dated
  <2>2. TypeOK' /\ OwnersExist' /\ RequestsLoaded' /\ Dated' /\ ReadsFresh'
    BY <1>1, <2>1 DEF ActualizeStart, IInv, TypeOK, OwnersExist, RequestsLoaded, Dated, ReadsFresh,
                      Fresh, infra
  <2>3. NothingUnpublished'
    BY <1>1 DEF ActualizeStart, IInv, NothingUnpublished, Wanted, OnePerName, UserEntries, DatabaseEntries
  <2> QED BY <2>2, <2>3 DEF IInv
<1>2. CASE GetUsers
  <2>1. PICK s \in OnePerName(UserEntries(users)) :
          builder' = [builder EXCEPT !.at = "databases", !.users = s]
    BY <1>2 DEF GetUsers
  <2>2. s \subseteq UserNames \X (0..MaxRevision)
    BY EntriesType DEF IInv
  <2>3. UNCHANGED <<instance, clock, users, databases, request, infra, tracked, published>>
    BY <1>2 DEF GetUsers
  <2>4. TypeOK' /\ OwnersExist' /\ RequestsLoaded'
    BY <2>1, <2>2, <2>3 DEF IInv, TypeOK, OwnersExist, RequestsLoaded, infra
  <2>5. /\ builder'.at = "databases" /\ builder'.row = builder.row /\ builder'.users = s
        /\ builder.at = "users"
    BY <1>2, <2>1 DEF GetUsers, IInv, TypeOK
  <2>6. Dated'
    BY <2>3, <2>5 DEF IInv, Dated
  <2>7. s \in OnePerName(UserEntries(users))'
    BY <2>3 DEF OnePerName, UserEntries
  <2>8. ReadsFresh'
    BY <2>3, <2>5, <2>7 DEF IInv, ReadsFresh, Fresh
  <2>9. NothingUnpublished'
    BY <2>3 DEF IInv, NothingUnpublished, Wanted, OnePerName, UserEntries, DatabaseEntries
  <2> QED BY <2>4, <2>6, <2>8, <2>9 DEF IInv
<1>3. CASE ActualizePaasObjects
  BY <1>3, ActualizeKeeps
<1>4. CASE Raise
  <2>1. TypeOK' /\ OwnersExist' /\ RequestsLoaded' /\ Dated' /\ ReadsFresh'
    BY <1>4 DEF Raise, IInv, TypeOK, OwnersExist, RequestsLoaded, Dated, ReadsFresh, Fresh,
                NotBuilding, infra
  <2>2. NothingUnpublished'
    BY <1>4 DEF Raise, IInv, NothingUnpublished, Wanted, OnePerName, UserEntries, DatabaseEntries
  <2> QED BY <2>1, <2>2 DEF IInv
<1>5. CASE Withdraw
  <2>1. clock \in Nat /\ -1 \in -1..MaxRevision
    BY ValuesAssumption DEF IInv, TypeOK
  <2>2. TypeOK' /\ OwnersExist' /\ RequestsLoaded' /\ Dated' /\ ReadsFresh' /\ NothingUnpublished'
    BY <1>5, <2>1 DEF Withdraw, IInv, TypeOK, OwnersExist, RequestsLoaded, Dated, ReadsFresh, Fresh,
                NothingUnpublished, infra
  <2> QED BY <2>2 DEF IInv
<1> QED BY <1>1, <1>2, <1>3, <1>4, <1>5 DEF Build

LEMMA StutterKeeps == IInv /\ UNCHANGED vars => IInv'
  BY QuietKeeps DEF vars, infra, IInv, TypeOK, RequestsLoaded

LEMMA StepIInv == IInv /\ [Next]_vars => IInv'
  BY BeginKeeps, ServeKeeps, InfraKeeps, BuildKeeps, StutterKeeps DEF Next

LEMMA Invariance == Spec => []IInv
  BY InitIInv, StepIInv, PTL DEF Spec

-----------------------------------------------------------------------------
(* Every variable keeps its type: no payload for zero nodes, no row half saved. *)
THEOREM TypeCorrect == Spec => []TypeOK
<1>1. IInv => TypeOK
  BY DEF IInv
<1> QED BY <1>1, Invariance, PTL

(* touch_parent, the three reads and the date of the loaded row together: no
   commit goes unnoticed. *)
THEOREM NothingMissed == Spec => []NothingUnpublished
<1>1. IInv => NothingUnpublished
  BY DEF IInv
<1> QED BY <1>1, Invariance, PTL

(* With the foreign key of owners: a payload that is up to date names the owner
   of each of its databases, as long as no owner belongs to another instance. *)
THEOREM OwnersNamed == Spec => []OwnersPublished
<1>1. IInv => OwnersPublished
  <2> SUFFICES ASSUME IInv, instance # Absent, tracked = instance.updated,
                      \A d \in DatabaseIds : databases[d] # Absent => databases[d].owner \notin Strangers,
                      NEW e \in published.databases
               PROVE  \E f \in published.users : f[1] = e[2]
    BY DEF OwnersPublished
  <2>1. Wanted(published)
    BY DEF IInv, NothingUnpublished
  <2>2. e \in DatabaseEntries(users, databases)
    BY <2>1 DEF Wanted, OnePerName
  <2>3. PICK d \in DatabaseIds :
          databases[d] # Absent /\ e = <<databases[d].name, users[databases[d].owner].name>>
    BY <2>2 DEF DatabaseEntries
  <2> DEFINE u == databases[d].owner
             f == <<users[u].name, users[u].hash>>
  <2>4. u \in UserIds \ Strangers /\ users[u] # Absent
    BY <2>3 DEF IInv, TypeOK, OwnersExist, DatabaseRow
  <2>5. f \in UserEntries(users)
    BY <2>4 DEF UserEntries
  <2>6. \E g \in published.users : g[1] = f[1]
    BY <2>1, <2>5 DEF Wanted, OnePerName
  <2> QED BY <2>3, <2>6
<1> QED BY <1>1, Invariance, PTL
=============================================================================
