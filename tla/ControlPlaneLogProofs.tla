----------------------- MODULE ControlPlaneLogProofs -----------------------
(***************************************************************************)
(* The control plane implements Publication, for any number of concurrent  *)
(* requests, users and databases.                                          *)
(***************************************************************************)
EXTENDS ControlPlaneLog, ControlPlaneProofs

Live(state) == state.instance # Absent

(* The log ends with the rows there are; no two of its states, in which the
   instance exists, have one date. *)
LogKept ==
  /\ log \in Seq(RowsState)
  /\ Len(log) >= 1
  /\ log[Len(log)] = Rows
  /\ seen \in 1..Len(log)
  /\ \A m \in 1..Len(log) : Live(log[m]) => log[m].instance.updated <= clock
  /\ \A m, n \in 1..Len(log) :
       Live(log[m]) /\ Live(log[n]) /\ log[m].instance.updated = log[n].instance.updated => m = n

(* m is the commit that was dated. *)
Dates(states, m, date) ==
  m \in 1..Len(states) /\ Live(states[m]) /\ states[m].instance.updated = date

TrackedLogged == tracked # -1 => \E m \in 1..Len(log) : Dates(log, m, tracked)

(* What an iteration has read was committed, in this order, after everything
   that the payload before it was made of. *)
SizesAt(i) == i \in seen..Len(log) /\ log[i].instance = builder.row
UsersAt(j) == j \in 1..Len(log) /\ builder.users \in OnePerName(UserEntries(log[j].users))
ReadsLogged ==
  builder.at # "idle" =>
    /\ builder.row.updated # tracked
    /\ \E i \in 1..Len(log) : SizesAt(i)
    /\ builder.at = "databases" =>
         \E i \in 1..Len(log) : \E j \in i..Len(log) : SizesAt(i) /\ UsersAt(j)

LogInv == IInv /\ LogKept /\ TrackedLogged /\ ReadsLogged

-----------------------------------------------------------------------------
(* The refinement mapping as an operator, so that it can be primed. *)
CommitOf(states, date) ==
  IF date = -1 THEN 0
  ELSE CHOOSE m \in 1..Len(states) : ~NoInstance(states[m]) /\ states[m].instance.updated = date

LEMMA PositionIs ==
  Position = CommitOf(log, tracked) /\ Position' = CommitOf(log', tracked')
  BY DEF Position, CommitOf

(* Dates being unique, the choice is no choice. *)
LEMMA CommitFound ==
  ASSUME NEW states, NEW date, date # -1, NEW m, Dates(states, m, date),
         \A n \in 1..Len(states) : Dates(states, n, date) => n = m
  PROVE  CommitOf(states, date) = m
  BY DEF CommitOf, Dates, NoInstance, Live

LEMMA RowsType == TypeOK => Rows \in RowsState
  BY DEF TypeOK, Rows, RowsState

LEMMA InitLog == LogInit => LogInv
<1> SUFFICES ASSUME LogInit PROVE LogInv
  OBVIOUS
<1>1. IInv /\ Rows \in RowsState
  BY InitIInv, RowsType DEF LogInit, IInv
<1>2. log \in Seq(RowsState) /\ Len(log) = 1 /\ log[1] = Rows /\ seen = 1
  BY <1>1 DEF LogInit
<1>3. LogKept
  BY <1>1, <1>2 DEF LogKept, Live, Rows, IInv, Dated, TypeOK, InstanceRow
<1>4. TrackedLogged /\ ReadsLogged
  BY DEF LogInit, Init, TrackedLogged, ReadsLogged, NotBuilding
<1> QED BY <1>1, <1>3, <1>4 DEF LogInv

-----------------------------------------------------------------------------
(* What a step may do to the rows: nothing, a dated commit, or the deletion. *)
Committed ==
  /\ UNCHANGED build
  /\ \/ clock' = clock + 1 /\ instance' # Absent /\ instance'.updated = clock'
     \/ clock' = clock /\ instance' = Absent /\ instance # Absent
Quiet == UNCHANGED <<instance, clock, users, databases>>

LEMMA SaveCommits ==
  ASSUME NEW row \in InstanceRow, SaveRow(row), clock \in Nat, clock + 1 \in 0..MaxRevision
  PROVE  clock' = clock + 1 /\ instance' # Absent /\ instance'.updated = clock'
  BY SavedRow, AbsentAssumption

LEMMA TouchCommits ==
  ASSUME IInv, NEW w \in Workers, NEW op, Serving(w, op), op # "create_instance", TouchParent(w),
         UNCHANGED build
  PROVE  Committed
  BY Served, SaveCommits DEF TouchParent, Committed

LEMMA StepCases ==
  ASSUME IInv, Next
  PROVE  Committed \/ (Quiet /\ UNCHANGED build) \/ (Quiet /\ Build)
<1>1. ASSUME NEW w \in Workers, NEW o \in Operation, Begin(w, o) PROVE Quiet /\ UNCHANGED build
  BY <1>1 DEF Begin, Quiet
<1>2. ASSUME NEW w \in Workers, Serve(w) PROVE Committed \/ (Quiet /\ UNCHANGED build)
  <2>1. CASE CreateInstance(w)
    <3> DEFINE o == request[w].do
               row == [name |-> o.name, disk |-> o.disk, nodes |-> o.nodes, sync |-> o.sync,
                   ips |-> 0, updated |-> 0]
    <3>1. o \in Operation /\ o.op = "create_instance" /\ clock \in Nat /\ clock + 1 \in 0..MaxRevision
      BY <2>1, Served DEF CreateInstance
    <3>2. row \in InstanceRow
      BY <3>1, OperationFields, ValuesAssumption DEF InstanceRow
    <3>3. SaveRow(row) /\ UNCHANGED build
      BY <2>1 DEF CreateInstance
    <3> HIDE DEF row
    <3> QED BY <3>1, <3>2, <3>3, SaveCommits DEF Committed
  <2>2. CASE UpdateInstance(w)
    <3>1. CASE AskedInstance(w) = request[w].row
      BY <2>2, <3>1 DEF UpdateInstance, Quiet
    <3>2. CASE SaveRow(AskedInstance(w))
      <4>1. clock \in Nat /\ clock + 1 \in 0..MaxRevision /\ AskedInstance(w) \in InstanceRow
        BY <2>2, Served, AskedType DEF UpdateInstance
      <4>2. UNCHANGED build
        BY <2>2 DEF UpdateInstance
      <4> QED BY <3>2, <4>1, <4>2, SaveCommits DEF Committed
    <3> QED BY <2>2, <3>1, <3>2 DEF UpdateInstance
  <2>3. ASSUME NEW u \in UserIds, CreateUser(w, u) PROVE Committed
    BY <2>3, TouchCommits DEF CreateUser, WriteUser
  <2>4. CASE UpdateUser(w)
    BY <2>4, TouchCommits DEF UpdateUser, WriteUser
  <2>5. CASE DeleteUser(w)
    BY <2>5, TouchCommits DEF DeleteUser
  <2>6. ASSUME NEW d \in DatabaseIds, CreateDatabase(w, d) PROVE Committed
    BY <2>6, TouchCommits DEF CreateDatabase
  <2>7. CASE UpdateDatabase(w)
    BY <2>7, TouchCommits DEF UpdateDatabase
  <2>8. CASE DeleteDatabase(w)
    BY <2>8, TouchCommits DEF DeleteDatabase
  <2>9. CASE DeleteInstance(w)
    BY <2>9 DEF DeleteInstance, Serving, Committed
  <2>10. CASE Reject(w)
    BY <2>10 DEF Reject, Quiet
  <2> QED BY <1>2, <2>1, <2>2, <2>3, <2>4, <2>5, <2>6, <2>7, <2>8, <2>9, <2>10 DEF Serve
<1>3. CASE LoadForInfra \/ ScaleNodeSet
  BY <1>3 DEF LoadForInfra, ScaleNodeSet, Quiet
<1>4. CASE SaveFromInfra
  <2>1. saving \in InstanceRow
    BY <1>4 DEF SaveFromInfra, IInv, TypeOK
  <2>2. CASE instance # Absent /\ clock < MaxRevision
    <3>1. SaveRow(saving) /\ UNCHANGED build
      BY <1>4, <2>2 DEF SaveFromInfra
    <3>2. clock \in Nat /\ clock + 1 \in 0..MaxRevision
      BY <2>2, ValuesAssumption DEF IInv, TypeOK
    <3> QED BY <2>1, <3>1, <3>2, SaveCommits DEF Committed
  <2>3. CASE ~(instance # Absent /\ clock < MaxRevision)
    BY <1>4, <2>3 DEF SaveFromInfra, Quiet
  <2> QED BY <2>2, <2>3
<1>5. CASE Build
  BY <1>5 DEF Build, ActualizeStart, GetUsers, ActualizePaasObjects, Raise, Withdraw, Quiet
<1> QED BY <1>1, <1>2, <1>3, <1>4, <1>5 DEF Next

LEMMA QuietLog ==
  ASSUME LogInv, LogNext, Quiet
  PROVE  log' = log /\ Rows' = Rows
  BY DEF LogNext, Quiet, Rows

LEMMA CommitLog ==
  ASSUME LogInv, LogNext, Committed
  PROVE  /\ log' = Append(log, Rows') /\ Len(log') = Len(log) + 1
         /\ log' \in Seq(RowsState)
         /\ log'[Len(log')] = Rows'
         /\ \A m \in 1..Len(log) : log'[m] = log[m]
         /\ tracked' = tracked /\ published' = published /\ builder' = builder /\ seen' = seen
<1>1. IInv' /\ clock \in Nat
  BY StepIInv DEF LogInv, LogNext, IInv, TypeOK
<1>2. instance' # instance
  BY <1>1 DEF Committed, LogInv, IInv, Dated
<1>3. Rows' # Rows
  BY <1>2 DEF Rows
<1>4. Rows' \in RowsState
  BY <1>1 DEF IInv, TypeOK, Rows, RowsState
<1>5. log \in Seq(RowsState) /\ log' = Append(log, Rows')
  BY <1>3 DEF LogNext, LogInv, LogKept
<1>6. tracked' = tracked /\ published' = published /\ builder' = builder
  BY DEF Committed, build
<1>7. seen' = seen
  BY <1>6 DEF LogNext, Finishes
<1> HIDE DEF Rows
<1> QED BY <1>4, <1>5, <1>6, <1>7

LEMMA CommitKeeps ==
  ASSUME LogInv, LogNext, Committed
  PROVE  LogInv'
<1>1. IInv'
  BY StepIInv DEF LogInv, LogNext
<1>2. clock \in Nat /\ tracked \in Int /\ tracked <= clock /\ Len(log) \in Nat /\ seen \in 1..Len(log)
  BY DEF LogInv, LogKept, IInv, TypeOK, Dated
<1>3. LogKept'
  <2> DEFINE n == Len(log) + 1
  <2>1. \A m \in 1..Len(log') : m \in 1..Len(log) \/ m = n
    BY <1>2, CommitLog
  <2>2. clock' = clock \/ clock' = clock + 1
    BY DEF Committed
  <2>3. \A m \in 1..Len(log) : Live(log'[m]) => log'[m].instance.updated <= clock /\ log'[m].instance.updated \in Int
    <3> SUFFICES ASSUME NEW m \in 1..Len(log), Live(log'[m])
                 PROVE  log'[m].instance.updated <= clock /\ log'[m].instance.updated \in Int
      OBVIOUS
    <3>1. log'[m] = log[m] /\ log[m] \in RowsState
      BY CommitLog DEF LogInv, LogKept
    <3>2. log[m].instance \in InstanceRow
      BY <3>1 DEF Live, RowsState
    <3> QED BY <3>1, <3>2 DEF LogInv, LogKept, InstanceRow
  <2>4. Live(log'[n]) => clock' = clock + 1 /\ log'[n].instance.updated = clock + 1
    <3>1. log'[n].instance = instance'
      BY CommitLog DEF Rows
    <3> QED BY <3>1 DEF Live, Committed
  <2>5. \A m \in 1..Len(log') : Live(log'[m]) => log'[m].instance.updated <= clock'
    BY <1>2, <2>1, <2>2, <2>3, <2>4
  <2>6. \A m, k \in 1..Len(log') :
          Live(log'[m]) /\ Live(log'[k]) /\ log'[m].instance.updated = log'[k].instance.updated => m = k
    <3> SUFFICES ASSUME NEW m \in 1..Len(log'), NEW k \in 1..Len(log'), Live(log'[m]), Live(log'[k]),
                        log'[m].instance.updated = log'[k].instance.updated
                 PROVE  m = k
      OBVIOUS
    <3>1. CASE m \in 1..Len(log) /\ k \in 1..Len(log)
      BY <3>1, CommitLog DEF LogInv, LogKept
    <3>2. CASE ~(m \in 1..Len(log) /\ k \in 1..Len(log))
      BY <1>2, <2>1, <2>3, <2>4, <3>2
    <3> QED BY <3>1, <3>2
  <2>7. seen' \in 1..Len(log') /\ Len(log') >= 1
    BY <1>2, CommitLog
  <2> QED BY <2>5, <2>6, <2>7, CommitLog DEF LogKept
<1>4. 1..Len(log) \subseteq 1..Len(log')
  BY <1>2, CommitLog
<1>5. TrackedLogged'
  BY <1>4, CommitLog DEF LogInv, TrackedLogged, Dates, Live
<1>6. ReadsLogged'
  <2> SUFFICES ASSUME builder'.at # "idle" PROVE ReadsLogged'
    BY DEF ReadsLogged
  <2>1. builder' = builder /\ tracked' = tracked /\ seen' = seen
    BY CommitLog
  <2>2. \A i \in 1..Len(log) : SizesAt(i) => i \in 1..Len(log') /\ SizesAt(i)'
    BY <1>2, <2>1, CommitLog DEF SizesAt
  <2>3. \A j \in 1..Len(log) : UsersAt(j) => j \in 1..Len(log') /\ UsersAt(j)'
    <3> SUFFICES ASSUME NEW j \in 1..Len(log), UsersAt(j) PROVE j \in 1..Len(log') /\ UsersAt(j)'
      OBVIOUS
    <3>1. log'[j] = log[j] /\ j \in 1..Len(log')
      BY <1>4, CommitLog
    <3> QED BY <2>1, <3>1 DEF UsersAt, OnePerName, UserEntries
  <2>4. builder.row.updated # tracked /\ \E i \in 1..Len(log) : SizesAt(i)
    BY <2>1 DEF LogInv, ReadsLogged
  <2>5. \E i \in 1..Len(log') : SizesAt(i)'
    BY <2>2, <2>4
  <2>6. ASSUME builder'.at = "databases"
        PROVE  \E i \in 1..Len(log') : \E j \in i..Len(log') : SizesAt(i)' /\ UsersAt(j)'
    <3>1. PICK i \in 1..Len(log) : \E j \in i..Len(log) : SizesAt(i) /\ UsersAt(j)
      BY <2>1, <2>6 DEF LogInv, ReadsLogged
    <3>2. PICK j \in i..Len(log) : SizesAt(i) /\ UsersAt(j)
      BY <3>1
    <3>3. j \in 1..Len(log)
      BY <1>2, <3>2
    <3>4. i \in 1..Len(log') /\ SizesAt(i)' /\ j \in 1..Len(log') /\ UsersAt(j)'
      BY <2>2, <2>3, <3>2, <3>3
    <3> QED BY <1>2, <3>2, <3>4
  <2> QED BY <2>1, <2>4, <2>5, <2>6 DEF ReadsLogged
<1> QED BY <1>1, <1>3, <1>5, <1>6 DEF LogInv

(* Steps that change neither the rows nor the builder. *)
LEMMA QuietKeepsLog ==
  ASSUME LogInv, IInv', Quiet, UNCHANGED build, log' = log, seen' = seen
  PROVE  LogInv'
<1>1. Rows' = Rows /\ clock' = clock /\ builder' = builder /\ tracked' = tracked
  BY DEF Quiet, Rows, build
<1>2. LogKept'
  BY <1>1 DEF LogInv, LogKept, Live
<1>3. TrackedLogged' /\ ReadsLogged'
  BY <1>1 DEF LogInv, TrackedLogged, Dates, Live, ReadsLogged, SizesAt, UsersAt, OnePerName, UserEntries
<1> QED BY <1>2, <1>3 DEF LogInv

-----------------------------------------------------------------------------
(* The iteration that ends was made of commits i, j and the last one, in this
   order and none older than the payload before it. *)
Reads(i, j) ==
  /\ i \in 1..Len(log) /\ j \in 1..Len(log)
  /\ log[i].instance = builder.row /\ builder.row \in InstanceRow
  /\ builder.users \in OnePerName(UserEntries(log[j].users))
  /\ tracked' = builder.row.updated /\ tracked' # -1 /\ tracked' # tracked
  /\ seen' = Len(log) /\ log' = log /\ Dates(log, i, tracked')

LEMMA ActualizeReads ==
  ASSUME LogInv, LogNext, ActualizePaasObjects
  PROVE  \E i \in seen..Len(log) : \E j \in i..Len(log) : Reads(i, j)
<1>1. builder.at = "databases" /\ tracked' = builder.row.updated /\ builder.row \in InstanceRow
  BY DEF ActualizePaasObjects, LogInv, IInv, TypeOK, Dated
<1>2. PICK i \in 1..Len(log) : \E j \in i..Len(log) : SizesAt(i) /\ UsersAt(j)
  BY <1>1 DEF LogInv, ReadsLogged
<1>3. PICK j \in i..Len(log) : SizesAt(i) /\ UsersAt(j)
  BY <1>2
<1>4. builder.row.updated # tracked /\ builder.row.updated \in Nat
  BY <1>1, ValuesAssumption DEF LogInv, ReadsLogged, InstanceRow
<1>5. Quiet /\ log' = log
  BY QuietLog DEF ActualizePaasObjects, Quiet
<1>6. seen' = Len(log)
  BY <1>1, <1>4 DEF LogNext, Finishes
<1>7. Dates(log, i, tracked')
  BY <1>1, <1>3, AbsentAssumption DEF SizesAt, Dates, Live
<1> QED BY <1>1, <1>3, <1>4, <1>5, <1>6, <1>7 DEF SizesAt, UsersAt, Reads

LEMMA BuildKeepsLog ==
  ASSUME LogInv, LogNext, Build, Quiet
  PROVE  LogInv'
<1>1. IInv'
  BY StepIInv DEF LogInv, LogNext
<1>2. log' = log /\ Rows' = Rows /\ clock' = clock
  BY QuietLog DEF Quiet
<1>3. Len(log) \in Nat /\ Len(log) >= 1 /\ seen \in 1..Len(log)
  BY DEF LogInv, LogKept
<1>4. seen' \in 1..Len(log)
  BY <1>3 DEF LogNext
<1>5. LogKept'
  BY <1>2, <1>4 DEF LogInv, LogKept, Live
<1>6. CASE ActualizeStart
  <2>1. builder' = [at |-> "users", row |-> instance, users |-> {}] /\ tracked' = tracked
        /\ instance.updated # tracked
    BY <1>6 DEF ActualizeStart
  <2>2. seen' = seen
    BY <2>1 DEF LogNext, Finishes
  <2>3. log[Len(log)].instance = instance
    BY DEF LogInv, LogKept, Rows
  <2>4. SizesAt(Len(log))'
    BY <1>2, <1>3, <2>1, <2>2, <2>3 DEF SizesAt
  <2>5. ReadsLogged'
    BY <1>2, <1>3, <2>1, <2>4 DEF ReadsLogged
  <2>6. TrackedLogged'
    BY <1>2, <2>1 DEF LogInv, TrackedLogged, Dates, Live
  <2> QED BY <1>1, <1>5, <2>5, <2>6 DEF LogInv
<1>7. CASE GetUsers
  <2>1. PICK s \in OnePerName(UserEntries(users)) :
          builder' = [builder EXCEPT !.at = "databases", !.users = s]
    BY <1>7 DEF GetUsers
  <2>2. builder'.row = builder.row /\ builder'.users = s /\ builder'.at = "databases"
    BY <2>1 DEF LogInv, IInv, TypeOK
  <2>3. tracked' = tracked /\ builder.at = "users"
    BY <1>7 DEF GetUsers
  <2>4. seen' = seen
    BY <2>3 DEF LogNext, Finishes
  <2>5. PICK i \in 1..Len(log) : SizesAt(i)
    BY <2>3 DEF LogInv, ReadsLogged
  <2>6. SizesAt(i)'
    BY <1>2, <2>2, <2>4, <2>5 DEF SizesAt
  <2>7. log[Len(log)].users = users
    BY DEF LogInv, LogKept, Rows
  <2>8. UsersAt(Len(log))'
    BY <1>2, <1>3, <2>2, <2>7 DEF UsersAt, OnePerName, UserEntries
  <2>9. builder'.row.updated # tracked'
    BY <2>2, <2>3 DEF LogInv, ReadsLogged
  <2>10. ReadsLogged'
    BY <1>2, <1>3, <2>5, <2>6, <2>8, <2>9 DEF ReadsLogged
  <2>11. TrackedLogged'
    BY <1>2, <2>3 DEF LogInv, TrackedLogged, Dates, Live
  <2> QED BY <1>1, <1>5, <2>10, <2>11 DEF LogInv
<1>8. CASE ActualizePaasObjects
  <2>1. builder'.at = "idle"
    BY <1>8 DEF ActualizePaasObjects, NotBuilding
  <2>2. TrackedLogged'
    BY <1>2, <1>8, ActualizeReads DEF Reads, TrackedLogged, Dates, Live
  <2> QED BY <1>1, <1>5, <2>1, <2>2 DEF LogInv, ReadsLogged
<1>9. CASE Raise
  <2>1. builder'.at = "idle" /\ tracked' = tracked
    BY <1>9 DEF Raise, NotBuilding
  <2>2. TrackedLogged'
    BY <1>2, <2>1 DEF LogInv, TrackedLogged, Dates, Live
  <2> QED BY <1>1, <1>5, <2>1, <2>2 DEF LogInv, ReadsLogged
<1>10. CASE Withdraw
  <2>1. builder'.at = "idle" /\ tracked' = -1
    BY <1>10 DEF Withdraw
  <2> QED BY <1>1, <1>5, <2>1 DEF LogInv, ReadsLogged, TrackedLogged
<1> QED BY <1>6, <1>7, <1>8, <1>9, <1>10 DEF Build

LEMMA StepLog == LogInv /\ [LogNext]_<<vars, logVars>> => LogInv'
<1> SUFFICES ASSUME LogInv, [LogNext]_<<vars, logVars>> PROVE LogInv'
  OBVIOUS
<1>1. IInv'
  BY StepIInv DEF LogInv, LogNext
<1>2. CASE LogNext
  <2>1. Committed \/ (Quiet /\ UNCHANGED build) \/ (Quiet /\ Build)
    BY <1>2, StepCases DEF LogInv, LogNext
  <2>2. CASE Quiet /\ UNCHANGED build
    <3>1. log' = log
      BY <1>2, <2>2, QuietLog
    <3>2. seen' = seen
      BY <1>2, <2>2 DEF LogNext, Finishes, build
    <3> QED BY <1>1, <2>2, <3>1, <3>2, QuietKeepsLog
  <2> QED BY <1>2, <2>1, <2>2, CommitKeeps, BuildKeepsLog
<1>3. CASE UNCHANGED <<vars, logVars>>
  BY <1>1, <1>3, QuietKeepsLog DEF vars, logVars, Quiet
<1> QED BY <1>2, <1>3

LEMMA LogInvariance == LogSpec => []LogInv
  BY InitLog, StepLog, PTL DEF LogSpec

-----------------------------------------------------------------------------
LEMMA CommitDated ==
  ASSUME LogInv, NEW m, NEW date, Dates(log, m, date)
  PROVE  \A n \in 1..Len(log) : Dates(log, n, date) => n = m
  BY DEF LogInv, LogKept, Dates

(* A commit is a commit, and the position of what was published stays. *)
LEMMA CommitImplements ==
  ASSUME LogInv, LogNext, Committed
  PROVE  Abstract!Commit
<1>1. LogInv'
  BY CommitKeeps
<1>2. Len(log) \in Nat /\ Len(log') = Len(log) + 1 /\ log' \in Seq(RowsState)
  BY CommitLog DEF LogInv, LogKept
<1>3. log' \in [1..Len(log) + 1 -> RowsState]
  BY <1>2
<1>4. Position' = Position
  <2>1. CASE tracked = -1
    BY <2>1, PositionIs, CommitLog DEF CommitOf
  <2>2. CASE tracked # -1
    <3>1. PICK m \in 1..Len(log) : Dates(log, m, tracked)
      BY <2>2 DEF LogInv, TrackedLogged
    <3>2. Dates(log', m, tracked)
      BY <1>2, <3>1, CommitLog DEF Dates, Live
    <3>3. \A n \in 1..Len(log) : Dates(log, n, tracked) => n = m
      BY <3>1, CommitDated
    <3>4. \A n \in 1..Len(log') : Dates(log', n, tracked) => n = m
      BY <1>1, <3>2 DEF LogInv, LogKept, Dates
    <3>5. CommitOf(log, tracked) = m
      BY <2>2, <3>1, <3>3, CommitFound
    <3>6. CommitOf(log', tracked) = m
      BY <2>2, <3>2, <3>4, CommitFound
    <3> QED BY <3>5, <3>6, PositionIs, CommitLog
  <2> QED BY <2>1, <2>2
<1> QED BY <1>3, <1>4, CommitLog DEF Abstract!Commit

LEMMA ActualizeImplements ==
  ASSUME LogInv, LogNext, ActualizePaasObjects
  PROVE  Abstract!Publish
<1>1. PICK i \in seen..Len(log) : \E j \in i..Len(log) : Reads(i, j)
  BY ActualizeReads
<1>2. PICK j \in i..Len(log) : Reads(i, j)
  BY <1>1
<1>3. PICK s \in OnePerName(DatabaseEntries(users, databases)) :
        published' = [users |-> builder.users, databases |-> s,
                      nodes |-> builder.row.nodes, sync |-> builder.row.sync]
  BY DEF ActualizePaasObjects, Published
<1>4. log[Len(log)].users = users /\ log[Len(log)].databases = databases /\ Len(log) \in Nat
  BY DEF LogInv, LogKept, Rows
<1>5. published' \in MadeOf(log[i], log[j], log[Len(log)])
  BY <1>2, <1>3, <1>4 DEF Reads, MadeOf
<1>6. Position' = i
  BY <1>2, CommitDated, CommitFound, PositionIs DEF Reads
<1>7. ~NoInstance(log[i])
  BY <1>2 DEF Reads, Dates, Live, NoInstance
<1>8. Len(log) \in j..Len(log)
  BY <1>2, <1>4 DEF Reads
<1> QED BY <1>1, <1>2, <1>5, <1>6, <1>7, <1>8 DEF Reads, Abstract!Publish

LEMMA StepImplements ==
  ASSUME LogInv, [LogNext]_<<vars, logVars>>
  PROVE  [Abstract!Next]_Abstract!vars
<1>1. ASSUME UNCHANGED <<log, seen, tracked, published>> PROVE UNCHANGED Abstract!vars
  BY <1>1, PositionIs DEF Abstract!vars
<1>2. CASE UNCHANGED <<vars, logVars>>
  BY <1>1, <1>2 DEF vars, logVars, build
<1>3. CASE LogNext
  <2>1. Committed \/ (Quiet /\ UNCHANGED build) \/ (Quiet /\ Build)
    BY <1>3, StepCases DEF LogInv, LogNext
  <2>2. CASE Committed
    BY <1>3, <2>2, CommitImplements DEF Abstract!Next
  <2>3. CASE Quiet /\ UNCHANGED build
    BY <1>1, <1>3, <2>3, QuietLog DEF LogNext, Finishes, build
  <2>4. CASE Quiet /\ (ActualizeStart \/ GetUsers \/ Raise)
    <3>1. tracked' = tracked /\ published' = published
      BY <2>4 DEF ActualizeStart, GetUsers, Raise
    <3> QED BY <1>1, <1>3, <2>4, <3>1, QuietLog DEF LogNext, Finishes
  <2>5. CASE ActualizePaasObjects
    BY <1>3, <2>5, ActualizeImplements DEF Abstract!Next
  <2>6. CASE Quiet /\ Withdraw
    <3>1. published' = Absent /\ tracked' = -1 /\ instance = Absent
      BY <2>6 DEF Withdraw
    <3>2. log' = log /\ seen' = seen
      BY <1>3, <2>6, <3>1, QuietLog DEF LogNext, Finishes
    <3>3. NoInstance(log[Len(log)])
      BY <3>1 DEF LogInv, LogKept, Rows, NoInstance
    <3>4. Position' = 0
      BY <3>1, PositionIs DEF CommitOf
    <3> QED BY <3>1, <3>2, <3>3, <3>4 DEF Abstract!Withdraw, Abstract!Next
  <2> QED BY <2>1, <2>2, <2>3, <2>4, <2>5, <2>6 DEF Build
<1> QED BY <1>2, <1>3

LEMMA InitImplements == LogInit => Abstract!Init
<1> SUFFICES ASSUME LogInit PROVE Abstract!Init
  OBVIOUS
<1>1. Rows \in RowsState
  BY InitIInv, RowsType DEF LogInit, IInv
<1>2. log = <<Rows>> /\ seen = 1 /\ tracked = -1 /\ published = Absent
  BY DEF LogInit, Init
<1>3. log \in [1..1 -> RowsState]
  BY <1>1, <1>2
<1>4. Position = 0
  BY <1>2 DEF Position
<1> QED BY <1>2, <1>3, <1>4 DEF Abstract!Init

(* The control plane implements the abstract publication: payloads are made of
   committed rows in the order they were read, and never go back. *)
THEOREM Implementation == LogSpec => ImplementsPublication
  BY InitImplements, StepImplements, LogInvariance, PTL DEF LogSpec, ImplementsPublication, Abstract!Spec
=============================================================================
