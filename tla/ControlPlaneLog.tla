-------------------------- MODULE ControlPlaneLog --------------------------
(***************************************************************************)
(* ControlPlane with the history of its commits, to show that it           *)
(* implements Publication.                                                 *)
(***************************************************************************)
EXTENDS ControlPlane, Sequences

VARIABLES
  log,    \* the rows as the initial state and every commit since left them
  seen    \* the commit of the databases in the last payload

logVars == <<log, seen>>

Rows == [instance |-> instance, users |-> users, databases |-> databases]

LogInit == Init /\ log = <<Rows>> /\ seen = 1

(* An iteration that ends dates what it has published. *)
Finishes == tracked' # tracked /\ tracked' # -1

LogNext ==
  /\ Next
  /\ log' = IF Rows' = Rows THEN log ELSE Append(log, Rows')
  /\ seen' = IF Finishes THEN Len(log) ELSE seen

LogSpec == LogInit /\ [][LogNext]_<<vars, logVars>>

-----------------------------------------------------------------------------
RowsState ==
  [instance : InstanceRow \cup {Absent},
   users : [UserIds -> UserRow \cup {Absent}],
   databases : [DatabaseIds -> DatabaseRow \cup {Absent}]]

NoInstance(state) == state.instance = Absent

MadeOf(sizes, people, stores) ==
  {[users |-> us, databases |-> ds, nodes |-> sizes.instance.nodes, sync |-> sizes.instance.sync] :
     us \in OnePerName(UserEntries(people.users)),
     ds \in OnePerName(DatabaseEntries(stores.users, stores.databases))}

(* The commit that gave the instance the updated_at that was published. *)
Position ==
  IF tracked = -1 THEN 0
  ELSE CHOOSE m \in 1..Len(log) : ~NoInstance(log[m]) /\ log[m].instance.updated = tracked

Abstract == INSTANCE Publication
  WITH State <- RowsState, Gone <- NoInstance, Payload <- MadeOf, upto <- Position

(* Every payload is made of committed rows in the order in which they were
   read, never of rows older than those of the payload before it, and what the
   builder takes for published is the commit whose sizes it holds. *)
ImplementsPublication == Abstract!Spec
=============================================================================
