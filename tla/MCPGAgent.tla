----------------------------- MODULE MCPGAgent -----------------------------
(* Small instances of PGAgent for TLC. *)
EXTENDS PGAgent, TLC

CONSTANTS n1, n2, app, ops, postgres, d1, h1, h2, hs

None == [r \in Roles |-> Absent]
NoDatabase == [d \in Databases |-> Absent]

(* One user owning one database, on both nodes. *)
Base ==
  [users |-> [None EXCEPT ![app] = h1],
   databases |-> [NoDatabase EXCEPT ![d1] = app],
   nodes |-> {n1, n2}, sync |-> 1]

(* A second user takes the database over, the first one's password changes. *)
Handover ==
  [users |-> [None EXCEPT ![app] = h2, ![ops] = h1],
   databases |-> [NoDatabase EXCEPT ![d1] = ops],
   nodes |-> {n1, n2}, sync |-> 0]

(* Deletion of everything but one user. *)
Cleared ==
  [users |-> [None EXCEPT ![ops] = h1],
   databases |-> NoDatabase,
   nodes |-> {n1, n2}, sync |-> 0]

(* A single node without databases, the documented default of one replica. *)
Single ==
  [users |-> [None EXCEPT ![app] = h1],
   databases |-> NoDatabase,
   nodes |-> {n1}, sync |-> 1]

(* The same instance scaled out. *)
Double == [Single EXCEPT !.nodes = {n1, n2}]

(* Scaled out with a database whose owner is a user of another instance: the
   agents cannot carry it out. *)
Foreign == [Double EXCEPT !.databases[d1] = ops]

(* The sets of payloads the runs publish from. *)
ScalePayloads == {Base, Cleared, Single, Foreign}
PairPayloads == {Base, Handover}
DeletionPayloads == {Base, Cleared}
GrowthPayloads == {Single, Double}

(* Payloads on both nodes do not tell the nodes apart. *)
NodeSymmetry == Permutations({n1, n2})

(* Behaviours that start from one payload; for liveness, where symmetry would
   be unsound, n1 leads first. *)
StartWith(p) == Init /\ Current = p
BaseInit == StartWith(Base)
GrowthInit == StartWith(Single)
LiveInit == StartWith(Base) /\ leader = n1

BaseSpec == BaseInit /\ [][Next]_vars
GrowthSpec == GrowthInit /\ [][Next]_vars /\ Fairness
LiveSpec == LiveInit /\ [][Next]_vars /\ Fairness

(* A failover, or else an edit of the DCS and a fault: a bound on steps of which
   none is fair. *)
Apart == failovers = 0 \/ edits + faults = 0
=============================================================================
