--------------------------- MODULE ManagedCluster ---------------------------
(***************************************************************************)
(* What the agents promise, without how they do it: a database cluster in  *)
(* which, besides Patroni and the operator, only statements justified by a *)
(* published payload are executed.  A node adopts payloads in the order of *)
(* their publication; each statement takes one role, or one database, that *)
(* is not reserved to exactly what the payload its node adopted says.      *)
(* There is no program counter, no memory of rows read, no cache, no meta  *)
(* file and no failure here: PGAgent implements this module.               *)
(***************************************************************************)
EXTENDS PGCluster

VARIABLE ver  \* the publication each node has adopted

managedVars == <<clusterVars, ver>>

Adopted(n) == pub[ver[n]]

Init == ClusterInit /\ ver = [n \in Nodes |-> 1]

Adopt(n) ==
  /\ ver' = [ver EXCEPT ![n] = Latest]
  /\ UNCHANGED clusterVars

Configure(n) ==
  /\ dcs' = [mode |-> SyncEnabled(Adopted(n)), count |-> Adopted(n).sync]
  /\ UNCHANGED <<pub, leader, pg, failovers, edits, ver>>

Execute(n, copy) ==
  /\ Write(n, copy)
  /\ UNCHANGED <<pub, leader, dcs, failovers, edits, ver>>

SetRole(n, r) ==
  /\ Adopted(n).users[r] # Absent
  /\ Execute(n, WithRole(pg[n], r, Adopted(n).users[r]))

DropRole(n, r) ==
  /\ Adopted(n).users[r] = Absent
  /\ \A d \in Databases : pg[n].owners[d] # r
  /\ Execute(n, WithRole(pg[n], r, Absent))

(* Only a database that did not exist is opened to PUBLIC. *)
SetOwner(n, d) ==
  /\ Adopted(n).databases[d] # Absent
  /\ pg[n].roles[Adopted(n).databases[d]] # Absent
  /\ LET owned == WithOwner(pg[n], d, Adopted(n).databases[d]) IN
       IF pg[n].owners[d] = Absent
       THEN Execute(n, WithPublic(owned, pg[n].public \cup {d}))
       ELSE Execute(n, owned)

CloseDatabase(n, d) ==
  /\ pg[n].owners[d] # Absent
  /\ Adopted(n).databases[d] # Absent
  /\ Execute(n, WithPublic(pg[n], pg[n].public \ {d}))

DropDatabase(n, d) ==
  /\ Adopted(n).databases[d] = Absent
  /\ Execute(n, WithPublic(WithOwner(pg[n], d, Absent), pg[n].public \ {d}))

Statement(n) ==
  \/ \E r \in Roles \ SystemRoles : SetRole(n, r) \/ DropRole(n, r)
  \/ \E d \in Databases \ SystemDatabases :
       SetOwner(n, d) \/ CloseDatabase(n, d) \/ DropDatabase(n, d)

Environment ==
  /\ \/ \E p \in Payloads : Publish(p)
     \/ \E n \in Nodes : Replicate(n) \/ Failover(n)
     \/ \E k \in 0..MaxSync : EditDCS(k)
  /\ UNCHANGED ver

Next ==
  \/ \E n \in Nodes : Adopt(n) \/ Configure(n) \/ Statement(n)
  \/ Environment

Spec == Init /\ [][Next]_managedVars
=============================================================================
