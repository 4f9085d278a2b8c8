---------------------------- MODULE MCCoreInfra ----------------------------
(* A small instance of CoreInfra for TLC. *)
EXTENDS CoreInfra

(* A size only grows: what starts with the largest is no more than what starts
   with the only one, so the run starts with the smallest. *)
SmallInit == Init /\ \A z \in Sizes : row.size <= z
SmallSpec == SmallInit /\ [][Next]_vars /\ Fairness

(* A request changes the number of machines or their size: a bound on requests,
   which are not fair. *)
OneChange ==
  request # Absent /\ request' = Absent /\ row'.nodes # 0 =>
    row'.size = request.size \/ row'.nodes = request.nodes
=============================================================================
