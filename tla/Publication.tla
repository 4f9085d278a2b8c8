---------------------------- MODULE Publication ----------------------------
(***************************************************************************)
(* What the control plane promises of the payload it publishes for one     *)
(* instance, whatever the order in which it reads the rows: a payload is   *)
(* made of committed rows, its sizes of rows no newer than those its users *)
(* are of, its users no newer than its databases, and nothing in it is     *)
(* older than anything in the payload before it.                           *)
(***************************************************************************)
EXTENDS Integers, Sequences

CONSTANTS
  State,              \* what a commit may leave: all rows of the instance
  Absent,             \* nothing published
  Gone(_),            \* in this state the instance does not exist
  Payload(_, _, _)    \* the payloads made of the sizes, users and databases of three states

VARIABLES
  log,        \* the states left by the commits so far, never empty
  seen,       \* the newest of them that a payload was made of
  upto,       \* the commit for which the control plane has published, 0 for none
  published

vars == <<log, seen, upto, published>>

Init ==
  /\ log \in [1..1 -> State]
  /\ seen = 1
  /\ upto = 0
  /\ published = Absent

Commit ==
  /\ log' \in [1..Len(log) + 1 -> State]
  /\ \A m \in 1..Len(log) : log'[m] = log[m]
  /\ UNCHANGED <<seen, upto, published>>

Publish ==
  /\ \E i \in seen..Len(log) : \E j \in i..Len(log) : \E k \in j..Len(log) :
       /\ ~Gone(log[i])
       /\ published' \in Payload(log[i], log[j], log[k])
       /\ upto' = i
       /\ seen' = k
  /\ UNCHANGED log

Withdraw ==
  /\ Gone(log[Len(log)])
  /\ published' = Absent
  /\ upto' = 0
  /\ UNCHANGED <<log, seen>>

Next == Commit \/ Publish \/ Withdraw

Spec == Init /\ [][Next]_vars
=============================================================================
