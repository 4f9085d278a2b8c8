-------------------------- MODULE PGNodeBootProofs --------------------------
(***************************************************************************)
(* Proofs about PGNodeBoot: for any number of configurations and boots,    *)
(* Patroni never runs on the root disk of a node with a persistent one,    *)
(* and not with an old file unless a command for the new one is to come.   *)
(***************************************************************************)
EXTENDS PGNodeBoot, TLAPS

(* How far the script is, and that nothing is enabled, started or run before it
   gets there. *)
Mounted ==
  disk =>
    /\ enabled => moved = Directories
    /\ up => enabled
    /\ running # 0 => up
    /\ script = "raft" => "data" \in moved
    /\ script \in {"enable", "done"} => moved = Directories

IInv == TypeOK /\ Mounted /\ OldUntilTold

LEMMA FirstStepType == FirstStep \in {"data", "enable"} /\ (disk => FirstStep = "data")
  BY DEF FirstStep

LEMMA InitIInv == Init => IInv
<1> SUFFICES ASSUME Init PROVE IInv
  OBVIOUS
<1>1. disk \in BOOLEAN /\ enabled \in BOOLEAN /\ up \in BOOLEAN /\ notify \in BOOLEAN
  BY DEF Init
<1>2. TypeOK
  BY <1>1, BootAssumption, FirstStepType DEF Init, TypeOK, Directories, Config
<1>3. Mounted
  BY FirstStepType DEF Init, Mounted
<1> QED BY <1>2, <1>3 DEF IInv, Init, OldUntilTold

LEMMA NextIInv == IInv /\ [Next]_vars => IInv'
<1> SUFFICES ASSUME IInv, [Next]_vars PROVE IInv'
  OBVIOUS
<1> USE BootAssumption DEF IInv, TypeOK, Mounted, OldUntilTold, Directories, Config, delivery
<1>1. ASSUME NEW d \in Directories, Migrate(d) PROVE IInv'
  BY <1>1 DEF Migrate
<1>2. CASE EnableNow
  BY <1>2 DEF EnableNow
<1>3. CASE PublishConfig
  BY <1>3 DEF PublishConfig
<1>4. CASE WriteConfig
  <2>1. TypeOK' /\ Mounted'
    BY <1>4 DEF WriteConfig
  <2>2. OldUntilTold'
    BY <1>4, Zenon DEF WriteConfig
  <2> QED BY <2>1, <2>2
<1>5. CASE OnReload
  <2>1. disk' \in BOOLEAN /\ enabled' \in BOOLEAN /\ up' \in BOOLEAN /\ notify' \in BOOLEAN
    BY <1>5, Zenon DEF OnReload
  <2>2. TypeOK'
    BY <2>1, <1>5 DEF OnReload
  <2>3. Mounted'
    BY <1>5 DEF OnReload
  <2>4. OldUntilTold'
    BY <1>5 DEF OnReload
  <2> QED BY <2>2, <2>3, <2>4
<1>6. CASE Start
  BY <1>6 DEF Start
<1>7. CASE Exit
  BY <1>7 DEF Exit
<1>8. CASE Reboot
  <2>1. disk' \in BOOLEAN /\ enabled' \in BOOLEAN /\ up' \in BOOLEAN /\ notify' \in BOOLEAN
    BY <1>8, Zenon DEF Reboot
  <2>2. TypeOK'
    BY <2>1, <1>8, FirstStepType DEF Reboot
  <2>3. Mounted'
    BY <1>8, FirstStepType DEF Reboot
  <2>4. OldUntilTold'
    BY <1>8 DEF Reboot
  <2> QED BY <2>2, <2>3, <2>4
<1>9. CASE NewImage
  <2>1. disk' \in BOOLEAN /\ enabled' \in BOOLEAN /\ up' \in BOOLEAN /\ notify' \in BOOLEAN
    BY <1>9, Zenon DEF NewImage
  <2>2. TypeOK'
    BY <2>1, <1>9, FirstStepType DEF NewImage
  <2>3. Mounted'
    BY <1>9, FirstStepType DEF NewImage
  <2>4. OldUntilTold'
    BY <1>9 DEF NewImage
  <2> QED BY <2>2, <2>3, <2>4
<1>10. CASE UNCHANGED vars
  BY <1>10 DEF vars
<1> QED BY <1>1, <1>2, <1>3, <1>4, <1>5, <1>6, <1>7, <1>8, <1>9, <1>10 DEF Next, Script

LEMMA Invariance == Spec => []IInv
  BY InitIInv, NextIInv, PTL DEF Spec

(* Every variable keeps its type, and what Patroni runs with was delivered. *)
THEOREM TypeCorrect == Spec => []TypeOK
<1>1. IInv => TypeOK
  BY DEF IInv
<1> QED BY <1>1, Invariance, PTL

(* However deliveries, starts, exits, reboots and new images interleave with the
   script, Patroni never runs before its directories are on the persistent disk. *)
THEOREM DataSafe == Spec => []DataOnDisk
<1>1. IInv => DataOnDisk
  BY DEF IInv, Mounted, DataOnDisk
<1> QED BY <1>1, Invariance, PTL

(* A file that was replaced is given up by Patroni no later than the command of
   the new one, whatever a boot or an exit did between the two. *)
THEOREM NewFileTold == Spec => []OldUntilTold
<1>1. IInv => OldUntilTold
  BY DEF IInv
<1> QED BY <1>1, Invariance, PTL
=============================================================================
