----------------------------- MODULE PGNodeBoot -----------------------------
(***************************************************************************)
(* How Patroni comes up on one database node: the bootstrap script         *)
(* (genesis/images/pg_bootstrap.sh), which runs at every boot, moves       *)
(* Patroni's directories to the persistent disk and starts the unit        *)
(* (etc/systemd/exordos-patroni.service); meanwhile the platform's agent   *)
(* may deliver patroni.yml (infra/dm/models.py) at any moment.  The node   *)
(* may reboot, or get a new image, which keeps the persistent disk only.   *)
(*                                                                         *)
(* The unit's ConditionPathExists stands in [Service], where systemd       *)
(* ignores it.  A unit that was started without a file therefore is not    *)
(* passed over: Patroni exits at once, and Restart=always tries again      *)
(* every 5 s until the file is there.                                      *)
(***************************************************************************)
EXTENDS Integers

CONSTANTS
  MaxConfigs,   \* bound: versions of patroni.yml, counted from 1
  MaxBoots      \* bound: reboots and new images

ASSUME BootAssumption == MaxConfigs \in Nat /\ MaxBoots \in Nat

VARIABLES
  disk,      \* the node has a persistent disk
  moved,     \* Patroni's directories that are mounted from it
  script,    \* what pg_bootstrap.sh does next
  enabled,   \* systemd starts the unit at boot
  up,        \* systemd has started the unit in this boot, and keeps restarting it
  wanted,    \* the newest patroni.yml published, 0 for none
  file,      \* patroni.yml on the node, 0 for none
  notify,    \* the file was written, its on_change command has not run yet
  running,   \* the patroni.yml that Patroni runs with, 0 while it does not
  boots

delivery == <<wanted, file, notify>>
vars == <<disk, moved, script, enabled, up, delivery, running, boots>>

Directories == {"data", "raft"}
Config == 0..MaxConfigs

(* TypeOK: every variable keeps its type, and Patroni runs with a file that was
   published only. *)
TypeOK ==
  /\ disk \in BOOLEAN
  /\ moved \subseteq Directories
  /\ script \in Directories \cup {"enable", "done"}
  /\ enabled \in BOOLEAN
  /\ up \in BOOLEAN
  /\ wanted \in Config
  /\ file \in 0..wanted
  /\ notify \in BOOLEAN
  /\ running \in 0..file
  /\ boots \in 0..MaxBoots

FirstStep == IF disk THEN "data" ELSE "enable"

(* A fresh image: pg_install.sh installs the unit without enabling it. *)
Init ==
  /\ disk \in BOOLEAN
  /\ moved = {}
  /\ script = FirstStep
  /\ enabled = FALSE
  /\ up = FALSE
  /\ wanted = 0
  /\ file = 0
  /\ notify = FALSE
  /\ running = 0
  /\ boots = 0

-----------------------------------------------------------------------------
(* migrate_to_persistent, of the data and then of the raft directory. *)
Migrate(d) ==
  /\ script = d
  /\ moved' = moved \cup {d}
  /\ script' = IF d = "data" THEN "raft" ELSE "enable"
  /\ UNCHANGED <<disk, enabled, up, delivery, running, boots>>

(* Mutant: the unit is passed over without a file, as it would be with the
   condition in [Unit]. *)
EnableNowIfThere ==
  /\ script = "enable"
  /\ enabled' = TRUE
  /\ up' = (file # 0)
  /\ script' = "done"
  /\ UNCHANGED <<disk, moved, delivery, running, boots>>

(* systemctl enable --now exordos-patroni *)
EnableNow ==
  /\ script = "enable"
  /\ enabled' = TRUE
  /\ up' = TRUE
  /\ script' = "done"
  /\ UNCHANGED <<disk, moved, delivery, running, boots>>

(* The unit's first start, or one of Restart=always: Patroni stays only if it
   has a file to read. *)
Start ==
  /\ up
  /\ running = 0
  /\ file # 0
  /\ running' = file
  /\ UNCHANGED <<disk, moved, script, enabled, up, delivery, boots>>

(* Patroni exits, for whatever reason. *)
Exit ==
  /\ running # 0
  /\ running' = 0
  /\ UNCHANGED <<disk, moved, script, enabled, up, delivery, boots>>

PublishConfig ==
  /\ wanted < MaxConfigs
  /\ wanted' = wanted + 1
  /\ UNCHANGED <<disk, moved, script, enabled, up, file, notify, running, boots>>

(* Mutant: only the first file has its command run. *)
WriteConfigQuietly ==
  /\ file # wanted
  /\ ~notify
  /\ notify' = (file = 0)
  /\ file' = wanted
  /\ UNCHANGED <<disk, moved, script, enabled, up, wanted, running, boots>>

(* The platform's agent replaces the file, then runs on_change. *)
WriteConfig ==
  /\ file # wanted
  /\ ~notify
  /\ notify' = TRUE
  /\ file' = wanted
  /\ UNCHANGED <<disk, moved, script, enabled, up, wanted, running, boots>>

(* Mutant: reload-or-restart, without try-. *)
OnReloadStarts ==
  /\ notify
  /\ notify' = FALSE
  /\ running' = file
  /\ UNCHANGED <<disk, moved, script, enabled, up, wanted, file, boots>>

(* Mutant: the command does not look at the file. *)
OnReloadPublished ==
  /\ notify
  /\ notify' = FALSE
  /\ running' = IF running = 0 THEN 0 ELSE wanted
  /\ UNCHANGED <<disk, moved, script, enabled, up, wanted, file, boots>>

(* systemctl try-reload-or-restart exordos-patroni: nothing if it is not running. *)
OnReload ==
  /\ notify
  /\ notify' = FALSE
  /\ running' = IF running = 0 THEN 0 ELSE file
  /\ UNCHANGED <<disk, moved, script, enabled, up, wanted, file, boots>>

(* Mounts survive a reboot, and a unit that is enabled is started. *)
Reboot ==
  /\ boots < MaxBoots
  /\ boots' = boots + 1
  /\ script' = FirstStep
  /\ notify' = FALSE
  /\ up' = enabled
  /\ running' = 0
  /\ UNCHANGED <<disk, moved, enabled, wanted, file>>

(* A new image is a new root disk. *)
NewImage ==
  /\ boots < MaxBoots
  /\ boots' = boots + 1
  /\ script' = FirstStep
  /\ moved' = {}
  /\ enabled' = FALSE
  /\ up' = FALSE
  /\ file' = 0
  /\ notify' = FALSE
  /\ running' = 0
  /\ UNCHANGED <<disk, wanted>>

-----------------------------------------------------------------------------
Script == EnableNow \/ \E d \in Directories : Migrate(d)

Next ==
  \/ Script \/ Start \/ Exit
  \/ PublishConfig \/ WriteConfig \/ OnReload
  \/ Reboot \/ NewImage

Spec == Init /\ [][Next]_vars

(* The script ends, the agent delivers, and systemd restarts what it has
   started; no one has to reboot the node, and Patroni need not exit. *)
FairSpec ==
  Spec /\ WF_vars(Script) /\ WF_vars(WriteConfig) /\ WF_vars(OnReload) /\ WF_vars(Start)

-----------------------------------------------------------------------------
(* Postgres and raft never write to the root disk of a node that has a
   persistent one, where the next image would lose what was acknowledged: the
   arrival of patroni.yml, its command, a restart or a boot never runs Patroni
   before the script has moved its directories. *)
DataOnDisk == disk /\ running # 0 => moved = Directories

(* Patroni runs with a file that was replaced only as long as the command of the
   new one is still to come: no boot, exit or late start loses that command
   without bringing the new file in. *)
OldUntilTold == running \notin {0, file} => notify

(* Once configurations and boots stop, Patroni does not run with an old one,
   whatever a boot or an exit did between the file and its command. *)
RunsNewest == <>[](running # 0 => running = wanted)

(* A node whose file was published runs Patroni with the newest one again and
   again, whether the file came before the script started the unit or after it,
   and through any exits, boots and new images: nothing but Restart=always
   starts a unit whose file came late, as its command only reloads. *)
ComesUp == []<>(wanted = 0 \/ running = wanted)
=============================================================================
