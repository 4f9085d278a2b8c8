# Exordos DBaaS in TLA+

A specification of the control plane and the data plane of this repository:
what they do to the rows, the payloads and the Postgres clusters, checked with
TLC on small instances and proved with TLAPS for all of them where the prover
reaches. Paths below are relative to the root of the repository.

## The system and its parts

A customer creates an *instance* (a Postgres cluster managed by Patroni), with
users and databases in it. The user API writes rows; two builders turn the rows
into targets; Core, an external platform, makes the machines; an agent on every
machine makes its Postgres look like the target.

| Part | State | Operations | Meets the others by |
|---|---|---|---|
| User API (`exordos_db/user_api`) | rows of instances, users, databases | create, update, delete; every change of a child also saves its instance (`touch_parent`) | rows, `updated_at` |
| Password hashing (`exordos_db/common/pg_auth`) | the verifier in a user's row | SASLprep, SCRAM verifiers and their check | called when a user is saved |
| PaaS builder (`exordos_db/paas`) | what it has last published | read users, read databases, read the node set, publish one payload per node | reads rows in several statements, writes target resources |
| Infrastructure builder (`exordos_db/infra`) | target node set, Patroni configurations, agents' keys | create, actualize, clean up before deletion | HTTP to Core, target resources, saves the instance row |
| Core agent and scheduler (`exordos_db/services`) | actual resources | report the node set, deliver configurations | Core's API, the tables of the SDK |
| Start-up of a node (`genesis/images/pg_bootstrap.sh`, `etc/systemd`) | mounts, the unit, `patroni.yml` | migrate to the persistent disk, enable the unit, reload | files, systemd |
| PG agent's driver (`exordos_db/agent`) | `pg_meta.json`, a memoised primary check, one connection | `dump_to_dp`, `restore_from_dp`, `update_on_dp`, `delete_from_dp` | fetched targets, SQL, Patroni's REST API |
| Patroni, Postgres, Core, the SDK, restalchemy | external | failover, replication, machines, transactions | modelled only as far as the code uses them |
| HTTP applications, commands, configuration, logging, migration | none of their own | wiring | not modelled as behaviour |

What makes it hard:

- *Every node has an agent, one of them may write.* Which one is asked over HTTP
  and remembered for up to 20 seconds; the others skip their work and report
  success. The leader may change between any two statements.
- *A payload is complete.* What it does not name is dropped. So an old payload,
  a torn read of the rows or an unfiltered system object costs data.
- *No transaction spans an iteration.* Every SQL statement commits by itself;
  a failure leaves a prefix, and the retry starts from what it finds.
- *Rows are saved whole.* A request that only bumps `updated_at` writes back
  every column it loaded, and so does a change of a single one.
- *Core is asynchronous.* Machines come and go one by one, are reported later,
  and get their configuration later still.
- *A node boots while its files arrive.* Nothing orders the script that moves
  Patroni's directories and starts its unit, the delivery of the file without
  which Patroni exits, and systemd's restarts.

What makes each part correct, and where it is stated:

- agents: reserved objects are never touched, only what is still wanted
  survives and only what was deleted goes, databases are closed to PUBLIC, the
  synchronous mode fits the number of nodes, no statement is refused because of
  what the agent itself knows, what it reports as done is done, everything
  converges and then is quiet (`PGAgent`);
- builder and API: the last committed rows are published, no published
  database lacks its owner, and payloads never go back (`ControlPlane`,
  `Publication`);
- passwords: what saslprep accepts is what RFC 4013 allows, and the verifier on
  the nodes belongs to the password in the row (`SaslPrep`, `UserPassword`);
- infrastructure: members, keys, addresses, status and sizes settle to the
  machines there are, nobody rests before they have, and no two raft majorities
  are apart on the way (`CoreInfra`);
- a node: Patroni never writes to the root disk of a node that has a persistent
  one, does not keep running with an old file unless a command that loads the
  new one is still to come, and comes up whenever the file arrives (`PGNodeBoot`).

## Modules

| Module | Stands for |
|---|---|
| `PGCluster` | payloads, the nodes' copies of the cluster, the leader, the DCS; Patroni's and the control plane's steps |
| `PGAgent` (extends `PGCluster`) | the agents of all nodes with the PG driver, composed with the cluster |
| `ManagedCluster` (extends `PGCluster`) | abstract specification: statements justified by an adopted payload |
| `ControlPlane` | API requests, the PaaS builder, the saves of the infrastructure builder |
| `Publication` | abstract specification: what a payload promises about the rows it is made of |
| `ControlPlaneLog` (extends `ControlPlane`) | the history of commits, and the mapping to `Publication` |
| `SaslPrep` | saslprep as an operator on sequences of characters, and what the RFC says |
| `UserPassword` (extends `SaslPrep`) | requests that save users, the verifier in each row |
| `CoreInfra` | the infrastructure builder, Core's node set, raft members and keys, the row with its addresses and status |
| `PGNodeBoot` | one boot after another of a database node, against the delivery of `patroni.yml` |
| `PGAgentProofs`, `PGLeaderProofs`, `ControlPlaneProofs`, `ControlPlaneLogProofs`, `UserPasswordProofs`, `CoreInfraProofs`, `PGNodeBootProofs` | theorems about the modules they are named for; `PGLeaderProofs` has those of `PGAgent` that need a leader that stays |
| `MCPGAgent`, `MCControlPlane`, `MCUserPassword`, `MCCoreInfra` | values of the constants for TLC |

The definitions marked `Mutant` in a comment are wrong on purpose: each is a
plausible slip in the definition that follows it, and makes one property fail.
No specification uses them.

How the modules meet: a payload of `PGCluster` is what `ControlPlane` calls
`published`; the verifiers in it are those of `UserPassword`; the set of nodes
and the machines that come and go are those of `CoreInfra`, which also publishes
the `patroni.yml` that `PGNodeBoot` waits for. Each module takes what comes from
another in the most general form: `PGCluster` publishes any payload,
`PGNodeBoot` gets its file at any moment.

### PGCluster and PGAgent

A node's `Copy` holds `roles` (name to verifier), `owners` (database to owner)
and `public`, the databases PUBLIC may connect to. `Write` is one committed
statement: it needs the leader, and under strict synchronous mode a standby.
`Replicate` brings one standby up to date; `Failover` moves the leader key, to a
node with every acknowledged write if the mode is synchronous, to any node with
whatever it has otherwise. `Publish` appends a payload; a node that joins is a
new machine cloned from the leader.

An agent's `pc` is its place in one iteration:

    idle -> list_users -> list_databases -> list_dcs -> update -> dump
         -> dcs -> select_users -> users -> databases <-> revoke -> (save) idle

`Fetch` picks the newest payload and branches as the SDK's agent does: unknown to
the meta file is a dump, known is a comparison, no longer scheduled here is a
delete. `UpdateOnDP` and `DumpToDP` are two primary checks because the code has
two decorated methods. Each SQL statement is an action (`ApplyUser`, `DropUser`,
`AlterDatabaseOwner`, `CreateDatabase`, `RevokeConnect`, `DropDatabase`), working
from the rows the SELECT returned (`seen`) as the code works from its dict; the
order of names within a loop is left open, the order of loops is kept. `DropUser`
may leave the role: Postgres keeps one that owns a database, and also one that has
tables or privileges in a database, which the copies do not record. `Raise` is
the exception of a refused statement, `Fault` any failing call, `Crash` a death
of the process, `Tick` the end of the 20-second bucket. The meta file keeps
`nodes_number` only (`meta`), because name and uuid never change.

`ManagedCluster` forgets `pc`, `seen`, `meta`, `cache` and `faults`. Under the identity
on the remaining variables every step of an agent is one of its steps or a
stutter (`ImplementsManaged`).

### ControlPlane, ControlPlaneLog and Publication

A request loads the instance, and the user or database it is to change, when it
starts (`Begin`), and commits once. A row that is not changed is not written: an
update that asks for the values it has loaded commits nothing, while every
change of a child forces the loaded instance to be written whole
(`touch_parent`). `SaveRow` gives the row a new `updated`, which stands for the
timestamp and is taken from `clock`; `tracked` is the one last published, the
way the SDK decides whether an instance is outdated. An instance may be created
and deleted, with its children; `Withdraw` is the removal of the targets of one
that is gone, which the SDK does between two iterations. The builder's three
reads are separate actions, since other transactions may commit between them.
`OnePerName` leaves open which of two rows with one name survives in the Python
dict. `Raise` is the error of an iteration for which Core has not made the nodes
yet, or whose instance has one of the `LongNames` that a `PGInstanceNode` does
not take. `SaveFromInfra` is the other builder's write-back of the row as it was
loaded before the HTTP calls (`LoadForInfra`). A verifier is the commit it was
made at, since the salt is fresh. `Strangers` are users of other instances: the
API lets a database have one of them as its owner.

`Publication` knows only a log of committed states. A payload is made of the
sizes of state i, the users of state j and the databases of state k with
i <= j <= k, and i is not before the k of the payload before it: an iteration
may be torn, but nothing in a payload is older than anything in the one before.
`ControlPlaneLog` adds that log as a history; `Position` maps `tracked` to the
commit that dated it.

### SaslPrep and UserPassword

A character is a model value and each stringprep table a set of them; NFKC is an
operator. `Outcome` keeps the order of the code: map, normalize, look at the
first and the last character, then at each one. `Allowed` is the RFC on the whole
string; `Misjudged` are the inputs on which they differ. A verifier is its salt
with the prepared password: the keys in it are one-way functions of that text.
`HashAndSave` is `_update_pw_hash` with the save after it, on the whole row the
request loaded, so that two requests may overwrite each other.

### CoreInfra

`core` is the node set as it is, `actual` as it was last reported, `config` the
raft members in each node's target configuration, `view` those Patroni runs
with. `row` is the instance with the `ips` and the `status` that the builder
writes back; `request` is a row that a request of the API has loaded. An
iteration is a load, an HTTP call and a commit, and is due when the row
(`behind`) or the report (`tracked`) is new; it writes the row it loaded back if
the report changes it. As the code assumes, the node set shrinks from its end.
`calm` remembers whether `nodes_number` has changed by at most one since
everything was settled. Cpu, ram and disk are one `size`.
`Resting` says that the builder, Core and the nodes have nothing to do, without a
word on whether the result is right; `RestsRight` is that it then is.

### PGNodeBoot

`script` is what `pg_bootstrap.sh` does next: move the data directory, move the
raft directory, enable the unit. `WriteConfig` and `OnReload` are the two halves of
a delivery, the file and its command `systemctl try-reload-or-restart`; a reboot
may come between them. `up` says that systemd has started the unit in this boot and
keeps it started. The unit's `ConditionPathExists` stands in `[Service]`
(`exordos-patroni.service:10`), where systemd ignores it; so a start without the file
is not passed over: Patroni exits, and `Restart=always` with `RestartSec=5`, too slow
for the limit on starts, tries again until the file is there. `Start` is the one of
these starts that succeeds, first or later; `Exit` ends Patroni for whatever reason.
A new image keeps the persistent disk and nothing else.

## Runs

| Run | Instance | Shows |
|---|---|---|
| `agent_steady` | 2 nodes, 4 payloads, one of which cannot be carried out, 2 publications after the first | types; only deleted databases are dropped by agents of one leader; databases are closed; the synchronous mode follows the target although standbys skip, or is that of a payload that was refused |
| `agent_faults` | 2 nodes, a deletion, 1 failover, 1 fault or crash | reserved objects stay, only published values appear, no statement of a leader that stays is refused but for a fault of the payload, its iterations that end well have done all their work, the abstract cluster is implemented |
| `agent_live` | 2 nodes, a handover with a new password and other replicas; 1 failover, or else 1 edit of the DCS and 1 fault or crash | convergence, and no endless writing |
| `control_plane` | 2 requests at a time, 2 commits after any initial rows | nothing unpublished, owners published; in the end the last rows are published or, after a deletion, nothing is |
| `publication` | 1 request at a time, 3 commits, users of two instances | payloads never go back |
| `core_infra` | up to 3 nodes, 2 sizes, 2 requests after creation, 8 machines | overlapping majorities; nobody rests before members, keys and row are right, and they do settle |
| `passwords` | 2 requests at a time, 5 requests, 6 passwords; and all of up to 4 characters of 10 classes | verifiers fit; saslprep decides like the RFC |
| `node_boot` | 4 versions of the file, 3 reboots or new images, with and without a persistent disk | data on the disk, an old file only until a command is run, the newest file in the end, and Patroni up with it whether it came before or after the unit's start |
| `agent_failover_drop` | a violation | an old payload drops a newer database after a failover |
| `agent_crash_revoke` | a violation | a database stays open to PUBLIC after a crash |
| `agent_sync_mode` | a violation | synchronous mode is never set after growth with a failover |
| `disk_shrink` | a violation | `touch_parent` restores an old disk size |

Each violation is described in `PROJECT.json` under `findings` with the sentence
of the documentation or the comment it disagrees with.

Bounds, each a constant or a constant set: `MaxPublished`, `MaxFailovers`,
`MaxEdits`, `MaxFaults`, `MaxSync`, `MaxRevision`, `MaxSaves`, `MaxNodes`,
`MaxUpdates`, `MaxConfigs`, `MaxBoots`, and the sets of names, nodes, sizes,
payloads and passwords. Two nodes give one leader and one standby, the two roles
an agent can have; a failover makes each of them either. Two publications after
the first give every agent a newest, a previous and an older payload. The
payloads of `MCPGAgent` differ in every way the driver tells payloads apart: a
user added, dropped or rehashed, a database added, dropped or handed over, the
number of nodes, the replicas. `control_plane` starts from any rows, so that two
commits reach every pair of racing requests, and two commits are enough for a
child and its owner to appear between two reads; in `publication` a third commit
makes a payload between two others. Three nodes are the smallest set in which a
majority is not everyone; with 8 machines no name is ever short, as at most one
is left behind per change and `AddNode` takes one that is forgotten everywhere.
Four characters are two ends and two between them, enough for every order of two
classes in a string; a fifth request gives a user that is created, changed by
two requests at once, deleted and created again.

`agent_faults` uses the symmetry of the two nodes: its specification starts from
a payload on both of them and it checks no liveness. `agent_live` and
`core_infra` bound their steps by a constraint, `Apart` and `OneChange`, which
cuts off failovers, edits, faults and requests only. None of these is subject to
fairness, so what is cut off is never needed to make a behaviour fair.

No run checks for deadlock: with the bounds used up and the target reached, the
agents loop, but the control plane, Core and a booted node have nothing left to do.

Fairness: agents and builders are services that loop and are restarted
(`etc/systemd`), the time bucket elapses, Patroni streams, and it replaces a
leader whose machine Core has taken away; Core provisions, reports and delivers;
the bootstrap script ends, the platform's agent writes the file and runs its
command, and systemd restarts what it has started. There is no fairness for
requests, publications, edits, faults, reboots, new images, exits of Patroni or
spontaneous failovers, so the properties hold if these stop at any point; but
for the exits they are finite in number by the bounds. `Begin` and the requests
are not fair either: an abandoned request changes nothing.

## Further disagreements

Met while modelling, each confirmed with TLC on one of the modules above by
changing a constant or adding a property, and not kept as a run:

- A database may be called `postgres`: `PGNameType` (`user_api/dm/models.py:41`)
  lacks the names that `pg.py:40` asks the control plane to exclude. With such a
  payload `Converges` fails: the agent does not see the database it has, tries to
  create it in every iteration and never gets past the error.
- When an instance shrinks to one node while its leader's agent is between the
  DCS patch of the old target and its last statement, strict synchronous mode
  keeps the commit waiting for a standby that will not come, and with it the
  thread that would turn the mode off (`pg.py:302`); `Converges` fails with a
  payload of one node.
- The owner of a database may be a user of another instance
  (`user_api/dm/models.py:179`), against "Database owner must be a valid user"
  (`docs/postgresql.md:145`): the payload names an owner that is not among its
  users. `OwnersPublished` without its condition on `Strangers` fails.
- An instance's name may have 255 characters, that of its nodes 64
  (`paas/dm/models.py:42`): with `LongNames` not empty `EventuallyPublished` fails,
  since the builder raises for ever.
- "ACTIVE: Instance ready for use" (`docs/postgresql.md:162`): the status of the node
  set becomes that of the instance (`infra/services/builder.py:308`) before any
  machine has a configuration.
- A password of characters that SASLprep maps to nothing is an `IndexError`
  (`saslprep.py:96`), and neither accepted, as the RFC would, nor refused.
- A payload whose owner is not among its users (see above) makes the leader's agent
  raise after it has patched the DCS. The meta file then still has the older
  `nodes_number`; if the older number is published again before the error is
  repaired, the driver sees no difference (`pg.py:137`) and the synchronous mode of
  the refused payload stays. `SyncModeApplied` without its disjunct `ModeLeft` fails
  in `agent_steady`, whose payload `Foreign` is such a one.
- A user that is deleted, but has tables or privileges in a database, for instance in
  one that was handed over, is never dropped: `pg.py:186` passes over
  `DependentObjectsStillExist`, and the agent tries again in every iteration. With
  a payload that drops a user `Converges` and `Quiesces` fail, so those of
  `agent_live` drop none.
- The unit asks for `ConditionPathExists=` in `[Service]`
  (`exordos-patroni.service:10`), which systemd ignores with a warning. It is as well:
  when `patroni.yml` arrives after the script has started the unit, the file's command
  `try-reload-or-restart` (`infra/dm/models.py:61`) does nothing for a unit that is
  not running, and only `Restart=always` brings Patroni up. Were the condition in
  `[Unit]`, the unit would stay down until the next boot, and `ComesUp` would fail
  (`EnableNowIfThere`).

## Proofs

Every theorem holds for all values of the constants that the named assumptions
allow: any finite set of nodes, any names, payloads, rows, passwords, and any
number of requests, faults and boots.

`PGAgentProofs`:

- `TypeCorrect`: `Spec => []TypeOK`;
- `Invariance`: `Spec => []IInv`, where `IInv` is `TypeOK`, `RowsManaged`,
  `SystemObjectsKept` and `OnlyPublished` together;
- `SystemObjectsSafe`, `CopiesPublished`, `RowsSafe`: its parts;
- `Implementation`: `Spec => ImplementsManaged`.

`SystemObjectsKept` is not inductive alone: that no reserved name is dropped
depends on what the agent remembers of an earlier SELECT, on the target it
fetched, and on the payloads published. `RowsManaged` is what is missing: rows in
memory never name a reserved object, and a database about to be closed is one
its target wants. With it each action either leaves reserved objects alone or
contradicts `PayloadsAssumption`. `OnlyPublished` needs that publications only grow and
that an agent's target is one of them. `Implementation` uses the invariant for the
same two facts: a statement of an agent is guarded by `seen` and must be shown to
be allowed by the adopted payload.

`PGLeaderProofs`, for behaviours in which the leader stays:

- `LeaderDropsRight`: `Spec => LeaderDropsOnlyDeleted`. The invariant `LeaderNamed`
  says that every managed database in the leader's copy is named by a payload that
  its agent has adopted; so a database that its target does not name was in an
  older payload and has been deleted since.
- `Revoked`: `Spec => []ConnectRevoked`. `LeaderCloses` says that while no agent
  has failed, the one database open to PUBLIC is the one the leader's agent is
  about to close.
- `StatementsTaken`: `Spec => []RefusedByPayload`. Which statement is sent (CREATE or
  ALTER, or none) follows from rows read earlier, and a retry finds what a failed
  iteration has left. `RowsFresh` says that what the loops still look at is in memory
  as it is on the leader, and that the users of the target have their passwords
  before a database is given to one of them. So Postgres can only refuse what no
  agent could do: an owner that is not among the users, or a reserved name.
- `SavesDone`: `Spec => SavesWhatIsDone`. An iteration ends as a success when its
  loops have no work left by what they remember, or when it was skipped.
  `LeaderFollows` says that memory and data agree (`RowsFresh`), that the leader's
  agent is the only one that takes itself for the primary and never skips
  (`OneWriter`), and that the DCS is still what it patched (`DCSPatched`).
- `ModeApplied`: `Spec => []SyncModeApplied`. Its part of `LeaderFollows` is
  `MetaTells`: between two patches the mode is what the meta file of the leader says,
  unless a payload that cannot be carried out was refused between the patch of the DCS
  and the save of the meta file (`ModeLeft`, see above). The API can publish such a
  payload, so the theorem assumes nothing of payloads that the code does not ensure.

`ControlPlaneProofs`:

- `TypeCorrect`; `NothingMissed`: `Spec => []NothingUnpublished`; `OwnersNamed`:
  `Spec => []OwnersPublished`.

`NothingUnpublished` compares what was published with the rows, at the moment
when their dates agree. Its strengthening adds that no row is dated later than
the clock and that the last commit gave the instance its date (`Dated`), that
every request but a creation has loaded an instance and the child it is to
change (`RequestsLoaded`), and that what the builder has read is still what the
rows say as long as the clock stands where it was when the builder loaded the
instance (`ReadsFresh`). With the foreign key (`OwnersExist`) every owner was
then read as a user in the same iteration.

`ControlPlaneLogProofs`: `Implementation`: `LogSpec => ImplementsPublication`. The
invariant ties the history to the rows: the last state of the log is that of the
rows, no two of its states have one date, and what the builder has read was
committed in that order after everything the payload before it was made of.

`UserPasswordProofs`: `TypeCorrect`; `HashesFit`: `Spec => []HashFitsPassword`;
`DecidesRight`: `Spec => []DecidesLikeRFC`. The second rests on `RowsHashed` (each
verifier was made of the password beside it); the third on `FailsIffDisallowed`,
for strings of any length and any tables: what the loop refuses in the direction
of the first character is what the RFC forbids of the whole string.

`PGNodeBootProofs`: `TypeCorrect`; `DataSafe`: `Spec => []DataOnDisk`, because the
unit is enabled or up, or the script at its last step, only when the directories are
moved, and Patroni runs only under a unit that is up. `NewFileTold`:
`Spec => []OldUntilTold`: a running Patroni with an old file has a command to come, as
the command follows the file, and a boot or a restart takes the file that is there.

`CoreInfraProofs`: `TypeCorrect`, `RestRight` (`Spec => []RestsRight`) and `Overlap`
(`Spec => []QuorumsOverlap`), from one invariant. Its parts:

- `RowFollowed`: an iteration that is under way works from the row as it is, unless
  another one is due; after it, targets, configurations, addresses and status are
  those of the row and of the report it was made for. `KeysFollowed`: a machine
  that was in that report, is to stay and is still there has its key. At rest the
  report is what Core has, so all of them are right.
- `Calm`: as long as `nodes_number` changes by one at a time, and only after the
  change before has settled, there are two sets of machines, `big` and `small`,
  the second the first without its last machine or equal to it, such that every
  configuration, and every view of Patroni, is one of them, plus the node
  itself. There are three phases: `Growing` (the last machine of `core` may be
  new), `ShrinkingFrom` (the last machine of `big` is to go or gone) and
  `Leaving` (the instance is deleted, and nothing is configured any more). That
  a request finds the invariant of the next phase rests on `RowFollowed`, since
  only then everybody knows the same machines.
- `Majorities`: majorities of two sets between `small` and `big` intersect.

The invariant was checked by TLC, with up to 6 machines and 3 updates, before it
was proved.

Assumptions: `NamesAssumption` (the superuser is a reserved role, reserved names
are names, `Absent` is none of them), `PayloadsAssumption` (the set of nodes is
finite; payloads have the declared shape and no reserved user, as
`PGRoleNameType` guarantees; reserved databases are allowed, as the code allows
them), `BoundsAssumption`, `FaultsAssumption`, `BootAssumption` and
`NodesAssumption` (bounds are numbers, there are finitely many machines and a
size); `ValuesAssumption` (an instance has a node, strangers are users) and
`AbsentAssumption` (`Absent` is no row and no payload, and in `CoreInfra` no row
and no report); `TablesAssumption` and `StringsAssumption` (the tables are sets
of characters, NFKC returns a string) and `PasswordsAssumption` (a password does
not look like a whole verifier, which has more characters than a password may).
TLC evaluates them in every run.

Only model-checked: liveness (`Converges`, `Quiesces`, `EventuallyPublished`,
`MembersSettle`, `KeysSettle`, `RowSettles`, `RunsNewest`, `ComesUp`,
`SyncModeConverges`), which is beyond the prover, as are `ENABLED` and induction
over data. The safety half of three of them is proved: `RestRight` (what settles
is right), `StatementsTaken` and `SavesDone` (the leader's agent is not stopped
by what it knows, and has then done its work) and `NewFileTold` (an old file
does not go unnoticed).

## Not modelled

- HTTP applications, authentication, permissions, commands, configuration,
  logging: wiring of external frameworks without state of its own.
- SQL text and quoting, the format of payloads and of `patroni.yml`.
- The rows of `postgres_versions`, which only name an image; cpu, ram and disk
  apart from one size.
- The md5 branch of `verify_password` and the choice of saslprep not to refuse
  unassigned characters: nothing in the repository calls them.
- The first start of the control plane (`cp_bootstrap.sh`) and the move of logs:
  they use functions of `lib_bootstrap.sh`, which is not in this repository.
- Renaming a database is in `ControlPlane` as an update; that the agents then drop
  the old database and create an empty one follows from `PGAgent`, and no property is
  stated about it. Renaming an instance changes the scope of its Patroni cluster;
  what Patroni does with the data of another scope is Patroni's.
- Whether a shared default dict in the driver's model (`pg.py:126`) matters depends on
  code outside this repository.
- Loss of a machine's persistent disk, and network partitions other than a failover.

## Plan

The modules were written in the order of importance: `PGCluster`, `PGAgent`,
`ManagedCluster`, `PGAgentProofs`, `ControlPlane`, `CoreInfra`; then `SaslPrep` and
`UserPassword`, `Publication` and `ControlPlaneLog`, `PGNodeBoot`, and the proofs
of each.

Left for the model: three nodes in `PGAgent` without liveness; more than one
instance at a time, which share the builders' loops.

Left for the proofs: an abstract specification of `CoreInfra`, with the proof that
the builder implements it; more of what the liveness properties rest on, such as
that an agent which finds nothing to do has nothing to do.
